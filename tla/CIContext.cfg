CONSTANTS
    Names <- MCNames
    Dangling = 9
    FixedNames = {2}
    Units <- MCUnits
    MaxShards = 2
    Definitions <- MCDefinitions
    Globals <- MCGlobals
SPECIFICATION ContextSpec
INVARIANT ContextFitsTheBuild
