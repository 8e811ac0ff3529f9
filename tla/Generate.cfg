CONSTANTS
    Root = "images"
    RootfsDirs <- MCRootfsDirs
    Configs <- MCConfigs
    Trees <- MCTrees
    Definitions <- MCDefinitions
    Tags <- MCTags
    Variants <- MCVariants
    Suffixed <- MCSuffixed
    WithRootfs <- MCWithRootfs
    Earlier <- MCEarlier
SPECIFICATION Spec
INVARIANTS
    GenerateInvariant
    
