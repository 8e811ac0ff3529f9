CONSTANTS
    NoVariant = NoVariant
    Defs <- MCDefs
    NameOf <- MCNameOf
    TagsOf <- MCTagsOf
    VariantsOf <- MCVariantsOf
    FullTag <- MCFullTag
    DependsOn <- MCDependsOn
    HiveRefs <- MCHiveRefs
    Parents <- MCParents
    NoParent = NoParent
    HiveParent = HiveParent
    Entrypoints <- MCEntrypoints
    Normalize <- MCNormalize
    GlobalPlatforms <- MCGlobalPlatforms
    ImagePlatforms <- MCImagePlatforms
    VariantPlatforms <- MCVariantPlatforms
    Invocations <- AllRuns
    Repeatable <- RepeatedRuns
    MaxRuns = 2
SPECIFICATION Spec
INVARIANTS
    BuildInvariant
    DependenciesAreFresh
    ShardBuildsItsBases
PROPERTIES
    InvocationsEnd
    KeepsContract
