CONSTANTS
    Providers = {"gitlab", "github"}
    base = base
    app = app
    Images <- MCImages
    Deps <- MCDeps
    amd64 = amd64
    arm64 = arm64
    Platforms = {amd64, arm64}
    Main = main
    MergeRequests = {mr1}
    Branches = {}
    CancelOutdated = {main, mr1}
    Production = production
    None = none
    MaxPipelines = 2
    MaxFailures = 1
SPECIFICATION Spec
INVARIANTS
    ManifestIsOneCommit
    PublishedIsSound
    ProductionIsLatestMain
    AffectedArePublished
SYMMETRY PlatformSymmetry
