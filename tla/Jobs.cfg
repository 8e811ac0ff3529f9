CONSTANTS
    Cases <- TheCases
    Selections <- TheSelections
    Files <- TheFiles
    RoomInChannel = 1
    Workers = {w1, w2}
    Targets = {"buildkitd", "docker"}
    WaitFlags <- TheFlags
    Projects <- TheProjects
    FilterSets <- TheFilters
    Builds = {"first", "again", "other", "uncached", "merged", "clash", "flake", "dangling", "i386"}
    Contexts <- TheContexts
    Sessions <- TheSessions
    Repos = {"canonical"}
    Refs = {"24.04", "22.04"}
    MaxCommits = 2
    Starts = {s1, s2}
    Stops <- TheStops
    Vertices = {v1, v2}
    Chunks <- TheChunks
    MaxUpdates = 3
SPECIFICATION Spec
INVARIANTS
    DaemonsAnswered
    SbomsDescribeTars
    TestsJudgeImages
    AliasesFollowManifests
    CutsAreSound
    DaemonsAreKept
    ScreenTellsTheSolve
PROPERTIES
    JobEnds
