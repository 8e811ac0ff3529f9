CONSTANTS
    Processes <- MCProcesses
    Goroutines <- MCGoroutines
    ProcessOf <- MCProcessOf
    Pid <- DistinctPids
    Refreshable <- OnlyA
    SourceTTL <- MixedTTL
    HiveTTL = Unset
    defaultTTL = 1
    Unset = Unset
    Inodes = {1, 2, 3, 4, 5}
    MaxTime = 1
    MaxCrashes = 1
SPECIFICATION Spec
CHECK_DEADLOCK FALSE
INVARIANTS
    CacheInvariant
    EntriesAreSound
PROPERTIES
    NoRedundantFetch
    CallsReturn
