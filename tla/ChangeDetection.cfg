CONSTANTS
    base = base
    mid = mid
    leaf = leaf
    v1 = v1
    v2 = v2
    any = any
    AnyName = any
    Images <- MCImages
    Tags <- MCTags
    Files <- MCFiles
    Graphs <- PlainGraphs
    FilterLists <- MCFilterLists
    Ruleless = {leaf}
    MaxCommits = 2
    MaxRuns = 1
SPECIFICATION Spec
CHECK_DEADLOCK FALSE
INVARIANTS
    ChangesInvariant
    AffectedIsClosure
    AffectedIsWorkedOff
PROPERTY DetectionEnds
