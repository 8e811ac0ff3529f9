CONSTANTS
    Listings <- MCListings
    maxRetries = 3
    maxGitHubPages = 3
    githubPageSize = 2
    maxRegistryTags = 4
    RangeLists <- MCRangeLists
    StaticTags <- MCStaticTags
    Suffixes <- MCSuffixes
    defaultMaxTags = 50
    All = All
    NotGiven = NotGiven
    slim = slim
SPECIFICATION RangesSpec
INVARIANTS
    ResolutionInvariant
    NewestIsKept
