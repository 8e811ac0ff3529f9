CONSTANTS
    Calls = {1, 2, 3}
    Images = {"app", "new"}
    Existing = {"app"}
    Variants = {"slim", "dev"}
    Pages = {"index", "usage"}
    Workloads <- MCWorkloads
    MaxDeaths = 1
SPECIFICATION Spec
CHECK_DEADLOCK FALSE
INVARIANTS
    McpInvariant
PROPERTY CallsAreAnswered
