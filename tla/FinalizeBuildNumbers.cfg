CONSTANTS
    Projects <- BuildNumbers
    FilterSets <- NoFilters
SPECIFICATION Spec
INVARIANT HighestVersionWins
