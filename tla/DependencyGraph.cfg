CONSTANTS
    Names = {1, 2, 3}
    Malformed = Malformed
    MaxRefs = 3
    MaxDeclared = 1
SPECIFICATION MCSpec
INVARIANTS
    ResolveInvariant
    OrderHonoursDeclarations
    CycleIffStuck
    OrderIsDeterministic
