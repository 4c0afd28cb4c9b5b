SPECIFICATION Spec
CONSTANTS
    TagCount = 4
    Kinds <- FpLoads
    Irqs = {FALSE}
    MulCycles = 3
    SortCycles = 5
    Refetch = 3
    MaxWalk = 0
INVARIANTS RolledBack
