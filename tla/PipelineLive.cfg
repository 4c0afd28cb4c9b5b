SPECIFICATION FairSpec
CONSTANTS
    TagCount = 3
    Kinds <- FpLoads
    Irqs = {FALSE}
    MulCycles = 3
    SortCycles = 5
    Refetch = 3
    MaxWalk = 0
INVARIANTS UnitsInStep RollbackExact
PROPERTIES Drains
