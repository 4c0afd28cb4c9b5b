SPECIFICATION MixSpec
CONSTANTS
    TagCount = 3
    Kinds <- AllKinds
    Irqs = {FALSE, TRUE}
    MulCycles = 3
    SortCycles = 5
    Refetch = 3
    MaxWalk = 0
INVARIANTS UnitsInStep PreciseInterrupt CarryFresh ControlContract
