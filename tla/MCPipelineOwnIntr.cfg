SPECIFICATION Spec
CONSTANTS
    TagCount = 4
    Kinds <- FpTraps
    Irqs = {FALSE}
    MulCycles = 3
    SortCycles = 5
    Refetch = 3
    MaxWalk = 0
PROPERTIES OwnInterruptKeepsFpscr
