SPECIFICATION Spec
CONSTANTS
    TagCount = 4
    Kinds <- Sorts
    Irqs = {FALSE}
    MulCycles = 3
    SortCycles = 5
    Refetch = 3
    MaxWalk = 0
INVARIANTS CompletesTagged
