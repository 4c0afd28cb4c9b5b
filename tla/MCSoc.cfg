SPECIFICATION SocSpec
CONSTANTS
    Depth = 3
    Data = {0, 1}
    Counts = {3, 5}
    MaxPend = 2
    NCPUS = 1
    SRC_NUM = 2
    PRIO_BITS = 2
    Cpprs = {1, 255}
    Mfrrs = {1, 255}
    Pris = {0, 1, 255}
INVARIANTS AcksRouted Presents
PROPERTIES IsBoundedQueue TopPriorityServed
