SPECIFICATION MCSpec
CONSTANTS
    Lines = {"A", "B"}
    NumRows = 2
    Ways = {1, 2}
    Vals = {0, 1, 2}
    Zero = 0
    Page <- MCPage
    MaxAcks = 2
    MidTag = FALSE
    Modes = {"dcbz_store"}
INVARIANT Coherent
