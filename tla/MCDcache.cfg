SPECIFICATION MCSpec
CONSTANTS
    Lines = {"A", "B"}
    NumRows = 2
    Ways = {1, 2}
    Vals = {0, 1, 2}
    Zero = 0
    Page <- MCPage
    MaxAcks = 2
    MidTag = FALSE
    Modes = {"share", "rows", "stores", "byte", "flush", "link", "zero", "other"}
INVARIANTS LoadFresh Coherent OneWay AnswersInOrder BusDrained Atomic
