SPECIFICATION Spec
CONSTANTS
    Kinds <- CheckThenLoad
    hash_enable = TRUE
    HashAlone = FALSE
    HashSteps = 8
    MaxWalk = 0
INVARIANTS
    HashOwnData
