SPECIFICATION Spec
CONSTANTS
    Kinds <- LoadsAndStores
    hash_enable = FALSE
    HashAlone = TRUE
    HashSteps = 8
    MaxWalk = 0
INVARIANTS
    OldestCompletes
