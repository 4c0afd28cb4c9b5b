SPECIFICATION FairSpec
CONSTANTS
    Kinds <- LoadThenHash
    hash_enable = TRUE
    HashAlone = FALSE
    HashSteps = 8
    MaxWalk = 0
PROPERTIES
    Finishes
