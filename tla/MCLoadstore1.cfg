SPECIFICATION FairSpec
CONSTANTS
    Kinds <- AllKinds
    hash_enable = TRUE
    HashAlone = TRUE
    HashSteps = 8
    MaxWalk = 1
INVARIANTS Handshakes OldestCompletes PreciseInterrupt DataFollowsRequest
PROPERTIES Finishes
