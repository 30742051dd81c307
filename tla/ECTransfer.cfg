SPECIFICATION FairSpec
CONSTANTS
    h1 = h1
    h2 = h2
    Hash = {h1, h2}
    HashOf <- MCHashOf
    QueueMax = 1
    AckMax = 1
    MaxPulls = 1
    Capacity = 1
    Expires = TRUE
INVARIANTS
    MetadataIsNotLost
    ViewCoversLive
    PullsAccounted
PROPERTY EveryoneServed
CHECK_DEADLOCK FALSE
