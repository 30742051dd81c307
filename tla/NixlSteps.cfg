SPECIFICATION FairSpec
CONSTANTS
    Req <- Requests
    BlockId <- Blocks
    Configs <- Served
    MaxPreempt = 1
INVARIANTS
    PromptKVIsOwn
    LeasedIsStaged
PROPERTY
    WaitsEnd
CHECK_DEADLOCK FALSE
