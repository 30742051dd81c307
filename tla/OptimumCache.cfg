SPECIFICATION FairSpec
CONSTANTS
    r1 = r1
    r2 = r2
    r3 = r3
    r4 = r4
    Req <- FourReqs
    Text <- Texts
    PromptLen <- Prompts
    Prio <- Priorities
    IB = 2
    Ratio = 2
    Configs <- SmallAndFull
    MaxReqs = 2
    MaxBlocks = 3
    CopyMayFail = TRUE
INVARIANT KVIsOwn
INVARIANT MapsAgree
INVARIANT TablesAgree
INVARIANT OthersUntouched
PROPERTY EveryoneFinishes
CHECK_DEADLOCK FALSE
