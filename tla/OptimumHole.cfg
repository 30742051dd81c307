SPECIFICATION Spec
CONSTANTS
    r1 = r1
    r2 = r2
    r3 = r3
    r4 = r4
    Req <- FourReqs
    Text <- Texts
    PromptLen <- Prompts
    Prio <- Priorities
    IB = 2
    Ratio = 2
    Configs <- Full
    MaxReqs = 2
    MaxBlocks = 3
    CopyMayFail = FALSE
INVARIANT NoHole
CHECK_DEADLOCK FALSE
