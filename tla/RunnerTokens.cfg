SPECIFICATION FairSpec
CONSTANTS
    r1 = r1
    r2 = r2
    r3 = r3
    Req = {r1, r2, r3}
    Prompt <- Prompts
    End <- Ends
    MaxModelLen = 7
    Chunk = 3
    Seqs = 4
    Buckets = {1, 2, 4}
    MaxUpsets = 1
    Configs <- AllConfigs
INVARIANTS
    BoundsHold
    ProcessorsSeeTokens
PROPERTIES
    Generates
    EveryoneFinishes
CHECK_DEADLOCK FALSE
