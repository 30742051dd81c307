SPECIFICATION FairSpec
CONSTANTS
    r1 = r1
    r2 = r2
    r3 = r3
    Req <- MCReq
    PromptLen <- MCPromptLen
    MaxLen <- MCMaxLen
    MaxModelLen = 7
    Hits = {0, 1, 4}
    BlockSize = 1
    MaxTokens = 3
    Priority <- MCPriority
    Configs <- ThreeConfigs
INVARIANTS
    StepFitsGraph
    PhaseAgrees
    Anchored
    RunnerTableExact
PROPERTIES
    EveryoneFinishes
