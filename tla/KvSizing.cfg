SPECIFICATION Spec
CONSTANTS
    Rank <- Ranks
    Unit <- Units
    Boots <- StartUps
    Hint = 4
    MinBlock = 4
    SmallMax = 1024
    SmallBlock = 2048
    MediumMax = 10240
    MediumBlock = 20480
    LargeRound = 2048
    AllocatorReserve = 4096
    CopyStreamReserve = 5120
INVARIANTS
    PoolIsWhatRanksHold
    LargestThatFits
    
