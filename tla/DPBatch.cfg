SPECIFICATION FairSpec
CONSTANTS
    Configs <- Serving
    Chunks = {1, 5}
INVARIANTS
    SameDimension
    RowsFit
    Warmed
PROPERTY
    RoundsEnd
CHECK_DEADLOCK FALSE
