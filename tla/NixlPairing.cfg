SPECIFICATION Spec
CONSTANTS
    Layers = 2
    Topologies <- Comparable
INVARIANTS
    TransferExact
    SettledExactly
    SupportedIsAccepted
CHECK_DEADLOCK FALSE
