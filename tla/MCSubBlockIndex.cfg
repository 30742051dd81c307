SPECIFICATION Spec
CONSTANTS
    b1 = b1
    b2 = b2
    b3 = b3
    Block <- MCBlock
    Hash <- MCHash
    Chain <- MCChain
    MaxEvents = 2
SYMMETRY MCSymmetry
INVARIANTS
    IndexAgrees
    EventsExact
    MatchSound
PROPERTY
    EventsFresh
