SPECIFICATION Spec
CONSTANTS
    b1 = b1
    b2 = b2
    b3 = b3
    r1 = r1
    r2 = r2
    r3 = r3
    Req <- ThreeReqs
    Block <- ThreeBlocks
    Configs <- ThreeConfigs
SYMMETRY BlockSymmetry
INVARIANTS
    RefCountsOwned
    IndexSound
    ReuseSound
    HashesMatchIndex
