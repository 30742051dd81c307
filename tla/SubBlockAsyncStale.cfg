SPECIFICATION Spec
CONSTANTS
    b1 = b1
    b2 = b2
    b3 = b3
    r1 = r1
    r2 = r2
    r3 = r3
    Req <- ThreeReqs
    Block <- ThreeBlocks
    Configs <- AsyncApart
SYMMETRY BlockSymmetry
INVARIANTS
    ComputedIsOwn
