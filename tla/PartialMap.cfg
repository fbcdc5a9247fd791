SPECIFICATION Spec
CONSTANTS
    b1 = b1
    b2 = b2
    c1 = c1
    c2 = c2
    NL1 = 4
    NL2 = 2
    Sg = {b2}
    Sizes <- MCSizes
    Coherent = {}
    CohSize = 1
    Base <- MCBase
    TrashSize = 2
    Faults = {"l2"}
INVARIANT
    UnmapComplete
