SPECIFICATION Spec
CONSTANTS
    b1 = b1
    b2 = b2
    c1 = c1
    c2 = c2
    NL1 = 3
    NL2 = 2
    Sg = {b1}
    Sizes <- MCSizes
    Coherent = {c1, c2}
    CohSize = 1
    Base <- MCBase
    TrashSize = 1
    Faults = {"l2", "pages", "vmap", "power"}
INVARIANTS
    RangesApart
    MappedTranslates
    PciAddressesBack
    TableAllocated
    TlbCurrent
