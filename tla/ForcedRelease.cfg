SPECIFICATION Spec
CONSTANTS
    Nodes = {n1}
    Faults = {"timeout"}
INVARIANT
    ForcedReleaseSafe
