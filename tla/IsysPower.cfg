SPECIFICATION Spec
CONSTANTS
    Nodes = {n1, n2}
    Faults = {"timeout", "power", "lost", "stream", "nomem", "auth", "nosilent"}
INVARIANTS
    TypeOK
    OneFwOwner
    FirmwareServes
    IsrContextLive
PROPERTY
    CallsReturn
