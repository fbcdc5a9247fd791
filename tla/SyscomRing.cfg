SPECIFICATION Spec
CONSTANTS
    QueueSize = 3
    Tokens = {t1, t2}
INVARIANTS
    TypeOK
    NoSlotSharing
    Reserved
PROPERTY
    FifoSpec
