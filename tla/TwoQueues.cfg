SPECIFICATION Spec
SYMMETRY MsgSymmetry
CONSTANTS
    b3 = b3
    q1 = q1
    q2 = q2
    Queues = {q1, q2}
    Buffers = {b1, b2, b3}
    QueueOf <- MCQueueOf
    InitMsgs = {m1, m2}
    Msgs = {m1, m2, m3, m4}
    SendSize = 3
    RecvSize = 4
    Faults = {"pinerror", "setup", "fwopen"}
    Soundness = {FALSE}
    MaxOpened = 1
    MaxLeaked = 1
INVARIANTS
    ReadyFindsBuffer
    StreamSetInIsr
    MessagesInUse
    InStep
