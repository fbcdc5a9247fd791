SPECIFICATION Spec
CONSTANTS
    b3 = b3
    q1 = q1
    q2 = q2
    Queues = {q1}
    Buffers = {b1, b2, b4}
    QueueOf <- MCQueueOf
    InitMsgs = {m1}
    Msgs = {m1, m2, m3}
    SendSize = 4
    RecvSize = 3
    Faults = {"timeout", "fwerror", "setup", "config", "fwopen",
              "sensor", "nomem"}
    Soundness = {TRUE, FALSE}
    MaxOpened = 1
    MaxLeaked = 1
INVARIANTS
    TypeOK
    NoDoubleOwner
    
    NoLostBuffer
    CompletesInOrder
    SendNeverFull
PROPERTIES
    IoctlReturns
    BuffersComeBack
    MessagesComeBack
