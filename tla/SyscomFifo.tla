----------------------------- MODULE SyscomFifo -----------------------------
(***************************************************************************)
(* What one syscom message queue promises its two ends: a first-in         *)
(* first-out queue of at most QueueSize tokens.  The sender is told "busy" *)
(* only when the queue is full, the receiver is told "empty" only when     *)
(* nothing is queued.  SyscomRing shows that the shared ring of            *)
(* ipu6-fw-com.c implements it.                                            *)
(***************************************************************************)
EXTENDS Naturals, Sequences

CONSTANTS
    QueueSize,      \* capacity configured in ipu6_isys_fwcom_cfg_init
    Tokens          \* the messages: stream commands or firmware responses

VARIABLES
    fifo,           \* tokens sent and not yet released by the receiver
    sent,           \* the last answer to the sender
    received        \* the last answer to the receiver

vars == <<fifo, sent, received>>

Empty == [ret |-> "empty"]
Token(t) == [ret |-> "token", tok |-> t]

Init ==
    /\ fifo = <<>>
    /\ sent = "none"
    /\ received = Empty

Send(t) ==
    /\ Len(fifo) < QueueSize
    /\ fifo' = Append(fifo, t)
    /\ sent' = "ok"
    /\ UNCHANGED received

SendBusy ==
    /\ Len(fifo) = QueueSize
    /\ sent' = "busy"
    /\ UNCHANGED <<fifo, received>>

Recv ==
    /\ fifo # <<>>
    /\ received' = Token(Head(fifo))
    /\ fifo' = Tail(fifo)
    /\ UNCHANGED sent

RecvEmpty ==
    /\ fifo = <<>>
    /\ received' = Empty
    /\ UNCHANGED <<fifo, sent>>

Next == (\E t \in Tokens : Send(t)) \/ SendBusy \/ Recv \/ RecvEmpty

Safety == Init /\ [][Next]_vars
\* A receiver that keeps polling takes every token that was sent.
Spec == Safety /\ WF_vars(Recv)
=============================================================================
