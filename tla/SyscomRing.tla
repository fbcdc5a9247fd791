----------------------------- MODULE SyscomRing -----------------------------
(***************************************************************************)
(* One syscom ring of ipu6-fw-com.c: QueueSize + 1 token slots in memory   *)
(* shared by the driver and the SP firmware, a write index owned by the    *)
(* sender and a read index owned by the receiver.  The driver is the       *)
(* sender of the input queues (ipu6_send_get_token, ipu6_send_put_token)   *)
(* and the receiver of the output queues (ipu6_recv_get_token,             *)
(* ipu6_recv_put_token); the firmware plays the mirrored role with the     *)
(* same protocol, so one ring with both of the driver's halves stands for  *)
(* either direction.                                                       *)
(*                                                                         *)
(* Both ends run concurrently.  A get_token reads its own index and then   *)
(* the other end's with one readl, so the whole call takes effect at that  *)
(* read.  The token is written or used in place, between get and put.      *)
(*                                                                         *)
(* BumpUnwrapped, FreeWithoutGap, UsedUnwrapped and RecvPutWithoutBump are *)
(* mistaken variants of the definition below them, kept to show that the   *)
(* properties notice such mistakes.                                        *)
(***************************************************************************)
EXTENDS Integers, Sequences

CONSTANTS QueueSize, Tokens

ASSUME QueueSizeAssumption == QueueSize \in Nat \ {0}

VARIABLES
    wr, rd,         \* the queue's index registers in SP data memory
    slot,           \* the token slots in host memory
    sender,         \* where the sender is in its get / fill / put sequence
    receiver,       \* where the receiver is in its get / put sequence
    sent, received  \* the last answers given to either end

vars == <<wr, rd, slot, sender, receiver, sent, received>>

size == QueueSize + 1
Slots == 0 .. size - 1

NoToken == [ret |-> "empty"]
Token(t) == [ret |-> "token", tok |-> t]

TypeOK ==
    /\ wr \in Slots
    /\ rd \in Slots
    /\ slot \in [Slots -> Tokens]
    /\ sender \in {"idle", "fill", "put"}
    /\ receiver \in {"idle", "handle"}
    /\ sent \in {"none", "ok", "busy"}
    /\ received \in {NoToken} \cup [ret : {"token"}, tok : Tokens]

\* The firmware clears the indices before it reports SYSCOM_STATE_READY; the
\* slots hold whatever the memory held.
Init ==
    /\ wr = 0
    /\ rd = 0
    /\ slot \in [Slots -> Tokens]
    /\ sender = "idle"
    /\ receiver = "idle"
    /\ sent = "none"
    /\ received = NoToken

-----------------------------------------------------------------------------
(* The index arithmetic of the four functions.                             *)

BumpUnwrapped(i) == i + 1
Bump(i) == IF i + 1 >= size THEN 0 ELSE i + 1
FreeWithoutGap == IF wr < rd THEN rd - wr ELSE size - (wr - rd)
FreePackets == IF wr < rd THEN rd - wr - 1 ELSE size - (wr - rd + 1)
UsedUnwrapped == wr - rd
UsedPackets == (IF wr < rd THEN wr + size ELSE wr) - rd

-----------------------------------------------------------------------------
(* The sender.                                                             *)

SendGetToken ==
    /\ sender = "idle"
    /\ FreePackets # 0
    /\ sender' = "fill"
    /\ UNCHANGED <<wr, rd, slot, receiver, sent, received>>

\* ipu6_fw_isys_complex_cmd returns -EBUSY when there is no token.
SendBusy ==
    /\ sender = "idle"
    /\ FreePackets = 0
    /\ sent' = "busy"
    /\ UNCHANGED <<wr, rd, slot, sender, receiver, received>>

FillToken(t) ==
    /\ sender = "fill"
    /\ slot' = [slot EXCEPT ![wr] = t]
    /\ sender' = "put"
    /\ UNCHANGED <<wr, rd, receiver, sent, received>>

SendPutToken ==
    /\ sender = "put"
    /\ wr' = Bump(wr)
    /\ sender' = "idle"
    /\ sent' = "ok"
    /\ UNCHANGED <<rd, slot, receiver, received>>

-----------------------------------------------------------------------------
(* The receiver.                                                           *)

RecvGetToken ==
    /\ receiver = "idle"
    /\ UsedPackets # 0
    /\ receiver' = "handle"
    /\ UNCHANGED <<wr, rd, slot, sender, sent, received>>

RecvEmpty ==
    /\ receiver = "idle"
    /\ UsedPackets = 0
    /\ received' = NoToken
    /\ UNCHANGED <<wr, rd, slot, sender, receiver, sent>>

\* The handler works on the token in its slot until it gives the slot back.
RecvPutWithoutBump ==
    /\ receiver = "handle"
    /\ received' = Token(slot[rd])
    /\ receiver' = "idle"
    /\ UNCHANGED <<wr, rd, slot, sender, sent>>
RecvPutToken ==
    /\ receiver = "handle"
    /\ received' = Token(slot[rd])
    /\ rd' = Bump(rd)
    /\ receiver' = "idle"
    /\ UNCHANGED <<wr, slot, sender, sent>>

-----------------------------------------------------------------------------
SenderStep ==
    \/ SendGetToken
    \/ SendBusy
    \/ \E t \in Tokens : FillToken(t)
    \/ SendPutToken

ReceiverStep == RecvGetToken \/ RecvEmpty \/ RecvPutToken

Next == SenderStep \/ ReceiverStep

\* The receiver is polled for as long as it holds or could get a token; the
\* sender may stop at any time.
Spec ==
    /\ Init /\ [][Next]_vars
    /\ WF_vars(RecvGetToken) /\ WF_vars(RecvPutToken)

-----------------------------------------------------------------------------
\* The sender never fills the slot whose token the receiver is still handling:
\* a response handler (isys_isr_one) reads its token in place until
\* ipu6_fw_isys_put_resp, long after the indices were compared.
NoSlotSharing ==
    (sender # "idle" /\ receiver = "handle") => wr # rd

\* The indices and the unfinished calls agree: a sender that was given a slot
\* still has room, a receiver that was given a token still has one.  The
\* strengthening that makes NoSlotSharing inductive.
Reserved ==
    /\ sender # "idle" => UsedPackets < QueueSize
    /\ receiver = "handle" => UsedPackets > 0

\* The queued tokens, oldest first: the ring seen as a sequence.
Contents ==
    [i \in 1 .. UsedPackets |->
        slot[IF rd + i - 1 >= size THEN rd + i - 1 - size ELSE rd + i - 1]]

\* The ring implements the bounded FIFO: no token is lost, duplicated,
\* reordered or overwritten before the receiver releases it, "busy" means all
\* QueueSize places are taken (ipu6_sys_queue_init allots one slot more) and
\* "empty" means nothing is queued.
Fifo == INSTANCE SyscomFifo WITH fifo <- Contents
FifoSpec == Fifo!Spec
=============================================================================
