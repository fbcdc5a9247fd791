-------------------------- MODULE IsysStreamProofs --------------------------
(***************************************************************************)
(* A stream with one queue implements QueueBuffers, so that the invariant  *)
(* QueueBuffersProofs proves holds of it: no buffer is in two places, and  *)
(* the firmware has none that the user has, unless a reset is due.         *)
(***************************************************************************)
EXTENDS IsysStream, TLAPS

\* The refinement mapping: the state of the only queue, and the buffers that the
\* commands and responses name; the rest has the same name.
TheQueue == CHOOSE q \in Queues : TRUE
Bufs(s) == [i \in DOMAIN s |-> s[i].bufs]

QB == INSTANCE QueueBuffers WITH
    started <- started[TheQueue], pc <- pc[TheQueue],
    incoming <- incoming[TheQueue], active <- active[TheQueue],
    joined <- TheQueue \in queues, cmds <- Bufs(send), resps <- Bufs(recv)

\* What the mapping needs to know of the state,
IsList(s) == \E S : s \in Seq(S)
Shape ==
    /\ DOMAIN pc = Queues /\ DOMAIN started = Queues
    /\ DOMAIN incoming = Queues /\ DOMAIN active = Queues
    /\ queues \subseteq Queues /\ ~deferred
    /\ IsList(send) /\ IsList(recv)
\* and the invariant of the stream.
Inv == Shape /\ QB!Inv

-----------------------------------------------------------------------------
(* Operators on both sides.                                                *)

\* The operators on lists are the same.
LEMMA SameLists ==
    /\ \A s : QB!ToSet(s) = ToSet(s) /\ QB!Last(s) = Last(s) /\ QB!Front(s) = Front(s)
    /\ \A s : QB!Reverse(s) = Reverse(s) /\ \A i : QB!RemoveAt(s, i) = RemoveAt(s, i)
    /\ \A S : QB!SetToSeqs(S) = SetToSeqs(S) /\ QB!SetToSeq(S) = SetToSeq(S)
<1>1. \A s : QB!ToSet(s) = ToSet(s) /\ QB!Last(s) = Last(s) /\ QB!Front(s) = Front(s)
  BY Zenon DEF QB!ToSet, ToSet, QB!Last, Last, QB!Front, Front
<1>2. \A s : QB!Reverse(s) = Reverse(s) /\ \A i : QB!RemoveAt(s, i) = RemoveAt(s, i)
  BY Zenon DEF QB!Reverse, Reverse, QB!RemoveAt, RemoveAt
<1>3. \A S : QB!Cardinality(S) = Cardinality(S)
  BY Zenon DEF QB!Cardinality, Cardinality
<1>4. \A S : QB!SetToSeqs(S) = SetToSeqs(S)
  BY <1>3, Zenon DEF QB!SetToSeqs, SetToSeqs
<1>5. \A S : QB!SetToSeq(S) = SetToSeq(S)
  BY <1>4, Zenon DEF QB!SetToSeq, SetToSeq
<1> QED  BY <1>1, <1>2, <1>4, <1>5, Zenon

\* The mapping picks the only queue.
LEMMA OnlyQueue == ASSUME NEW q, Queues = {q} PROVE Queues = {TheQueue}
  BY Zenon DEF TheQueue

\* The lists of a stream with one queue.
LEMMA OneQueue ==
    ASSUME Queues = {TheQueue}
    PROVE  /\ \A b \in Buffers : QueueOf[b] = TheQueue
           /\ Of(TheQueue) = Buffers
           /\ ListBufs({TheQueue}) = {Last(incoming[TheQueue])}
           /\ ListReady({TheQueue}) <=> incoming[TheQueue] # <<>>
           /\ DOMAIN ListTaken({TheQueue}) = Queues
           /\ ListTaken({TheQueue})[TheQueue] = Front(incoming[TheQueue])
<1> DEFINE q == TheQueue
<1> HIDE DEF q
<1>1. Queues = {q} /\ q = TheQueue
  BY Zenon DEF q
<1>2. \A b \in Buffers : QueueOf[b] = q
  BY <1>1, StreamAssumption, Zenon
<1>3. Of(q) = Buffers
  BY <1>2, Zenon DEF Of
<1>4. /\ ListBufs({q}) = {Last(incoming[q])} /\ (ListReady({q}) <=> incoming[q] # <<>>)
      /\ DOMAIN ListTaken({q}) = Queues /\ ListTaken({q})[q] = Front(incoming[q])
  BY <1>1, Zenon DEF ListBufs, ListReady, ListTaken
<1> QED  BY <1>1, <1>2, <1>3, <1>4, Zenon

\* Adding buffers to them.
LEMMA AddedOne ==
    ASSUME Queues = {TheQueue}, NEW f, NEW S \in SUBSET Buffers
    PROVE  /\ DOMAIN AddHead(f, S) = Queues
           /\ AddHead(f, S)[TheQueue] = SetToSeq(S) \o f[TheQueue]
           /\ AddTail(f, S)[TheQueue] = f[TheQueue] \o SetToSeq(S)
<1>1. S \cap Of(TheQueue) = S
  <2>1. Of(TheQueue) = Buffers
    BY OneQueue, Zenon
  <2> QED  BY <2>1, Zenon
<1> QED  BY <1>1, Zenon DEF AddHead, AddTail

\* The buffers that a ring's messages name.
LEMMA BufsOf ==
    ASSUME NEW s, IsList(s), Bufs(s) \in QB!Sets
    PROVE  /\ \A r : IsList(Append(s, r)) /\ Bufs(Append(s, r)) = Append(Bufs(s), r.bufs)
           /\ s # <<>> => /\ IsList(Tail(s)) /\ Bufs(Tail(s)) = Tail(Bufs(s))
                          /\ Bufs(s) # <<>> /\ Head(Bufs(s)) = Head(s).bufs
<1>1. PICK S : s \in Seq(S)
  BY Zenon DEF IsList
<1>2. ASSUME NEW r PROVE IsList(Append(s, r)) /\ Bufs(Append(s, r)) = Append(Bufs(s), r.bufs)
  <2>1. Append(s, r) \in Seq(S \cup {r})
    BY <1>1
  <2>2. Bufs(Append(s, r)) = Append(Bufs(s), r.bufs)
    BY <1>1 DEF Bufs
  <2> QED  BY <2>1, <2>2, Zenon DEF IsList
<1>3. ASSUME s # <<>> PROVE /\ IsList(Tail(s)) /\ Bufs(Tail(s)) = Tail(Bufs(s))
                            /\ Bufs(s) # <<>> /\ Head(Bufs(s)) = Head(s).bufs
  <2>1. Tail(s) \in Seq(S)
    BY <1>1, <1>3
  <2>2. Bufs(Tail(s)) = Tail(Bufs(s)) /\ Bufs(s) # <<>> /\ Head(Bufs(s)) = Head(s).bufs
    BY <1>1, <1>3 DEF Bufs
  <2> QED  BY <2>1, <2>2, Zenon DEF IsList
<1> QED  BY <1>2, <1>3, Zenon

\* Two rings' messages, one behind the other.
LEMMA BufsJoined ==
    ASSUME NEW s, IsList(s), Bufs(s) \in QB!Sets, NEW t, IsList(t), Bufs(t) \in QB!Sets
    PROVE  IsList(s \o t) /\ Bufs(s \o t) = Bufs(s) \o Bufs(t)
<1>1. PICK S : s \in Seq(S)
  BY Zenon DEF IsList
<1>2. PICK T : t \in Seq(T)
  BY Zenon DEF IsList
<1>3. s \o t \in Seq(S \cup T)
  BY <1>1, <1>2
<1>4. /\ Len(s) \in Nat /\ Len(t) \in Nat /\ DOMAIN s = 1..Len(s) /\ DOMAIN t = 1..Len(t)
      /\ DOMAIN (s \o t) = 1 .. Len(s) + Len(t)
      /\ \A i \in 1 .. Len(s) + Len(t) :
            (s \o t)[i] = IF i \in 1..Len(s) THEN s[i] ELSE t[i - Len(s)]
  BY <1>1, <1>2
<1>5. Len(Bufs(s)) = Len(s) /\ Len(Bufs(t)) = Len(t)
  BY <1>4 DEF Bufs, QB!Sets
<1>6. /\ Bufs(s) \o Bufs(t) \in QB!Sets /\ Len(Bufs(s) \o Bufs(t)) = Len(s) + Len(t)
      /\ \A i \in 1 .. Len(s) + Len(t) : (Bufs(s) \o Bufs(t))[i] =
            IF i \in 1..Len(s) THEN Bufs(s)[i] ELSE Bufs(t)[i - Len(s)]
  BY <1>4, <1>5 DEF QB!Sets
<1>7. \A i \in 1 .. Len(s) + Len(t) : (Bufs(s) \o Bufs(t))[i] = (s \o t)[i].bufs
  BY <1>4, <1>6 DEF Bufs
<1>8. Bufs(s) \o Bufs(t) = [i \in 1 .. Len(s) + Len(t) |-> (Bufs(s) \o Bufs(t))[i]]
  <2>1. ASSUME NEW u \in QB!Sets PROVE u = [i \in 1..Len(u) |-> u[i]]
    BY DEF QB!Sets
  <2> QED  BY <1>6, <2>1, Zenon
<1>9. Bufs(s \o t) = Bufs(s) \o Bufs(t)
  BY <1>4, <1>7, <1>8, Zenon DEF Bufs
<1> QED  BY <1>3, <1>9, Zenon DEF IsList

\* What the invariant says of the rings, and of the oldest incoming buffer.
LEMMA Known ==
    ASSUME Inv
    PROVE  /\ Bufs(send) \in QB!Sets /\ Bufs(recv) \in QB!Sets /\ held \in QB!Sets
           /\ DOMAIN vb = Buffers /\ bl \in SUBSET Buffers
           /\ incoming[TheQueue] # <<>> => {Last(incoming[TheQueue])} \in SUBSET Buffers
<1>1. QB!TypeInv /\ QB!List(incoming[TheQueue])
  BY Zenon DEF Inv, QB!Inv, QB!OwnerInv, QB!Owned
<1>2. ASSUME NEW s \in Seq(Buffers), s # <<>> PROVE Last(s) \in Buffers
  BY <1>2, SMT DEF Last
<1> QED  BY <1>1, <1>2, Zenon DEF QB!TypeInv, QB!List

-----------------------------------------------------------------------------
(* Steps that move no buffer, and steps that send some.                    *)

\* No buffer moves.
Kept == UNCHANGED <<vb, started, incoming, active, queues, streaming, bl, deferred,
                    ref_count, need_reset, recv, isr, held>>

\* A step that sends nothing, or a command without buffers.
Moves(q, a, b) ==
    /\ pc[q] = a /\ (a = "idle" => started[q]) /\ pc' = [pc EXCEPT ![q] = b]
    /\ Kept /\ frame' = frame
    /\ send' = send \/ \E c, m : send' = Append(send, Command(c, {}, m))

\* A step that sends a frame, if the ring has room for it.
Captures(q, a, b) ==
    /\ pc[q] = a /\ pc' = [pc EXCEPT ![q] = b]
    /\ Kept /\ frame' = {}
    /\ send' = send \/ \E c, m : send' = Append(send, Command(c, frame, m))

\* A command names the buffers it is given.
LEMMA Issued ==
    ASSUME Inv, NEW X, send' = send \/ \E c, m : send' = Append(send, Command(c, X, m))
    PROVE  IsList(send') /\ Bufs(send') \in {Bufs(send), Append(Bufs(send), X)}
<1>1. IsList(send) /\ Bufs(send) \in QB!Sets
  BY Known, Zenon DEF Inv, Shape
<1>2. CASE send' = send
  BY <1>1, <1>2, Zenon
<1>3. ASSUME NEW c, NEW m, send' = Append(send, Command(c, X, m))
      PROVE  IsList(send') /\ Bufs(send') = Append(Bufs(send), X)
  <2>1. Command(c, X, m).bufs = X
    BY DEF Command
  <2> QED  BY <1>1, <1>3, <2>1, BufsOf, Zenon
<1> QED  BY <1>2, <1>3, Zenon

\* Steps of the first kind pass,
LEMMA MovesPass ==
    ASSUME Inv, Queues = {TheQueue}, NEW a, NEW b, Moves(TheQueue, a, b), <<a, b>> \in QB!Passes
    PROVE  QB!Pass /\ Shape'
<1>1. /\ pc[TheQueue] = a /\ pc'[TheQueue] = b /\ (a = "idle" => started[TheQueue])
      /\ Kept /\ frame' = frame /\ DOMAIN pc' = Queues
  BY Zenon DEF Moves, Inv, Shape
<1>2. IsList(send') /\ Bufs(send') \in {Bufs(send), Append(Bufs(send), {})}
  BY Issued, Zenon DEF Moves
<1>3. Shape'
  BY <1>1, <1>2, Zenon DEF Inv, Shape, Kept
<1>4. QB!Pass
  BY <1>1, <1>2, Zenon
     DEF Kept, QB!Pass, QB!listVars, QB!streamVars, QB!callVars, QB!isysVars
<1> QED  BY <1>3, <1>4, Zenon

\* and those of the second send.
LEMMA CapturesSend ==
    ASSUME Inv, Queues = {TheQueue}, NEW a, NEW b, Captures(TheQueue, a, b),
           <<a, b>> \in {<<"capture", "idle">>, <<"start", "start_wait">>,
                         <<"start", "undo_close">>, <<"loop_capture", "idle">>,
                         <<"loop_capture", "capture_loop">>}
    PROVE  QB!Send /\ Shape'
<1>1. /\ pc[TheQueue] = a /\ pc'[TheQueue] = b
      /\ Kept /\ frame' = {} /\ DOMAIN pc' = Queues
  BY Zenon DEF Captures, Inv, Shape
<1>2. IsList(send') /\ Bufs(send') \in {Bufs(send), Append(Bufs(send), frame)}
  BY Issued, Zenon DEF Captures
<1>3. Shape'
  BY <1>1, <1>2, Zenon DEF Inv, Shape, Kept
<1>4. QB!Send
  BY <1>1, <1>2, Zenon DEF Kept, QB!Send, QB!listVars, QB!streamVars, QB!isysVars
<1> QED  BY <1>3, <1>4, Zenon

\* Where the steps of the first kind lead.
LEMMA PassPlaces ==
    /\ <<"buf_queue", "idle">> \in QB!Passes
    /\ <<"open", "open_wait">> \in QB!Passes
    /\ <<"open", "requeue">> \in QB!Passes
    /\ <<"open_wait", "open_check">> \in QB!Passes
    /\ <<"open_wait", "requeue">> \in QB!Passes
    /\ <<"open_check", "requeue">> \in QB!Passes
    /\ <<"start_wait", "start_check">> \in QB!Passes
    /\ <<"start_wait", "undo_close">> \in QB!Passes
    /\ <<"start_check", "undo_close">> \in QB!Passes
    /\ <<"start_check", "undo_flush">> \in QB!Passes
    /\ <<"capture_loop", "idle">> \in QB!Passes
    /\ <<"undo_close", "requeue">> \in QB!Passes
    /\ <<"undo_close", "undo_wait">> \in QB!Passes
    /\ <<"undo_wait", "requeue">> \in QB!Passes
    /\ <<"undo_flush", "requeue">> \in QB!Passes
    /\ <<"undo_flush", "undo_flush_wait">> \in QB!Passes
    /\ <<"undo_flush_wait", "requeue">> \in QB!Passes
    /\ <<"idle", "stop">> \in QB!Passes
    /\ <<"stop", "stop_off">> \in QB!Passes
    /\ <<"stop", "stop_wait">> \in QB!Passes
    /\ <<"stop", "stop_end">> \in QB!Passes
    /\ <<"stop_wait", "stop_off">> \in QB!Passes
    /\ <<"stop_off", "stop_end">> \in QB!Passes
    /\ <<"stop_off", "close_wait">> \in QB!Passes
    /\ <<"close_wait", "stop_end">> \in QB!Passes
    /\ <<"stop_cleanup", "stop_return">> \in QB!Passes
BY Zenon DEF QB!Passes

\* The steps that move no buffer.
LEMMA MoveSteps ==
    ASSUME Inv, Queues = {TheQueue}, NEW q, q = TheQueue,
           \/ BufQueueWait(q) \/ Open(q) \/ OpenRefused(q) \/ OpenWait(q)
           \/ OpenFailed(q) \/ StartWait(q) \/ StartFailed(q) \/ EnableFails(q)
           \/ CaptureLoopEnd(q) \/ UndoClose(q) \/ UndoWait(q) \/ UndoFlush(q)
           \/ UndoFlushWait(q) \/ StreamOff(q) \/ Stop(q) \/ StopLater(q)
           \/ StopWait(q) \/ StopOff(q) \/ DisableFails(q) \/ CloseWait(q)
           \/ StopCleanup(q)
    PROVE  QB!Pass /\ Shape'
<1>1. /\ BufQueueWait(q) => Moves(q, "buf_queue", "idle")
      /\ Open(q) => Moves(q, "open", "open_wait")
      /\ OpenRefused(q) => Moves(q, "open", "requeue")
      /\ OpenWait(q) => Moves(q, "open_wait", "open_check") \/ Moves(q, "open_wait", "requeue")
  BY Zenon DEF BufQueueWait, Open, OpenRefused, OpenWait, Moves, Kept, Goto, Issue, vb2Vars,
     listVars, streamVars, callVars, isysVars, fwVars, bufVars, hostVars, localVars,
     linkVars
<1>2. /\ OpenFailed(q) => Moves(q, "open_check", "requeue")
      /\ StartWait(q) => Moves(q, "start_wait", "start_check") \/ Moves(q, "start_wait", "undo_close")
      /\ StartFailed(q) => Moves(q, "start_check", "undo_close")
      /\ EnableFails(q) => Moves(q, "start_check", "undo_flush")
  BY Zenon DEF OpenFailed, StartWait, StartFailed, EnableFails, Moves, Kept, Goto, vb2Vars,
     listVars, streamVars, callVars, isysVars, fwVars, bufVars, hostVars, localVars,
     linkVars
<1>3. /\ CaptureLoopEnd(q) => Moves(q, "capture_loop", "idle")
      /\ UndoClose(q) => Moves(q, "undo_close", "requeue") \/ Moves(q, "undo_close", "undo_wait")
      /\ UndoWait(q) => Moves(q, "undo_wait", "requeue")
      /\ UndoFlush(q) => Moves(q, "undo_flush", "requeue") \/ Moves(q, "undo_flush", "undo_flush_wait")
  BY Zenon DEF CaptureLoopEnd, UndoClose, UndoWait, UndoFlush, Moves, Kept, Goto, Issue, vb2Vars,
     listVars, streamVars, callVars, isysVars, fwVars, bufVars, hostVars, localVars,
     linkVars
<1>4. /\ UndoFlushWait(q) => Moves(q, "undo_flush_wait", "requeue")
      /\ StreamOff(q) => Moves(q, "idle", "stop")
      /\ Stop(q) => Moves(q, "stop", "stop_off") \/ Moves(q, "stop", "stop_wait")
      /\ StopLater(q) => Moves(q, "stop", "stop_end")
  BY Zenon DEF UndoFlushWait, StreamOff, Stop, StopLater, Moves, Kept, Goto, Issue, vb2Vars,
     listVars, streamVars, callVars, isysVars, fwVars, bufVars, hostVars, localVars,
     linkVars
<1>5. /\ StopWait(q) => Moves(q, "stop_wait", "stop_off")
      /\ StopOff(q) => Moves(q, "stop_off", "stop_end") \/ Moves(q, "stop_off", "close_wait")
      /\ DisableFails(q) => Moves(q, "stop_off", "stop_end")
      /\ CloseWait(q) => Moves(q, "close_wait", "stop_end")
  BY Zenon DEF StopWait, StopOff, DisableFails, CloseWait, Moves, Kept, Goto, Issue, vb2Vars,
     listVars, streamVars, callVars, isysVars, fwVars, bufVars, hostVars, localVars,
     linkVars
<1>6. /\ StopCleanup(q) => Moves(q, "stop_cleanup", "stop_return")
  BY Zenon DEF StopCleanup, Moves, Kept, Goto, vb2Vars, listVars, callVars, isysVars, fwVars,
     bufVars, localVars, linkVars
<1> QED  BY <1>1, <1>2, <1>3, <1>4, <1>5, <1>6, PassPlaces, MovesPass, Zenon

\* The steps that send a frame.
LEMMA CaptureSteps ==
    ASSUME Inv, Queues = {TheQueue}, NEW q, q = TheQueue,
           Capture(q) \/ Start(q) \/ LoopCapture(q)
    PROVE  QB!Send /\ Shape'
<1>1. /\ Capture(q) => Captures(q, "capture", "idle")
      /\ Start(q) => Captures(q, "start", "undo_close") \/ Captures(q, "start", "start_wait")
      /\ LoopCapture(q) => Captures(q, "loop_capture", "idle") \/ Captures(q, "loop_capture", "capture_loop")
  BY Zenon DEF Capture, Start, LoopCapture, Captures, Kept, Goto, Issue, vb2Vars, listVars,
     streamVars, isysVars, fwVars, bufVars, hostVars
<1> QED  BY <1>1, CapturesSend, Zenon

-----------------------------------------------------------------------------
(* Steps of the thread that move buffers.                                  *)

\* While it starts, the queue is in the stream.
LEMMA InStream ==
    ASSUME Inv, Queues = {TheQueue}, pc[TheQueue] \in {"capture_loop", "requeue"}
    PROVE  queues = {TheQueue}
<1>1. TheQueue \in queues
  BY SMT DEF Inv, QB!Inv, QB!PlaceInv, QB!JoinInv, QB!Starting
<1> QED  BY <1>1, Zenon DEF Inv, Shape

\* A buffer set is made active.
LEMMA LoadSteps ==
    ASSUME Inv, Queues = {TheQueue}, BufQueueCapture(TheQueue) \/ CaptureLoop(TheQueue)
    PROVE  QB!Load /\ Shape'
<1>1. /\ UNCHANGED <<vb, started, queues, streaming, bl, deferred, ref_count, need_reset,
                     send, recv, isr, held>>
      /\ ListReady(queues) /\ incoming' = ListTaken(queues)
      /\ active' = AddHead(active, ListBufs(queues)) /\ frame' = ListBufs(queues)
  BY Zenon DEF BufQueueCapture, CaptureLoop, vb2Vars, streamVars, isysVars, fwVars, linkVars
<1>2. /\ \/ pc[TheQueue] = "buf_queue" /\ pc' = [pc EXCEPT ![TheQueue] = "capture"]
         \/ pc[TheQueue] = "capture_loop" /\ pc' = [pc EXCEPT ![TheQueue] = "loop_capture"]
      /\ queues = {TheQueue}
  BY InStream, Zenon DEF BufQueueCapture, CaptureLoop, Goto
<1> DEFINE x == Last(incoming[TheQueue])
<1>3. /\ incoming[TheQueue] # <<>> /\ DOMAIN incoming' = Queues
      /\ incoming'[TheQueue] = Front(incoming[TheQueue])
      /\ frame' = {x} /\ active' = AddHead(active, {x})
  BY <1>1, <1>2, OneQueue, Zenon
<1>4. DOMAIN active' = Queues /\ active'[TheQueue] = SetToSeq({x}) \o active[TheQueue]
  BY <1>3, Known, AddedOne, Zenon
<1> HIDE DEF x
<1>5. Shape'
  BY <1>1, <1>2, <1>3, <1>4, Zenon DEF Inv, Shape
<1>6. <<pc[TheQueue], pc'[TheQueue]>> \in
         {<<"buf_queue", "capture">>, <<"capture_loop", "loop_capture">>}
  BY <1>2, Zenon DEF Inv, Shape
<1>7. QB!Load
  BY <1>1, <1>2, <1>3, <1>4, <1>6, SameLists, Zenon DEF x, QB!Load, QB!streamVars, QB!isysVars,
     QB!linkVars
<1> QED  BY <1>5, <1>7, Zenon

\* The oldest incoming buffer is dropped, and the start perhaps given up.
LEMMA DropSteps ==
    ASSUME Inv, Queues = {TheQueue}, BufQueueNoMsg(TheQueue) \/ CaptureLoopNoMsg(TheQueue)
    PROVE  QB!Drop /\ Shape'
<1>1. /\ UNCHANGED <<vb, started, active, streaming, bl, frame, deferred, ref_count,
                     need_reset, send, recv, isr, held>>
      /\ incoming' = ListTaken(queues) /\ ListReady(queues)
  BY Zenon DEF BufQueueNoMsg, CaptureLoopNoMsg, ListDropped, streamVars, callVars,
     isysVars, fwVars, localVars, linkVars
<1>2. /\ \/ /\ pc[TheQueue] = "buf_queue" /\ pc' = [pc EXCEPT ![TheQueue] = "idle"]
            /\ queues' = queues
         \/ /\ pc[TheQueue] = "capture_loop" /\ pc' = [pc EXCEPT ![TheQueue] = "unwind"]
            /\ queues' = queues \ {TheQueue}
      /\ queues = {TheQueue}
  BY InStream, Zenon DEF Inv, Shape, BufQueueNoMsg, CaptureLoopNoMsg, LeaveStart, Goto,
     streamVars
<1>3. /\ incoming[TheQueue] # <<>> /\ DOMAIN incoming' = Queues
      /\ incoming'[TheQueue] = Front(incoming[TheQueue])
  BY <1>1, <1>2, OneQueue, Zenon
<1>4. ASSUME queues' = queues \ {TheQueue} PROVE (TheQueue \in queues') = FALSE
  BY <1>4, SMT
<1>5. /\ \/ /\ pc[TheQueue] = "buf_queue" /\ pc'[TheQueue] = "idle"
            /\ (TheQueue \in queues') = (TheQueue \in queues)
         \/ /\ pc[TheQueue] = "capture_loop" /\ pc'[TheQueue] = "unwind"
            /\ (TheQueue \in queues') = FALSE
      /\ DOMAIN pc' = Queues /\ queues' \subseteq Queues
  BY <1>2, <1>4, Zenon DEF Inv, Shape
<1>6. Shape'
  BY <1>1, <1>3, <1>5, Zenon DEF Inv, Shape
<1>7. QB!Drop
  BY <1>1, <1>3, <1>5, SameLists, Zenon DEF QB!Drop, QB!callVars, QB!isysVars, QB!linkVars
<1> QED  BY <1>6, <1>7, Zenon

\* start_streaming takes the first buffer set, as videobuf2 gave it some.
LEMMA StartStreamingStep ==
    ASSUME Inv, Queues = {TheQueue}, StartStreaming(TheQueue)
    PROVE  QB!StartStreaming /\ Shape'
<1>1. /\ UNCHANGED <<vb, started, active, streaming, frame, ref_count, need_reset, send,
                     recv, isr, held>>
      /\ pc[TheQueue] = "start_streaming" /\ queues' = {TheQueue}
  BY Zenon DEF Inv, Shape, StartStreaming, vb2Vars, isysVars, fwVars, linkVars
<1>2. incoming[TheQueue] # <<>>
  BY <1>1, SMT DEF Inv, QB!Inv, QB!PlaceInv, QB!ListInv
<1>3. /\ incoming' = ListTaken({TheQueue}) /\ bl' = {Last(incoming[TheQueue])}
      /\ deferred' = FALSE /\ pc' = [pc EXCEPT ![TheQueue] = "open"]
  BY <1>1, <1>2, OneQueue, Zenon DEF StartStreaming, Goto
<1>4. /\ DOMAIN incoming' = Queues /\ incoming'[TheQueue] = Front(incoming[TheQueue])
      /\ DOMAIN pc' = Queues /\ pc'[TheQueue] = "open"
      /\ (TheQueue \in queues') = TRUE
  BY <1>1, <1>3, OneQueue, Zenon DEF Inv, Shape
<1>5. Shape'
  BY <1>1, <1>3, <1>4, Zenon DEF Inv, Shape
<1>6. QB!StartStreaming
  BY <1>1, <1>2, <1>3, <1>4, SameLists, Zenon DEF QB!StartStreaming, QB!isysVars, QB!linkVars
<1> QED  BY <1>5, <1>6, Zenon

\* start_stream_firmware puts it on the active list once the stream is open.
LEMMA OpenCompleteStep ==
    ASSUME Inv, Queues = {TheQueue}, OpenComplete(TheQueue)
    PROVE  QB!OpenComplete /\ Shape'
<1>1. /\ UNCHANGED <<vb, started, incoming, queues, streaming, deferred, ref_count,
                     need_reset, send, recv, isr, held>>
      /\ pc[TheQueue] = "open_check" /\ pc'[TheQueue] = "start" /\ DOMAIN pc' = Queues
      /\ active' = AddHead(active, bl) /\ frame' = bl /\ bl' = {}
  BY Zenon DEF Inv, Shape, OpenComplete, Goto, vb2Vars, streamVars, isysVars, fwVars, linkVars
<1>2. DOMAIN active' = Queues /\ active'[TheQueue] = SetToSeq(bl) \o active[TheQueue]
  BY <1>1, Known, AddedOne, Zenon
<1>3. Shape'
  BY <1>1, <1>2, Zenon DEF Inv, Shape
<1>4. QB!OpenComplete
  BY <1>1, <1>2, SameLists, Zenon DEF QB!OpenComplete, QB!streamVars, QB!isysVars, QB!linkVars
<1> QED  BY <1>3, <1>4, Zenon

\* The stream is started, or stopped.
LEMMA StreamingSteps ==
    ASSUME Inv, Queues = {TheQueue}, Started(TheQueue) \/ StopEnd(TheQueue)
    PROVE  (QB!Started \/ QB!StopEnd) /\ Shape'
<1>1. /\ UNCHANGED <<vb, started, incoming, active, bl, frame, deferred, ref_count,
                     need_reset, send, recv, isr, held>>
      /\ DOMAIN pc' = Queues
      /\ \/ /\ pc[TheQueue] = "start_check" /\ pc'[TheQueue] = "capture_loop"
            /\ queues' = queues /\ streaming' = TRUE
         \/ /\ pc[TheQueue] = "stop_end" /\ pc'[TheQueue] = "stop_cleanup"
            /\ queues' = queues \ {TheQueue} /\ streaming' = FALSE
  BY Zenon DEF Inv, Shape, Started, StopEnd, Goto, bufVars, vb2Vars, listVars, callVars,
     isysVars, fwVars, localVars, linkVars
<1>2. Shape'
  BY <1>1, Zenon DEF Inv, Shape
<1>3. ASSUME queues' = queues \ {TheQueue} PROVE (TheQueue \in queues') = FALSE
  BY <1>3, SMT
<1>4. QB!Started \/ QB!StopEnd
  BY <1>1, <1>3, Zenon DEF QB!Started, QB!StopEnd, QB!listVars, QB!callVars, QB!isysVars, QB!linkVars
<1> QED  BY <1>2, <1>4, Zenon

\* out_requeue: the driver keeps or returns what the firmware may still have.
LEMMA RequeueStep ==
    ASSUME Inv, Queues = {TheQueue}, Requeue(TheQueue)
    PROVE  QB!Requeue /\ Shape'
<1> DEFINE q == TheQueue
<1>1. /\ UNCHANGED <<started, streaming, frame, deferred, ref_count, need_reset, send, recv,
                     isr, held>>
      /\ pc[q] = "requeue" /\ bl' = {} /\ LeaveStart(q)
  BY Zenon DEF Requeue, isysVars, fwVars, linkVars
<1>2. ~deferred /\ queues = {q}
  BY <1>1, InStream, SMT DEF Inv, Shape
<1>3. pc'[q] = "unwind" /\ DOMAIN pc' = Queues /\ queues' = queues \ {q}
  BY <1>1, <1>2, Zenon DEF Inv, Shape, LeaveStart, Goto
<1> DEFINE back == UNION {ToSet(active[p]) : p \in {r \in queues : ~avstreaming[r]}}
           kept == IF avstreaming[q] THEN TRUE ELSE FALSE
<1>4. back = IF kept THEN {} ELSE ToSet(active[q])
  BY <1>2, SMT
<1>5. vb' = [b \in Buffers |-> IF b \in back /\ vb[b] = "active" THEN "queued" ELSE vb[b]]
  <2>1. vb' = [b \in Buffers |-> CASE vb[b] = "active" /\ b \in {} -> "error"
                                   [] vb[b] = "active" /\ b \in back -> "queued"
                                   [] OTHER -> vb[b]]
    BY <1>2, Zenon DEF Requeue
  <2> HIDE DEF back
  <2> QED  BY <2>1, SMT
<1>6. /\ DOMAIN incoming' = Queues /\ DOMAIN active' = Queues /\ active'[q] = <<>>
      /\ incoming'[q] = (IF kept THEN Reverse(active[q]) ELSE <<>>) \o AddTail(incoming, bl)[q]
  BY <1>2, Zenon DEF Requeue
<1> HIDE DEF back, kept
<1>7. AddTail(incoming, bl)[q] = incoming[q] \o SetToSeq(bl)
  BY Known, AddedOne, Zenon
<1>8. Shape'
  BY <1>1, <1>3, <1>6, Zenon DEF Inv, Shape
<1>9. kept \in BOOLEAN
  BY Zenon DEF kept
<1>10. QB!Done(IF kept THEN {} ELSE QB!ToSet(active[q]), "queued")
  BY <1>4, <1>5, SameLists, Zenon DEF QB!Done
<1>11. incoming'[q] = (IF kept THEN QB!Reverse(active[q]) ELSE <<>>)
                      \o (incoming[q] \o QB!SetToSeq(bl))
  BY <1>6, <1>7, SameLists, Zenon
<1>12. (q \in queues') = FALSE
  BY <1>3, SMT
<1>13. QB!Requeue
  BY <1>1, <1>3, <1>6, <1>9, <1>10, <1>11, <1>12, Zenon DEF QB!Requeue, QB!isysVars, QB!linkVars
<1> QED  BY <1>8, <1>13, Zenon

\* The firmware is opened and closed as there.
LEMMA FwRefs ==
    ASSUME Inv
    PROVE  /\ FwGet => QB!FwGet /\ IsList(send') /\ IsList(recv')
           /\ FwPut => QB!FwPut /\ IsList(send') /\ IsList(recv')
<1>1. Bufs(<<>>) = <<>> /\ IsList(<<>>)
  <2>1. <<>> \in Seq({})
    OBVIOUS
  <2>2. Bufs(<<>>) = <<>>
    BY DEF Bufs
  <2> QED  BY <2>1, <2>2, Zenon DEF IsList
<1>2. IsList(send) /\ IsList(recv)
  BY Zenon DEF Inv, Shape
<1>3. ASSUME FwGet PROVE QB!FwGet /\ IsList(send') /\ IsList(recv')
  BY <1>1, <1>2, <1>3, Zenon DEF FwGet, QB!FwGet, fwVars
<1>4. ASSUME FwPut PROVE QB!FwPut /\ IsList(send') /\ IsList(recv')
  BY <1>1, <1>2, <1>4, Zenon DEF FwPut, QB!FwPut, fwVars
<1> QED  BY <1>3, <1>4, Zenon

\* ipu6_isys_fw_get, and ipu6_isys_fw_put after a failed start.
LEMMA RefSteps ==
    ASSUME Inv, Queues = {TheQueue}, Setup(TheQueue) \/ Unwind(TheQueue)
    PROVE  (QB!Setup \/ QB!Unwind) /\ Shape'
<1>1. /\ UNCHANGED <<vb, started, incoming, active, queues, streaming, bl, frame, deferred, isr>>
      /\ DOMAIN pc' = Queues
      /\ \/ /\ pc[TheQueue] = "setup" /\ pc'[TheQueue] = "start_streaming" /\ FwGet
            /\ need_reset' = need_reset
         \/ pc[TheQueue] = "unwind" /\ pc'[TheQueue] = "unwind_return" /\ FwPut
  BY Zenon DEF Inv, Shape, Setup, Unwind, Goto, bufVars, vb2Vars, listVars, callVars
<1>2. Shape'
  BY <1>1, FwRefs, Zenon DEF Inv, Shape
<1>3. QB!Setup \/ QB!Unwind
  BY <1>1, FwRefs, Zenon DEF QB!Setup, QB!Unwind, QB!listVars, QB!streamVars, QB!callVars
<1> QED  BY <1>2, <1>3, Zenon

\* The buffers are returned when a start fails, ...
LEMMA FailSteps ==
    ASSUME Inv, Queues = {TheQueue}, SetupFails(TheQueue) \/ UnwindReturn(TheQueue)
    PROVE  (QB!SetupFails \/ QB!UnwindReturn) /\ Shape'
<1>1. /\ UNCHANGED <<queues, streaming, bl, frame, deferred, ref_count, send, recv, isr, held>>
      /\ DOMAIN pc' = Queues /\ pc'[TheQueue] = "idle"
      /\ DOMAIN started' = Queues /\ started'[TheQueue] = FALSE
      /\ DOMAIN incoming' = Queues /\ incoming'[TheQueue] = <<>>
      /\ DOMAIN active' = Queues /\ active'[TheQueue] = <<>>
      /\ need_reset' = (need_reset \/ active[TheQueue] # <<>>)
  BY Zenon DEF Inv, Shape, SetupFails, UnwindReturn, ReturnBuffers, Goto, streamVars, callVars,
     fwVars, linkVars
<1>2. \/ /\ pc[TheQueue] = "setup"
         /\ QB!Done(QB!ToSet(incoming[TheQueue]) \cup QB!ToSet(active[TheQueue]), "queued")
      \/ pc[TheQueue] = "unwind_return" /\ QB!Done(Buffers, "queued")
  BY OneQueue, SameLists, Zenon DEF SetupFails, UnwindReturn, ReturnBuffers, Done, QB!Done
<1>3. Shape'
  BY <1>1, Zenon DEF Inv, Shape
<1>4. QB!SetupFails \/ QB!UnwindReturn
  BY <1>1, <1>2, Zenon DEF QB!SetupFails, QB!UnwindReturn, QB!ReturnBuffers, QB!streamVars,
     QB!callVars, QB!linkVars
<1> QED  BY <1>3, <1>4, Zenon

\* ... and by stop_streaming, after which videobuf2 has them all.
LEMMA StopSteps ==
    ASSUME Inv, Queues = {TheQueue}, StopReturn(TheQueue) \/ StopPut(TheQueue)
    PROVE  (QB!StopReturn \/ QB!StopPut) /\ Shape'
<1>1. CASE StopReturn(TheQueue)
  <2>1. /\ UNCHANGED <<started, queues, streaming, bl, frame, deferred, ref_count, send, recv,
                       isr, held>>
        /\ DOMAIN pc' = Queues /\ pc[TheQueue] = "stop_return" /\ pc'[TheQueue] = "stop_put"
        /\ DOMAIN incoming' = Queues /\ incoming'[TheQueue] = <<>>
        /\ DOMAIN active' = Queues /\ active'[TheQueue] = <<>>
        /\ need_reset' = (need_reset \/ active[TheQueue] # <<>>)
    BY <1>1, Zenon DEF Inv, Shape, StopReturn, ReturnBuffers, Goto, streamVars, callVars,
       fwVars, linkVars
  <2>2. QB!Done(QB!ToSet(incoming[TheQueue]) \cup QB!ToSet(active[TheQueue]), "error")
    BY <1>1, SameLists, Zenon DEF StopReturn, ReturnBuffers, Done, QB!Done
  <2>3. Shape'
    BY <2>1, Zenon DEF Inv, Shape
  <2>4. QB!StopReturn
    BY <2>1, <2>2, Zenon DEF QB!StopReturn, QB!ReturnBuffers, QB!streamVars, QB!callVars,
       QB!linkVars
  <2> QED  BY <2>3, <2>4, Zenon
<1>2. CASE StopPut(TheQueue)
  <2>1. /\ UNCHANGED <<incoming, active, queues, streaming, bl, frame, deferred, isr>>
        /\ DOMAIN pc' = Queues /\ pc[TheQueue] = "stop_put" /\ pc'[TheQueue] = "idle"
        /\ DOMAIN started' = Queues /\ started'[TheQueue] = FALSE /\ FwPut
    BY <1>2, Zenon DEF Inv, Shape, StopPut, Goto, listVars, streamVars, callVars
  <2>2. vb' = [b \in Buffers |-> "dequeued"]
    BY <1>2, OneQueue, Zenon DEF StopPut
  <2>3. Shape'
    BY <2>1, FwRefs, Zenon DEF Inv, Shape
  <2>4. QB!StopPut
    BY <2>1, <2>2, FwRefs, Zenon DEF QB!StopPut, QB!listVars, QB!streamVars, QB!callVars
  <2> QED  BY <2>3, <2>4, Zenon
<1> QED  BY <1>1, <1>2, Zenon

-----------------------------------------------------------------------------
(* The user.                                                               *)

\* A deferred start needs a second queue.
LEMMA NoDeferredStart ==
    ASSUME Inv, Queues = {TheQueue}
    PROVE  ~BufQueueStart(TheQueue)
<1>1. (TheQueue \in queues) => streaming \/ pc[TheQueue] # "buf_queue"
  BY SMT DEF Inv, QB!Inv, QB!PlaceInv, QB!JoinInv, QB!Starting, QB!Opening
<1> QED  BY <1>1, Zenon DEF BufQueueStart

\* Buffers that videobuf2 keeps.
LEMMA EarlySteps ==
    ASSUME Inv, Queues = {TheQueue}, NEW b \in Buffers, QBufEarly(b) \/ DQBuf(b)
    PROVE  (QB!QBufEarly(b) \/ QB!DQBuf(b)) /\ Shape'
<1>1. QueueOf[b] = TheQueue
  BY OneQueue, Zenon
<1>2. /\ UNCHANGED <<started, pc, incoming, active, queues, streaming, bl, frame, deferred,
                     ref_count, need_reset, send, recv, isr, held>>
      /\ pc[TheQueue] = "idle"
      /\ \/ /\ vb[b] = "dequeued" /\ ~started[TheQueue]
            /\ vb' = [vb EXCEPT ![b] = "queued"]
         \/ vb[b] \in {"done", "error"} /\ vb' = [vb EXCEPT ![b] = "dequeued"]
  BY <1>1, Zenon DEF QBufEarly, DQBuf, listVars, streamVars, callVars, isysVars, fwVars,
     localVars, linkVars
<1>3. Shape'
  BY <1>2, Zenon DEF Inv, Shape
<1>4. QB!QBufEarly(b) \/ QB!DQBuf(b)
  BY <1>2, Zenon DEF QB!QBufEarly, QB!DQBuf, QB!listVars, QB!streamVars, QB!callVars,
     QB!isysVars, QB!linkVars
<1> QED  BY <1>3, <1>4, Zenon

\* A buffer that it gives to buf_queue.
LEMMA QBufStep ==
    ASSUME Inv, Queues = {TheQueue}, NEW b \in Buffers, QBuf(b)
    PROVE  QB!QBuf(b) /\ Shape'
<1>1. QueueOf[b] = TheQueue
  BY OneQueue, Zenon
<1>2. /\ UNCHANGED <<started, active, queues, streaming, bl, frame, deferred,
                     ref_count, need_reset, send, recv, isr, held>>
      /\ pc[TheQueue] = "idle" /\ vb[b] = "dequeued" /\ started[TheQueue]
      /\ vb' = [vb EXCEPT ![b] = "active"] /\ incoming' = AddHead(incoming, {b})
      /\ DOMAIN pc' = Queues /\ pc'[TheQueue] = "buf_queue"
  BY <1>1, Zenon DEF Inv, Shape, QBuf, Goto, streamVars, callVars, isysVars, fwVars, localVars,
     linkVars
<1>3. /\ DOMAIN incoming' = Queues
      /\ incoming'[TheQueue] = SetToSeq({b}) \o incoming[TheQueue]
  <2>1. {b} \in SUBSET Buffers
    BY Zenon
  <2> QED  BY <1>2, <2>1, AddedOne, Zenon
<1>4. Shape'
  BY <1>2, <1>3, Zenon DEF Inv, Shape
<1>5. QB!QBuf(b)
  BY <1>2, <1>3, SameLists, Zenon DEF QB!QBuf, QB!streamVars, QB!callVars, QB!isysVars,
     QB!linkVars
<1> QED  BY <1>4, <1>5, Zenon

\* All that it has at STREAMON.
LEMMA StreamOnStep ==
    ASSUME Inv, Queues = {TheQueue}, StreamOn(TheQueue)
    PROVE  QB!StreamOn /\ Shape'
<1> DEFINE given == {b \in Buffers : vb[b] = "queued"}
<1>1. {b \in Of(TheQueue) : vb[b] = "queued"} = given
  BY OneQueue, Zenon
<1> HIDE DEF given
<1>2. /\ UNCHANGED <<active, queues, streaming, bl, frame, deferred, ref_count, need_reset,
                     send, recv, isr, held>>
      /\ pc[TheQueue] = "idle" /\ ~started[TheQueue] /\ given # {}
      /\ vb' = [b \in Buffers |-> IF b \in given THEN "active" ELSE vb[b]]
      /\ DOMAIN pc' = Queues /\ pc'[TheQueue] = "setup"
      /\ DOMAIN started' = Queues /\ started'[TheQueue] = TRUE
  BY <1>1, Zenon DEF Inv, Shape, StreamOn, Goto, streamVars, callVars, isysVars, fwVars,
     localVars, linkVars
<1>3. PICK s \in SetToSeqs(given) :
        incoming' = [incoming EXCEPT ![TheQueue] = Reverse(s) \o @]
  BY <1>1, Zenon DEF StreamOn
<1>4. DOMAIN incoming' = Queues /\ incoming'[TheQueue] = Reverse(s) \o incoming[TheQueue]
  BY <1>3, Zenon DEF Inv, Shape
<1>5. Shape'
  BY <1>2, <1>4, Zenon DEF Inv, Shape
<1>6. \E t \in QB!SetToSeqs(given) : incoming'[TheQueue] = QB!Reverse(t) \o incoming[TheQueue]
  BY <1>4, SameLists, Zenon
<1>7. QB!StreamOn
  BY <1>2, <1>6, Zenon DEF given, QB!StreamOn, QB!streamVars, QB!callVars, QB!isysVars,
     QB!linkVars
<1> QED  BY <1>5, <1>7, Zenon

\* All that it gives up when streaming has not begun.
LEMMA StreamOffEarlyStep ==
    ASSUME Inv, Queues = {TheQueue}, StreamOffEarly(TheQueue)
    PROVE  QB!StreamOffEarly /\ Shape'
<1>1. /\ UNCHANGED <<started, pc, incoming, active, queues, streaming, bl, frame, deferred,
                     ref_count, need_reset, send, recv, isr, held>>
      /\ pc[TheQueue] = "idle" /\ ~started[TheQueue]
  BY Zenon DEF StreamOffEarly, listVars, streamVars, callVars, isysVars, fwVars, localVars,
     linkVars
<1>2. vb' = [b \in Buffers |-> "dequeued"]
  BY OneQueue, Zenon DEF StreamOffEarly
<1>3. Shape'
  BY <1>1, Zenon DEF Inv, Shape
<1>4. QB!StreamOffEarly
  BY <1>1, <1>2, Zenon DEF QB!StreamOffEarly, QB!listVars, QB!streamVars, QB!callVars,
     QB!isysVars, QB!linkVars
<1> QED  BY <1>3, <1>4, Zenon

-----------------------------------------------------------------------------
(* The interrupt handler and the firmware.                                 *)

\* What the driver has while the other side works.
Driver == <<vb, pc, started, queues, incoming, streaming, bl, frame, deferred, ref_count,
            need_reset>>

\* A response without a buffer to complete.
LEMMA DropsStep ==
    ASSUME Inv, recv # <<>>, isr = {}, recv' = Tail(recv),
           UNCHANGED <<Driver, active, send, isr, held>>
    PROVE  QB!IsrDrop /\ Shape'
<1>1. IsList(recv') /\ Bufs(recv') = Tail(Bufs(recv)) /\ Bufs(recv) # <<>>
  BY BufsOf, Known, Zenon DEF Inv, Shape
<1>2. Shape'
  BY <1>1, Zenon DEF Inv, Shape, Driver
<1>3. QB!IsrDrop
  BY <1>1, Zenon DEF QB!IsrDrop, Driver, QB!listVars, QB!streamVars, QB!callVars, QB!isysVars
<1> QED  BY <1>2, <1>3, Zenon

\* isys_isr_one
LEMMA IsrStep ==
    ASSUME Inv, Queues = {TheQueue}, Isr
    PROVE  QB!Isr /\ Shape'
<1>1. CASE IsrUnused \/ IsrAck
  <2>1. /\ recv # <<>> /\ isr = {} /\ recv' = Tail(recv)
        /\ UNCHANGED <<Driver, active, send, isr, held>>
    BY <1>1, Zenon DEF IsrUnused, IsrAck, Driver, hostVars, bufVars, vb2Vars, listVars,
       streamVars, callVars, isysVars, fwVars, localVars
  <2> QED  BY <2>1, DropsStep, Zenon DEF QB!Isr
<1>2. CASE IsrPinReady
  <2>1. recv # <<>> /\ isr = {} /\ UNCHANGED <<Driver, send, held>>
    BY <1>2, Zenon DEF IsrPinReady, Driver, vb2Vars, callVars, isysVars, fwVars, localVars
  <2>2. PICK b \in Head(recv).bufs :
          \/ \E i \in Found(active[QueueOf[b]], b) :
                /\ active' = [active EXCEPT ![QueueOf[b]] = RemoveAt(@, i)]
                /\ isr' = {b} /\ UNCHANGED recv
          \/ recv' = Tail(recv) /\ UNCHANGED <<active, isr>>
    BY <1>2, Zenon DEF IsrPinReady
  <2>3. CASE recv' = Tail(recv) /\ UNCHANGED <<active, isr>>
    BY <2>1, <2>3, DropsStep, Zenon DEF QB!Isr
  <2>4. ASSUME NEW i \in Found(active[QueueOf[b]], b),
               active' = [active EXCEPT ![QueueOf[b]] = RemoveAt(@, i)],
               isr' = {b}, UNCHANGED recv
        PROVE  QB!Isr /\ Shape'
    <3>1. Bufs(recv) # <<>> /\ Head(Bufs(recv)) = Head(recv).bufs /\ Bufs(recv) \in QB!Sets
      BY <2>1, BufsOf, Known, Zenon DEF Inv, Shape
    <3>2. Head(Bufs(recv)) \subseteq Buffers
      BY <3>1, SMT DEF QB!Sets
    <3>3. QueueOf[b] = TheQueue
      BY <3>1, <3>2, OneQueue, Zenon
    <3>4. i \in DOMAIN active[TheQueue] /\ active[TheQueue][i] = b
      BY <3>3, Zenon DEF Found
    <3>5. DOMAIN active' = Queues /\ active'[TheQueue] = RemoveAt(active[TheQueue], i)
      BY <2>4, <3>3, Zenon DEF Inv, Shape
    <3>6. Shape'
      BY <2>1, <2>4, <3>5, Zenon DEF Inv, Shape, Driver
    <3>7. QB!IsrPinReady
      BY <2>1, <2>4, <3>1, <3>4, <3>5, SameLists, Zenon DEF QB!IsrPinReady, Driver,
         QB!streamVars, QB!callVars, QB!isysVars
    <3> QED  BY <3>6, <3>7, Zenon DEF QB!Isr
  <2> QED  BY <2>2, <2>3, <2>4, Zenon
<1>3. CASE IsrBufDone
  <2>1. /\ UNCHANGED <<pc, started, queues, incoming, streaming, bl, frame, deferred,
                       ref_count, need_reset, active, send, held>>
        /\ isr # {} /\ isr' = {} /\ recv' = Tail(recv)
    BY <1>3, Zenon DEF IsrBufDone, listVars, callVars, isysVars, fwVars, localVars
  <2>2. \E state \in {"done", "error"} : QB!Done(isr, state)
    BY <1>3, Zenon DEF IsrBufDone, Done, QB!Done
  <2>3. Bufs(recv) # <<>>
    BY <2>1, Zenon DEF Inv, QB!Inv, QB!PlaceInv, QB!RefInv
  <2>4. recv # <<>>
    BY <2>3, SMT DEF Bufs
  <2>5. IsList(recv') /\ Bufs(recv') = Tail(Bufs(recv))
    BY <2>1, <2>4, BufsOf, Known, Zenon DEF Inv, Shape
  <2>6. Shape'
    BY <2>1, <2>5, Zenon DEF Inv, Shape
  <2>7. QB!IsrBufDone
    BY <2>1, <2>2, <2>5, Zenon DEF QB!IsrBufDone, QB!listVars, QB!streamVars, QB!callVars,
       QB!isysVars
  <2> QED  BY <2>6, <2>7, Zenon DEF QB!Isr
<1> QED  BY <1>1, <1>2, <1>3, Zenon DEF Isr

\* The firmware answers a command.
LEMMA FwCommandStep ==
    ASSUME Inv, FwCommand
    PROVE  QB!FwCommand /\ Shape'
<1>1. send # <<>> /\ send' = Tail(send) /\ UNCHANGED <<Driver, active, isr>>
  BY Zenon DEF FwCommand, Driver, hostVars, bufVars, vb2Vars, listVars, streamVars, callVars,
     isysVars, localVars
<1>2. /\ held' \in {<<>>, held, Append(held, Head(send).bufs)}
      /\ \E r : recv' = Append(recv, r) /\ r.bufs = {}
  <2>1. PICK e : /\ recv' = Append(recv, Response(AckOf[Head(send).cmd], {},
                              IF Head(send).cmd = "OPEN" THEN {} ELSE Head(send).msg, e))
                 /\ held' = CASE Head(send).cmd \in {"FLUSH", "CLOSE"} -> <<>>
                              [] Head(send).bufs # {} /\ ~e -> Append(held, Head(send).bufs)
                              [] OTHER -> held
    BY Zenon DEF FwCommand
  <2>2. held' \in {<<>>, held, Append(held, Head(send).bufs)}
    BY <2>1, SMT
  <2>3. \A t, m : Response(t, {}, m, e).bufs = {}
    BY SMT DEF Response
  <2> QED  BY <2>1, <2>2, <2>3, Zenon
<1>3. /\ IsList(send') /\ Bufs(send') = Tail(Bufs(send)) /\ Bufs(send) # <<>>
      /\ Head(Bufs(send)) = Head(send).bufs
  BY <1>1, BufsOf, Known, Zenon DEF Inv, Shape
<1>4. IsList(recv') /\ Bufs(recv') = Append(Bufs(recv), {})
  <2>1. PICK r : recv' = Append(recv, r) /\ r.bufs = {}
    BY <1>2, Zenon
  <2>2. IsList(Append(recv, r)) /\ Bufs(Append(recv, r)) = Append(Bufs(recv), r.bufs)
    BY BufsOf, Known, Zenon DEF Inv, Shape
  <2> QED  BY <2>1, <2>2, Zenon
<1>5. Shape'
  BY <1>1, <1>3, <1>4, Zenon DEF Inv, Shape, Driver
<1>6. QB!FwCommand
  BY <1>1, <1>2, <1>3, <1>4, Zenon DEF QB!FwCommand, Driver, QB!listVars, QB!streamVars,
     QB!callVars, QB!isysVars
<1> QED  BY <1>5, <1>6, Zenon

\* A set of buffers is made into a list of buffers.
Listable == \A S \in SUBSET Buffers : SetToSeq(S) \in Seq(Buffers)

\* It delivers a frame.
LEMMA FwFrameStep ==
    ASSUME Inv, Listable, FwFrame
    PROVE  QB!FwFrame /\ Shape'
<1>1. held # <<>> /\ held' = Tail(held) /\ UNCHANGED <<Driver, active, send, isr>>
  BY Zenon DEF FwFrame, Driver, hostVars, bufVars, vb2Vars, listVars, streamVars, callVars,
     isysVars, localVars
<1> DEFINE s == SetToSeq(Head(held))
<1> HIDE DEF s
<1>2. PICK e : recv' = recv \o [i \in DOMAIN s |-> Response("PIN_DATA_READY", {s[i]}, {}, e)]
  BY Zenon DEF FwFrame, s
<1> DEFINE t == [i \in DOMAIN s |-> Response("PIN_DATA_READY", {s[i]}, {}, e)]
           u == [i \in DOMAIN s |-> {s[i]}]
<1>3. Bufs(t) = u
  <2>1. \A x : Response("PIN_DATA_READY", {x}, {}, e).bufs = {x}
    BY SMT DEF Response
  <2> QED  BY <2>1, Zenon DEF Bufs
<1>4. s = QB!SetToSeq(Head(held)) /\ s \in Seq(Buffers)
  <2>1. Head(held) \in SUBSET Buffers
    <3>1. held \in QB!Sets
      BY Known, Zenon
    <3> QED  BY <1>1, <3>1, SMT DEF QB!Sets
  <2> QED  BY <2>1, SameLists, Zenon DEF s, Listable
<1>5. u \in QB!Sets
  BY <1>4, SMT DEF QB!Sets
<1>6. IsList(t)
  <2>1. DOMAIN s = 1..Len(s) /\ Len(s) \in Nat
    BY <1>4, SMT
  <2>2. t = [i \in 1..Len(s) |-> t[i]]
    BY <2>1, Zenon
  <2>3. ASSUME NEW f, NEW n \in Nat, f = [i \in 1..n |-> f[i]]
        PROVE  f \in Seq({f[i] : i \in 1..n})
    BY <2>3, SMT
  <2> HIDE DEF t
  <2>4. t \in Seq({t[i] : i \in 1..Len(s)})
    BY <2>1, <2>2, <2>3, Zenon
  <2> QED  BY <2>4, Zenon DEF IsList
<1> HIDE DEF t, u
<1>7. IsList(recv') /\ Bufs(recv') = Bufs(recv) \o u
  <2>1. recv' = recv \o t
    BY <1>2, Zenon DEF t
  <2> QED  BY <1>3, <1>5, <1>6, <2>1, BufsJoined, Known, Zenon DEF Inv, Shape
<1>8. Shape'
  BY <1>1, <1>7, Zenon DEF Inv, Shape, Driver
<1>9. QB!FwFrame
  BY <1>1, <1>4, <1>7, Zenon DEF u, QB!FwFrame, Driver, QB!listVars, QB!streamVars,
     QB!callVars, QB!isysVars
<1> QED  BY <1>8, <1>9, Zenon

-----------------------------------------------------------------------------
(* The refinement, and what follows from it.                               *)

\* Every initial state is one there.
LEMMA InitMaps ==
    ASSUME Init, Queues = {TheQueue}
    PROVE  QB!Init /\ Shape
<1>1. Bufs(<<>>) = <<>> /\ IsList(<<>>)
  <2>1. <<>> \in Seq({})
    OBVIOUS
  <2>2. Bufs(<<>>) = <<>>
    BY DEF Bufs
  <2> QED  BY <2>1, <2>2, Zenon DEF IsList
<1>2. TheQueue \in Queues
  BY Zenon
<1>3. Shape
  BY <1>1, Zenon DEF Init, Shape
<1>4. started[TheQueue] = FALSE /\ (TheQueue \in queues) = FALSE
  <2>1. queues = {}
    BY Zenon DEF Init
  <2>2. (TheQueue \in queues) = FALSE
    BY <2>1, SMT
  <2> QED  BY <1>2, <2>2, Zenon DEF Init
<1>5. QB!Init
  BY <1>1, <1>2, <1>4, Zenon DEF Init, QB!Init
<1> QED  BY <1>3, <1>5, Zenon

\* Every step is one there, or changes nothing there.
LEMMA StepMaps ==
    ASSUME Inv, Queues = {TheQueue}, Listable, [Next]_vars
    PROVE  [QB!Next]_(QB!vars) /\ Shape'
<1> DEFINE q == TheQueue
<1>1. CASE User
  <2>1. CASE \E b \in Buffers : QBufEarly(b) \/ QBuf(b) \/ DQBuf(b)
    BY <2>1, EarlySteps, QBufStep, Zenon DEF QB!Next, QB!User
  <2>2. CASE StreamOn(q) \/ StreamOffEarly(q)
    BY <2>2, StreamOnStep, StreamOffEarlyStep, Zenon DEF QB!Next, QB!User
  <2>3. CASE StreamOff(q)
    BY <2>3, MoveSteps, Zenon DEF QB!Next, QB!Thread
  <2> QED  BY <1>1, <2>1, <2>2, <2>3, Zenon DEF User
<1>2. CASE Thread(q)
  <2>1. CASE \/ BufQueueWait(q) \/ Open(q) \/ OpenRefused(q) \/ OpenWait(q) \/ OpenFailed(q)
             \/ StartWait(q) \/ StartFailed(q) \/ EnableFails(q) \/ CaptureLoopEnd(q)
             \/ UndoClose(q) \/ UndoWait(q) \/ UndoFlush(q) \/ UndoFlushWait(q)
             \/ Stop(q) \/ StopLater(q) \/ StopWait(q) \/ StopOff(q) \/ DisableFails(q)
             \/ CloseWait(q) \/ StopCleanup(q)
    BY <2>1, MoveSteps, Zenon DEF QB!Next, QB!Thread
  <2>2. CASE Capture(q) \/ Start(q) \/ LoopCapture(q)
    BY <2>2, CaptureSteps, Zenon DEF QB!Next, QB!Thread
  <2>3. CASE \/ BufQueueCapture(q) \/ CaptureLoop(q) \/ BufQueueNoMsg(q) \/ CaptureLoopNoMsg(q)
             \/ StartStreaming(q) \/ OpenComplete(q) \/ Started(q) \/ StopEnd(q) \/ Requeue(q)
    BY <2>3, LoadSteps, DropSteps, StartStreamingStep, OpenCompleteStep, StreamingSteps,
       RequeueStep, Zenon DEF QB!Next, QB!Thread
  <2>4. CASE \/ Setup(q) \/ Unwind(q) \/ SetupFails(q) \/ UnwindReturn(q)
             \/ StopReturn(q) \/ StopPut(q)
    BY <2>4, RefSteps, FailSteps, StopSteps, Zenon DEF QB!Next, QB!Thread
  <2>5. ~BufQueueStart(q)
    BY NoDeferredStart, Zenon
  <2> QED  BY <1>2, <2>1, <2>2, <2>3, <2>4, <2>5, Zenon DEF Thread
<1>3. CASE Isr
  BY <1>3, IsrStep, Zenon DEF QB!Next
<1>4. CASE Firmware
  BY <1>4, FwCommandStep, FwFrameStep, Zenon DEF Firmware, QB!Next, QB!Firmware
<1>5. CASE UNCHANGED vars
  <2>1. UNCHANGED <<Driver, active, send, recv, isr, held>>
    BY <1>5, Zenon DEF Driver, vars, hostVars, bufVars, vb2Vars, listVars, streamVars,
       callVars, localVars, isysVars, linkVars, fwVars
  <2>2. Shape'
    BY <2>1, Zenon DEF Inv, Shape, Driver
  <2>3. UNCHANGED QB!vars
    BY <2>1, Zenon DEF Driver, QB!vars, QB!listVars, QB!streamVars, QB!callVars, QB!isysVars,
       QB!linkVars
  <2> QED  BY <2>2, <2>3, Zenon
<1> QED  BY <1>1, <1>2, <1>3, <1>4, <1>5, Zenon DEF Next

\* How often a list on which nothing occurs twice, or a set, has a buffer.
Counts ==
    /\ \A s, b : QB!List(s) => Occurrences(s, b) = IF b \in QB!ToSet(s) THEN 1 ELSE 0
    /\ \A S, b : Cardinality({b} \cap S) = IF b \in S THEN 1 ELSE 0

\* A buffer is in at most one place, and in none once videobuf2 has it.
LEMMA OwnedOnce ==
    ASSUME Queues = {TheQueue}, Inv, Counts
    PROVE  NoDoubleOwner
<1> SUFFICES ASSUME NEW b \in Buffers
             PROVE  Places(b) <= (IF vb[b] = "active" THEN 1 ELSE 0)
  BY Zenon DEF NoDoubleOwner
<1> DEFINE in == incoming[TheQueue]
           act == active[TheQueue]
           n(S) == IF b \in S THEN 1 ELSE 0
<1>1. QueueOf[b] = TheQueue
  BY OneQueue, Zenon
<1>2. QB!List(in) /\ QB!List(act) /\ QB!Parts(QB!ToSet(in), QB!ToSet(act), bl, isr, vb)
  BY Zenon DEF Inv, QB!Inv, QB!OwnerInv, QB!Owned
<1>3. Places(b) = n(QB!ToSet(in)) + n(QB!ToSet(act)) + n(bl) + n(isr)
  <2>1. /\ Occurrences(in, b) = n(QB!ToSet(in)) /\ Occurrences(act, b) = n(QB!ToSet(act))
        /\ Cardinality({b} \cap bl) = n(bl) /\ Cardinality({b} \cap isr) = n(isr)
    BY <1>2, Zenon DEF Counts
  <2> HIDE DEF n
  <2> QED  BY <1>1, <2>1, Zenon DEF Places
<1> HIDE DEF in, act
<1> QED  BY <1>2, <1>3, SMT DEF QB!Parts

\* What the firmware has is what it was given and has not announced.
LEMMA Firm == FwBuffers = QB!Given
<1>1. ASSUME NEW b
      PROVE  b \in FwBuffers <=> \/ \E i \in DOMAIN held : b \in held[i]
                                 \/ \E i \in DOMAIN send : b \in send[i].bufs
  BY SMT DEF FwBuffers, ToSet
<1>2. ASSUME NEW b
      PROVE  /\ b \in QB!Us(held) <=> \E i \in DOMAIN held : b \in held[i]
             /\ b \in QB!Us(Bufs(send)) <=> \E i \in DOMAIN send : b \in send[i].bufs
  <2>1. DOMAIN Bufs(send) = DOMAIN send /\ \A i \in DOMAIN send : Bufs(send)[i] = send[i].bufs
    BY Zenon DEF Bufs
  <2>2. b \in QB!Us(Bufs(send)) <=> \E i \in DOMAIN Bufs(send) : b \in Bufs(send)[i]
    BY SMT DEF QB!Us
  <2>3. b \in QB!Us(held) <=> \E i \in DOMAIN held : b \in held[i]
    BY SMT DEF QB!Us
  <2> QED  BY <2>1, <2>2, <2>3, Zenon
<1> QED  BY <1>1, <1>2, Zenon DEF QB!Given

\* What the firmware has the user does not, or a reset is due.
LEMMA FlaggedBack ==
    ASSUME Queues = {TheQueue}, Inv
    PROVE  HandedBackFlagged
<1> SUFFICES ASSUME ~need_reset, NEW b \in FwBuffers, b \in UserBuffers
             PROVE  FALSE
  BY Zenon DEF HandedBackFlagged
<1> DEFINE act == QB!ToSet(active[TheQueue])
<1>1. b \in QB!Given /\ b \in Buffers /\ QueueOf[b] = TheQueue
  BY Firm, OneQueue, Zenon DEF UserBuffers
<1>2. QB!Within(pc[TheQueue], frame, QB!Given, QB!Ready, act, isr, vb)
  BY Zenon DEF Inv, QB!Inv, QB!KnownInv, QB!Tracked
<1>3. \A x \in act : vb[x] = "active"
  BY Zenon DEF Inv, QB!Inv, QB!OwnerInv, QB!Owned, QB!Parts
<1> HIDE DEF act
<1> QED  BY <1>1, <1>2, <1>3, SMT DEF QB!Within, UserBuffers

-----------------------------------------------------------------------------
(* What QueueBuffersProofs proves holds of the stream.                     *)

QP == INSTANCE QueueBuffersProofs WITH
    started <- started[TheQueue], pc <- pc[TheQueue],
    incoming <- incoming[TheQueue], active <- active[TheQueue],
    joined <- TheQueue \in queues, cmds <- Bufs(send), resps <- Bufs(recv)

\* It is about the same specification and the same invariant.
LEMMA SameSpec ==
    /\ QB!Init <=> QP!Init
    /\ [QB!Next]_(QB!vars) <=> [QP!Next]_(QP!vars)
    /\ QB!Inv <=> QP!Inv
    /\ QB!Inv' <=> QP!Inv'
<1>1. (QB!Init <=> QP!Init) /\ (UNCHANGED QB!vars <=> UNCHANGED QP!vars)
  BY Zenon DEF QB!listVars, QP!listVars, QB!streamVars, QP!streamVars, QB!callVars, QP!callVars,
     QB!isysVars, QP!isysVars, QB!linkVars, QP!linkVars, QB!vars, QP!vars, QB!Init, QP!Init
<1>2. QB!User <=> QP!User
  BY Zenon DEF QB!Cardinality, QP!Cardinality, QB!SetToSeqs, QP!SetToSeqs, QB!SetToSeq,
     QP!SetToSeq, QB!Reverse, QP!Reverse, QB!listVars, QP!listVars, QB!streamVars,
     QP!streamVars, QB!callVars, QP!callVars, QB!isysVars, QP!isysVars, QB!linkVars,
     QP!linkVars, QB!QBufEarly, QP!QBufEarly, QB!QBuf, QP!QBuf, QB!DQBuf, QP!DQBuf,
     QB!StreamOn, QP!StreamOn, QB!StreamOffEarly, QP!StreamOffEarly, QB!User, QP!User
<1>3. QB!Thread <=> QP!Thread
  BY Zenon DEF QB!Cardinality, QP!Cardinality, QB!SetToSeqs, QP!SetToSeqs, QB!SetToSeq,
     QP!SetToSeq, QB!ToSet, QP!ToSet, QB!Last, QP!Last, QB!Front, QP!Front, QB!Reverse,
     QP!Reverse, QB!listVars, QP!listVars, QB!streamVars, QP!streamVars, QB!callVars,
     QP!callVars, QB!isysVars, QP!isysVars, QB!linkVars, QP!linkVars, QB!Passes,
     QP!Passes, QB!Pass, QP!Pass, QB!Load, QP!Load, QB!Send, QP!Send, QB!Drop, QP!Drop,
     QB!Done, QP!Done, QB!ReturnBuffers, QP!ReturnBuffers, QB!FwGet, QP!FwGet, QB!FwPut,
     QP!FwPut, QB!Setup, QP!Setup, QB!SetupFails, QP!SetupFails, QB!StartStreaming,
     QP!StartStreaming, QB!OpenComplete, QP!OpenComplete, QB!Started, QP!Started,
     QB!Requeue, QP!Requeue, QB!Unwind, QP!Unwind, QB!UnwindReturn, QP!UnwindReturn,
     QB!StopEnd, QP!StopEnd, QB!StopReturn, QP!StopReturn, QB!StopPut, QP!StopPut,
     QB!Thread, QP!Thread
<1>4. (QB!Isr <=> QP!Isr) /\ (QB!Firmware <=> QP!Firmware)
  BY Zenon DEF QB!Cardinality, QP!Cardinality, QB!SetToSeqs, QP!SetToSeqs, QB!SetToSeq,
     QP!SetToSeq, QB!RemoveAt, QP!RemoveAt, QB!listVars, QP!listVars, QB!streamVars,
     QP!streamVars, QB!callVars, QP!callVars, QB!isysVars, QP!isysVars, QB!linkVars,
     QP!linkVars, QB!Done, QP!Done, QB!IsrDrop, QP!IsrDrop, QB!IsrPinReady,
     QP!IsrPinReady, QB!IsrBufDone, QP!IsrBufDone, QB!FwCommand, QP!FwCommand,
     QB!FwFrame, QP!FwFrame, QB!Isr, QP!Isr, QB!Firmware, QP!Firmware
<1>5. (QB!Inv <=> QP!Inv) /\ (QB!Inv' <=> QP!Inv')
  BY Zenon DEF QB!ToSet, QP!ToSet, QB!NoRepeat, QP!NoRepeat, QB!List, QP!List, QB!Sets, QP!Sets,
     QB!Us, QP!Us, QB!Apart, QP!Apart, QB!Holds, QP!Holds, QB!Opening, QP!Opening,
     QB!Starting, QP!Starting, QB!Sending, QP!Sending, QB!TypeInv, QP!TypeInv, QB!RefInv,
     QP!RefInv, QB!JoinInv, QP!JoinInv, QB!ListInv, QP!ListInv, QB!PlaceInv, QP!PlaceInv,
     QB!Parts, QP!Parts, QB!Owned, QP!Owned, QB!OwnerInv, QP!OwnerInv, QB!Given,
     QP!Given, QB!Ready, QP!Ready, QB!Flight, QP!Flight, QB!Pins, QP!Pins, QB!Within,
     QP!Within, QB!Tracked, QP!Tracked, QB!KnownInv, QP!KnownInv, QB!Inv, QP!Inv
<1> QED  BY <1>1, <1>2, <1>3, <1>4, <1>5, Zenon DEF QB!Next, QP!Next

\* The lists that are made of sets have each member once.
LEMMA AllListed == QP!Listing /\ Listable
<1>1. QP!IsFiniteSet(Buffers)
  BY StreamAssumption, Zenon DEF IsFiniteSet, QP!IsFiniteSet
<1>2. \A S : QP!SetToSeq(S) = SetToSeq(S)
  BY Zenon DEF QP!Cardinality, Cardinality, QP!SetToSeqs, SetToSeqs, QP!SetToSeq, SetToSeq
<1> QED  BY <1>1, <1>2, QP!Listed, Zenon DEF QP!Listing, QP!List, Listable

\* The invariant there is one here.
LEMMA StepKeeps ==
    ASSUME Inv, Queues = {TheQueue}, [Next]_vars
    PROVE  Inv'
  BY SameSpec, AllListed, StepMaps, QP!NextKeeps, Zenon DEF Inv

\* With one queue the invariant holds throughout.
THEOREM OneQueueInv ==
    ASSUME NEW q, Queues = {q}
    PROVE  Spec => []Inv
<1>1. Init => Inv
  BY OnlyQueue, InitMaps, SameSpec, QP!InvInit, Zenon DEF Inv
<1>2. Inv /\ [Next]_vars => Inv'
  BY OnlyQueue, StepKeeps, Zenon
<1> QED  BY <1>1, <1>2, PTL DEF Spec

\* A stream with one queue treats its buffers as QueueBuffers says.
THEOREM OneQueueImplements ==
    ASSUME NEW q, Queues = {q}
    PROVE  Spec => QB!Spec
<1>1. Init => QB!Init
  BY OnlyQueue, InitMaps, Zenon
<1>2. Inv /\ [Next]_vars => [QB!Next]_(QB!vars)
  BY OnlyQueue, AllListed, StepMaps, Zenon
<1>3. Spec => []Inv
  BY OneQueueInv
<1> QED  BY <1>1, <1>2, <1>3, PTL DEF Spec, QB!Spec

\* The counts are as they should be.
LEMMA Counted == Counts
<1>1. \A S : QP!Cardinality(S) = Cardinality(S)
  BY Zenon DEF QP!Cardinality, Cardinality
<1>2. ASSUME NEW s, NEW b, QB!List(s)
      PROVE  Occurrences(s, b) = IF b \in QB!ToSet(s) THEN 1 ELSE 0
  <2>1. QP!List(s) /\ QP!ToSet(s) = QB!ToSet(s)
    BY <1>2, Zenon DEF QB!List, QP!List, QB!NoRepeat, QP!NoRepeat, QB!ToSet, QP!ToSet
  <2>2. QP!Cardinality({i \in DOMAIN s : s[i] = b}) = IF b \in QP!ToSet(s) THEN 1 ELSE 0
    BY <2>1, QP!OccursOnce, Zenon
  <2> QED  BY <1>1, <2>1, <2>2, SMT DEF Occurrences
<1> QED  BY <1>1, <1>2, QP!CountOnce, Zenon DEF Counts

\* With one queue no buffer is ever on two lists, or on one after
\* vb2_buffer_done, whatever fails and for any number of buffers and ring sizes.
THEOREM OneQueueNoDoubleOwner ==
    ASSUME NEW q, Queues = {q}
    PROVE  Spec => []NoDoubleOwner
<1>1. Inv => NoDoubleOwner
  BY OnlyQueue, OwnedOnce, Counted, Zenon
<1>2. Spec => []Inv
  BY OneQueueInv
<1> QED  BY <1>1, <1>2, PTL

\* With one queue the firmware never writes memory that the user has, unless
\* return_buffers asked for a reset.
THEOREM OneQueueHandedBackFlagged ==
    ASSUME NEW q, Queues = {q}
    PROVE  Spec => []HandedBackFlagged
<1>1. Inv => HandedBackFlagged
  BY OnlyQueue, FlaggedBack, Zenon
<1>2. Spec => []Inv
  BY OneQueueInv
<1> QED  BY <1>1, <1>2, PTL
=============================================================================
