----------------------------- MODULE IsysStream -----------------------------
(***************************************************************************)
(* One ISYS stream: the video queues that share a CSI-2 source and virtual *)
(* channel, the videobuf2 buffers passing through them, the command        *)
(* sequence that opens, starts, flushes and closes the stream in the       *)
(* firmware, and the interrupt handler that applies its responses.         *)
(* (ipu6-isys-queue.c, ipu6-isys-video.c, isys_isr_one and the message     *)
(* pool of ipu6-isys.c, ipu6_fw_isys_complex_cmd of ipu6-fw-isys.c.)       *)
(*                                                                         *)
(* Processes: one user thread per queue (videobuf2 holds av->mutex around  *)
(* each ioctl), the interrupt handler, the firmware.  A thread's steps end *)
(* where the code sleeps, waits for a completion or drops a lock that      *)
(* another process can take.  The syscom rings are the bounded FIFOs that  *)
(* SyscomRing implements.                                                  *)
(*                                                                         *)
(* A definition marked MISTAKE is a wrong variant of the one below it, kept*)
(* to show that the properties notice such a mistake.                      *)
(***************************************************************************)
EXTENDS Lists

CONSTANTS
    Queues,       \* video nodes routed to the stream: stream->nr_queues
    Buffers,      \* all videobuf2 buffers
    QueueOf,      \* the queue each buffer was allocated for
    InitMsgs,     \* message buffers allocated by isys_probe
    Msgs,         \* those and all that memory has room for
    SendSize,     \* IPU6_ISYS_SIZE_SEND_QUEUE
    RecvSize,     \* IPU6_ISYS_SIZE_RECV_QUEUE
    Faults,       \* what may go wrong: a subset of FaultKinds
    Soundness,    \* FALSE: behaviours with those faults; TRUE: without any
    MaxOpened,    \* bounds on what failures may have leaked before the user
    MaxLeaked     \* gives up: stream_opened, messages nothing refers to

FaultKinds == {"timeout",    \* a completion does not arrive in time
               "fwerror",    \* a firmware answer carries an error code
               "pinerror",   \* a frame is delivered with error STR2MMIO
               "setup",      \* the pipeline cannot be set up or validated
               "config",     \* the stream's route or a pin cannot be configured
               "fwopen",     \* the firmware does not come up
               "sensor",     \* enabling or disabling the sub-device fails
               "nomem"}      \* no memory for message buffers beyond InitMsgs

ASSUME StreamAssumption ==
    /\ Queues # {} /\ IsFiniteSet(Queues) /\ IsFiniteSet(Buffers)
    /\ QueueOf \in [Buffers -> Queues]
    /\ InitMsgs \subseteq Msgs
    /\ SendSize \in Nat \ {0} /\ RecvSize \in Nat \ {0}
    /\ Faults \subseteq FaultKinds /\ Soundness \subseteq BOOLEAN
    /\ MaxOpened \in Nat /\ MaxLeaked \in Nat

VARIABLES
    \* videobuf2
    vb,           \* state of each buffer
    started,      \* vb2_queue.start_streaming_called of each queue
    order,        \* history: the buffers of a queue that the driver owns and
                  \* has not dropped for want of a message buffer, oldest first
    \* the queues: struct ipu6_isys_queue and ipu6_isys_video
    incoming, active,   \* buffer lists, head first
    avstream,     \* av->stream is set
    avstreaming,  \* av->streaming
    pc,           \* where the queue's thread is
    \* the stream: struct ipu6_isys_stream
    mutex,        \* holder of stream->mutex
    queues,       \* stream->queues; its size is stream->nr_streaming
    streaming,    \* stream->streaming
    error,        \* stream->error, as a flag
    completion,   \* the four completions
    refs,         \* streams_ref_count of this stream
    \* locals of the thread that holds the mutex
    bl,           \* the buffer list
    msg,          \* the message buffer in use
    frame,        \* the buffers that message describes
    deferred,     \* ipu6_isys_stream_start was called from buf_queue
    \* struct ipu6_isys
    pool, fwlist, \* framebuflist, framebuflist_fw
    stream_opened, ref_count, need_reset,
    \* shared with the firmware, and the firmware
    send, recv,   \* the syscom queues; both exist while the firmware is open
    isr,          \* the buffer the interrupt handler took off an active list
    fw,           \* what the firmware makes of the stream
    held,         \* buffer sets the firmware has accepted, oldest first
    \* the environment
    sound         \* nothing goes wrong in this behaviour; never changes

vb2Vars == <<vb, started, order>>
listVars == <<incoming, active>>
avVars == <<avstream, avstreaming>>
streamVars == <<queues, streaming, refs>>
callVars == <<bl, msg, frame, deferred>>
msgVars == <<pool, fwlist>>
isysVars == <<stream_opened, ref_count, need_reset>>
fwVars == <<fw, held>>
bufVars == <<vb2Vars, listVars>>
hostVars == <<bufVars, avVars, mutex, streamVars, error>>
localVars == <<callVars, msgVars, isysVars>>
linkVars == <<send, recv, isr, fwVars>>
vars == <<hostVars, pc, completion, localVars, linkVars, sound>>

Waits == {"open", "start", "stop", "close"}
Commands == {"OPEN", "START_AND_CAPTURE", "CAPTURE", "FLUSH", "CLOSE"}
Acks == {"OPEN_DONE", "START_AND_CAPTURE_ACK", "CAPTURE_ACK", "FLUSH_ACK",
         "CLOSE_ACK"}

\* A buffer set holds one buffer of each queue of the stream; a message is
\* carried only by the commands that have a payload.
Command(c, bufs, m) == [cmd |-> c, bufs |-> bufs, msg |-> m]
Response(t, bufs, m, e) == [type |-> t, bufs |-> bufs, msg |-> m, err |-> e]

PCs == {"idle", "buf_queue", "setup", "start_streaming", "open", "open_wait",
        "open_check", "start", "start_wait", "start_check", "undo_close",
        "undo_wait", "undo_flush", "undo_flush_wait", "requeue", "capture",
        "capture_loop", "loop_capture", "unwind", "unwind_return", "stop", "stop_wait",
        "stop_off", "close_wait", "stop_end", "stop_cleanup", "stop_return",
        "stop_put"}

\* The thread is in a section that runs under stream->mutex.
Locked == PCs \ {"idle", "buf_queue", "setup", "start_streaming", "unwind",
                 "unwind_return", "stop", "stop_cleanup", "stop_return",
                 "stop_put"}

TypeOK ==
    /\ vb \in [Buffers -> {"dequeued", "queued", "active", "done", "error"}]
    /\ started \in [Queues -> BOOLEAN]
    /\ order \in [Queues -> Seq(Buffers)]
    /\ incoming \in [Queues -> Seq(Buffers)]
    /\ active \in [Queues -> Seq(Buffers)]
    /\ avstream \in [Queues -> BOOLEAN]
    /\ avstreaming \in [Queues -> BOOLEAN]
    /\ pc \in [Queues -> PCs]
    /\ mutex \in SUBSET Queues
    /\ queues \in SUBSET Queues
    /\ streaming \in BOOLEAN
    /\ error \in BOOLEAN
    /\ completion \in [Waits -> Nat]
    /\ refs \in Nat
    /\ bl \in SUBSET Buffers
    /\ msg \in SUBSET Msgs
    /\ frame \in SUBSET Buffers
    /\ deferred \in BOOLEAN
    /\ pool \in SUBSET Msgs /\ fwlist \in SUBSET (Msgs \ pool)
    /\ stream_opened \in Int /\ ref_count \in Nat /\ need_reset \in BOOLEAN
    /\ send \in Seq([cmd : Commands, bufs : SUBSET Buffers, msg : SUBSET Msgs])
    /\ recv \in Seq([type : Acks \cup {"PIN_DATA_READY"}, err : BOOLEAN,
                     bufs : SUBSET Buffers, msg : SUBSET Msgs])
    /\ isr \in SUBSET Buffers
    /\ fw \in {"closed", "open", "running"}
    /\ held \in Seq(SUBSET Buffers)
    /\ sound \in BOOLEAN

Init ==
    /\ vb = [b \in Buffers |-> "dequeued"]
    /\ started = [q \in Queues |-> FALSE]
    /\ order = [q \in Queues |-> <<>>]
    /\ incoming = [q \in Queues |-> <<>>]
    /\ active = [q \in Queues |-> <<>>]
    /\ avstream = [q \in Queues |-> FALSE]
    /\ avstreaming = [q \in Queues |-> FALSE]
    /\ pc = [q \in Queues |-> "idle"]
    /\ mutex = {} /\ queues = {} /\ streaming = FALSE /\ error = FALSE
    /\ completion = [w \in Waits |-> 0]
    /\ refs = 0
    /\ bl = {} /\ msg = {} /\ frame = {} /\ deferred = FALSE
    /\ pool = InitMsgs /\ fwlist = {}
    /\ stream_opened = 0 /\ ref_count = 0 /\ need_reset = FALSE
    /\ send = <<>> /\ recv = <<>> /\ isr = {}
    /\ fw = "closed" /\ held = <<>>
    /\ sound \in Soundness
-----------------------------------------------------------------------------
(* Helpers.                                                                *)

May(f) == ~sound /\ f \in Faults
Goto(q, l) == pc' = [pc EXCEPT ![q] = l]
Of(q) == {b \in Buffers : QueueOf[b] = q}

\* vb2_buffer_done: only a buffer the driver owns changes its state.
Done(bufs, state) ==
    /\ vb' = [b \in Buffers |-> IF b \in bufs /\ vb[b] = "active"
                                THEN state ELSE vb[b]]
    /\ order' = [q \in Queues |-> SelectSeq(order[q], LAMBDA b : b \notin bufs)]

\* list_add and list_add_tail of a buffer list onto the lists of its queues.
AddHead(lists, bufs) ==
    [q \in Queues |-> SetToSeq(bufs \cap Of(q)) \o lists[q]]
\* MISTAKE
AddTailForgotten(lists, bufs) == lists
AddTail(lists, bufs) ==
    [q \in Queues |-> lists[q] \o SetToSeq(bufs \cap Of(q))]

\* buffer_list_get: the oldest incoming buffer of every queue of the stream is
\* taken, or nothing.
\* MISTAKE
ListReadyOffByOne(qs) == \A q \in qs : Len(incoming[q]) > 1
ListReady(qs) == \A q \in qs : incoming[q] # <<>>
\* MISTAKE
ListBufsNewest(qs) == {Head(incoming[q]) : q \in qs}
ListBufs(qs) == {Last(incoming[q]) : q \in qs}
\* MISTAKE
ListNotTaken(qs) == incoming
ListTaken(qs) ==
    [q \in Queues |-> IF q \in qs THEN Front(incoming[q]) ELSE incoming[q]]

\* A list that is taken and then goes nowhere.
ListDropped(qs) ==
    /\ incoming' = ListTaken(qs)
    /\ order' = [q \in Queues |->
                    SelectSeq(order[q], LAMBDA b : b \notin ListBufs(qs))]

\* ipu6_get_fw_msg_buf: an entry of framebuflist, which is refilled from memory
\* when it is empty; NULL when there is none.
Fresh == IF May("nomem") THEN {} ELSE Msgs \ (pool \cup fwlist)
Available == IF pool # {} THEN pool ELSE Fresh
\* MISTAKE
GetMsgKept(m) ==
    /\ m \in Available
    /\ pool' = Available
    /\ fwlist' = fwlist \cup {m}
GetMsg(m) ==
    /\ m \in Available
    /\ pool' = Available \ {m}
    /\ fwlist' = fwlist \cup {m}

\* ipu6_put_fw_msg_buf
\* MISTAKE
PutMsgForgotten(ms) == UNCHANGED msgVars
\* MISTAKE
PutMsgCopied(ms) ==
    /\ pool' = pool \cup ms
    /\ UNCHANGED fwlist
PutMsg(ms) ==
    /\ pool' = pool \cup ms
    /\ fwlist' = fwlist \ ms

\* Messages that the thread fills, or that a command or a response refers to.
Referred == msg \cup UNION {send[i].msg : i \in DOMAIN send}
                \cup UNION {recv[i].msg : i \in DOMAIN recv}
Bounded == stream_opened <= MaxOpened /\ Cardinality(fwlist \ Referred) <= MaxLeaked

\* ipu6_fw_isys_complex_cmd: -EBUSY when the ring has no free token.
Busy == Len(send) = SendSize
Issue(c, bufs, m) ==
    send' = IF Busy THEN send ELSE Append(send, Command(c, bufs, m))

Reinit(w) == completion' = [completion EXCEPT ![w] = 0]
\* MISTAKE
CompletedUnawaited(w) == UNCHANGED completion
Completed(w) ==
    /\ completion[w] > 0
    /\ completion' = [completion EXCEPT ![w] = @ - 1]
\* MISTAKE
NeverTimesOut(w) == FALSE /\ UNCHANGED completion
TimedOut(w) ==
    /\ May("timeout")
    /\ completion[w] = 0
    /\ UNCHANGED completion

-----------------------------------------------------------------------------
(* Firmware references: ipu6_isys_fw_get and ipu6_isys_fw_put.             *)

\* The first user opens the firmware: fresh syscom queues, and message buffers
\* left with the old firmware return to the pool.
FwGet ==
    /\ ref_count' = ref_count + 1
    /\ IF ref_count = 0
       THEN /\ PutMsg(fwlist)
            /\ send' = <<>> /\ recv' = <<>>
            /\ fw' = "closed" /\ held' = <<>>
       ELSE UNCHANGED <<msgVars, send, recv, fwVars>>

\* The last user closes it, under power_lock, so not while the interrupt
\* handler runs, and lets the device power down, which clears need_reset.
FwPut ==
    /\ ref_count' = ref_count - 1
    /\ IF ref_count = 1
       THEN /\ isr = {}
            /\ send' = <<>> /\ recv' = <<>>
            /\ fw' = "closed" /\ held' = <<>>
            /\ need_reset' = FALSE
       ELSE UNCHANGED <<send, recv, fwVars, need_reset>>

-----------------------------------------------------------------------------
(* Queueing buffers: VIDIOC_QBUF, VIDIOC_DQBUF and buf_queue.              *)

\* Before STREAMON videobuf2 keeps the buffer.
QBufEarly(b) ==
    /\ pc[QueueOf[b]] = "idle" /\ vb[b] = "dequeued" /\ ~started[QueueOf[b]]
    /\ vb' = [vb EXCEPT ![b] = "queued"]
    /\ UNCHANGED <<started, order, listVars, avVars, pc, mutex, streamVars,
                   error, completion, localVars, linkVars, sound>>

\* While streaming it hands the buffer to buf_queue.
QBuf(b) ==
    LET q == QueueOf[b] IN
    /\ pc[q] = "idle" /\ vb[b] = "dequeued" /\ started[q]
    /\ Bounded
    /\ vb' = [vb EXCEPT ![b] = "active"]
    /\ order' = [order EXCEPT ![q] = Append(@, b)]
    /\ incoming' = AddHead(incoming, {b})
    /\ Goto(q, "buf_queue")
    /\ UNCHANGED <<started, active, avVars, mutex, streamVars, error,
                   completion, localVars, linkVars, sound>>

DQBuf(b) ==
    /\ pc[QueueOf[b]] = "idle" /\ vb[b] \in {"done", "error"}
    /\ vb' = [vb EXCEPT ![b] = "dequeued"]
    /\ UNCHANGED <<started, order, listVars, avVars, pc, mutex, streamVars,
                   error, completion, localVars, linkVars, sound>>

\* Not every queue is on, or not every queue has a buffer.
BufQueueWait(q) ==
    /\ pc[q] = "buf_queue" /\ mutex = {}
    /\ queues # Queues \/ ~ListReady(queues)
    /\ Goto(q, "idle")
    /\ UNCHANGED <<hostVars, completion, localVars, linkVars, sound>>

\* No message buffer: the list taken from the incoming queues is dropped.
BufQueueNoMsg(q) ==
    /\ pc[q] = "buf_queue" /\ mutex = {}
    /\ queues = Queues /\ ListReady(queues) /\ Available = {}
    /\ ListDropped(queues)
    /\ Goto(q, "idle")
    /\ UNCHANGED <<vb, started, active, avVars, mutex, streamVars, error,
                   completion, localVars, linkVars, sound>>

\* The buffers go to the active lists before the command is sent.
BufQueueCapture(q) ==
    /\ pc[q] = "buf_queue" /\ mutex = {}
    /\ queues = Queues /\ ListReady(queues) /\ streaming
    /\ \E m \in Msgs : GetMsg(m) /\ msg' = {m}
    /\ incoming' = ListTaken(queues)
    /\ active' = AddHead(active, ListBufs(queues))
    /\ frame' = ListBufs(queues)
    /\ mutex' = {q}
    /\ Goto(q, "capture")
    /\ UNCHANGED <<vb2Vars, avVars, streamVars, error, completion, bl,
                   deferred, isysVars, linkVars, sound>>

\* The start that start_streaming postponed.  The message stays on
\* framebuflist_fw; ipu6_isys_stream_start takes its own.
BufQueueStart(q) ==
    /\ pc[q] = "buf_queue" /\ mutex = {}
    /\ queues = Queues /\ ListReady(queues) /\ ~streaming
    /\ \E m \in Msgs : GetMsg(m)
    /\ incoming' = ListTaken(queues)
    /\ bl' = ListBufs(queues)
    /\ deferred' = TRUE
    /\ mutex' = {q}
    /\ Goto(q, "open")
    /\ UNCHANGED <<vb2Vars, active, avVars, streamVars, error, completion,
                   msg, frame, isysVars, linkVars, sound>>

Capture(q) ==
    /\ pc[q] = "capture"
    /\ Issue("CAPTURE", frame, msg)
    /\ msg' = {} /\ frame' = {}
    /\ mutex' = {}
    /\ Goto(q, "idle")
    /\ UNCHANGED <<bufVars, avVars, streamVars, error, completion, bl,
                   deferred, msgVars, isysVars, recv, isr, fwVars, sound>>
-----------------------------------------------------------------------------
(* VIDIOC_STREAMON: start_streaming.                                       *)

\* videobuf2 gives the driver all queued buffers, then calls start_streaming.
StreamOn(q) ==
    LET given == {b \in Of(q) : vb[b] = "queued"} IN
    /\ pc[q] = "idle" /\ ~started[q] /\ given # {}
    /\ Bounded
    /\ \E s \in SetToSeqs(given) :
        /\ incoming' = [incoming EXCEPT ![q] = Reverse(s) \o @]
        /\ order' = [order EXCEPT ![q] = @ \o s]
    /\ vb' = [b \in Buffers |-> IF b \in given THEN "active" ELSE vb[b]]
    /\ started' = [started EXCEPT ![q] = TRUE]
    /\ Goto(q, "setup")
    /\ UNCHANGED <<active, avVars, mutex, streamVars, error, completion,
                   localVars, linkVars, sound>>

\* return_buffers: every buffer on the queue's lists goes back to videobuf2;
\* buffers still active ask for a reset of the subsystem.
\* MISTAKE
ReturnBuffersUnflagged(q, state) ==
    /\ Done(ToSet(incoming[q]) \cup ToSet(active[q]), state)
    /\ incoming' = [incoming EXCEPT ![q] = <<>>]
    /\ active' = [active EXCEPT ![q] = <<>>]
    /\ UNCHANGED need_reset
ReturnBuffers(q, state) ==
    /\ Done(ToSet(incoming[q]) \cup ToSet(active[q]), state)
    /\ incoming' = [incoming EXCEPT ![q] = <<>>]
    /\ active' = [active EXCEPT ![q] = <<>>]
    /\ need_reset' = (need_reset \/ active[q] # <<>>)

\* ipu6_isys_setup_video took a reference on the stream, fw_get on the firmware.
Setup(q) ==
    /\ pc[q] = "setup"
    /\ avstream' = [avstream EXCEPT ![q] = TRUE]
    /\ refs' = refs + 1
    /\ FwGet
    /\ Goto(q, "start_streaming")
    /\ UNCHANGED <<bufVars, avstreaming, mutex, queues, streaming, error,
                   completion, callVars, stream_opened, need_reset, isr, sound>>

\* The pipeline or its formats are refused, or the firmware does not open
\* (after the message buffers were collected): everything is undone.
SetupFails(q) ==
    /\ pc[q] = "setup"
    /\ \/ May("setup") /\ UNCHANGED msgVars
       \/ May("fwopen") /\ ref_count = 0 /\ PutMsg(fwlist)
    /\ ReturnBuffers(q, "queued")
    /\ started' = [started EXCEPT ![q] = FALSE]
    /\ Goto(q, "idle")
    /\ UNCHANGED <<avVars, mutex, streamVars, error, completion, callVars,
                   stream_opened, ref_count, linkVars, sound>>

\* The last queue of the stream starts it if every queue has a buffer; the
\* others, and a start without buffers, are left to buf_queue.
StartStreaming(q) ==
    /\ pc[q] = "start_streaming" /\ mutex = {}
    /\ queues' = queues \cup {q}
    /\ IF queues' = Queues /\ ListReady(Queues)
       THEN /\ incoming' = ListTaken(Queues)
            /\ bl' = ListBufs(Queues)
            /\ deferred' = FALSE
            /\ mutex' = {q}
            /\ Goto(q, "open")
       ELSE /\ Goto(q, "idle")
            /\ UNCHANGED <<incoming, bl, deferred, mutex>>
    /\ UNCHANGED <<vb2Vars, active, avVars, streaming, refs, error,
                   completion, msg, frame, msgVars, isysVars, linkVars, sound>>

-----------------------------------------------------------------------------
(* ipu6_isys_stream_start and start_stream_firmware, under stream->mutex.  *)

Open(q) ==
    /\ pc[q] = "open" /\ ~Busy
    /\ \E m \in Msgs : GetMsg(m) /\ msg' = {m} /\ Issue("OPEN", {}, {m})
    /\ Reinit("open")
    /\ stream_opened' = stream_opened + 1
    /\ Goto(q, "open_wait")
    /\ UNCHANGED <<hostVars, bl, frame, deferred, ref_count, need_reset, recv,
                   isr, fwVars, sound>>

\* No route, no message buffer, a refused pin configuration or a full ring: the
\* message buffer is back in the pool, nothing was sent.
OpenRefused(q) ==
    /\ pc[q] = "open"
    /\ May("config") \/ Available = {} \/ Busy
    /\ pool' \in IF May("config") THEN {pool, Available} ELSE {Available}
    /\ IF Available # {} /\ Busy THEN Reinit("open") ELSE UNCHANGED completion
    /\ Goto(q, "requeue")
    /\ UNCHANGED <<hostVars, callVars, fwlist, isysVars, linkVars, sound>>

\* The configuration message returns to the pool, answered or not.
OpenWait(q) ==
    /\ pc[q] = "open_wait"
    /\ \/ Completed("open") /\ Goto(q, "open_check") /\ UNCHANGED stream_opened
       \/ /\ TimedOut("open") /\ Goto(q, "requeue")
          /\ stream_opened' = stream_opened - 1
    /\ PutMsg(msg)
    /\ msg' = {}
    /\ UNCHANGED <<hostVars, bl, frame, deferred, ref_count, need_reset,
                   linkVars, sound>>

OpenFailed(q) ==
    /\ pc[q] = "open_check"
    /\ error \/ Available = {}
    /\ stream_opened' = stream_opened - 1
    /\ Goto(q, "requeue")
    /\ UNCHANGED <<hostVars, completion, callVars, msgVars, ref_count,
                   need_reset, linkVars, sound>>

OpenComplete(q) ==
    /\ pc[q] = "open_check" /\ ~error
    /\ \E m \in Msgs : GetMsg(m) /\ msg' = {m}
    /\ active' = AddHead(active, bl)
    /\ frame' = bl /\ bl' = {}
    /\ Reinit("start")
    /\ Goto(q, "start")
    /\ UNCHANGED <<vb2Vars, incoming, avVars, mutex, streamVars, error,
                   deferred, isysVars, linkVars, sound>>

Start(q) ==
    /\ pc[q] = "start"
    /\ Issue("START_AND_CAPTURE", frame, msg)
    /\ Goto(q, IF Busy THEN "undo_close" ELSE "start_wait")
    /\ msg' = {} /\ frame' = {}
    /\ UNCHANGED <<hostVars, completion, bl, deferred, msgVars, isysVars,
                   recv, isr, fwVars, sound>>

StartWait(q) ==
    /\ pc[q] = "start_wait"
    /\ \/ Completed("start") /\ Goto(q, "start_check")
       \/ TimedOut("start") /\ Goto(q, "undo_close")
    /\ UNCHANGED <<hostVars, localVars, linkVars, sound>>

StartFailed(q) ==
    /\ pc[q] = "start_check" /\ error
    /\ Goto(q, "undo_close")
    /\ UNCHANGED <<hostVars, completion, localVars, linkVars, sound>>

\* The sub-device is enabled; only this queue's av->streaming is set.
Started(q) ==
    /\ pc[q] = "start_check" /\ ~error
    /\ avstreaming' = [avstreaming EXCEPT ![q] = TRUE]
    /\ streaming' = TRUE
    /\ Goto(q, "capture_loop")
    /\ UNCHANGED <<bufVars, avstream, mutex, queues, refs, error,
                   completion, localVars, linkVars, sound>>

\* The sub-device refuses: the firmware stream is flushed but not closed.
EnableFails(q) ==
    /\ pc[q] = "start_check" /\ ~error
    /\ May("sensor")
    /\ Goto(q, "undo_flush")
    /\ UNCHANGED <<hostVars, completion, localVars, linkVars, sound>>

\* Captures for the remaining complete buffer sets, one message each.
CaptureLoop(q) ==
    /\ pc[q] = "capture_loop" /\ ListReady(queues)
    /\ \E m \in Msgs : GetMsg(m) /\ msg' = {m}
    /\ incoming' = ListTaken(queues)
    /\ active' = AddHead(active, ListBufs(queues))
    /\ frame' = ListBufs(queues)
    /\ Goto(q, "loop_capture")
    /\ UNCHANGED <<vb2Vars, avVars, mutex, streamVars, error, completion,
                   bl, deferred, isysVars, linkVars, sound>>

LoopCapture(q) ==
    /\ pc[q] = "loop_capture"
    /\ Issue("CAPTURE", frame, msg)
    /\ Goto(q, IF Busy THEN "idle" ELSE "capture_loop")
    /\ mutex' = IF Busy THEN {} ELSE mutex
    /\ msg' = {} /\ frame' = {}
    /\ UNCHANGED <<bufVars, avVars, streamVars, error, completion, bl,
                   deferred, msgVars, isysVars, recv, isr, fwVars, sound>>

CaptureLoopEnd(q) ==
    /\ pc[q] = "capture_loop" /\ ~ListReady(queues)
    /\ mutex' = {}
    /\ Goto(q, "idle")
    /\ UNCHANGED <<bufVars, avVars, streamVars, error, completion,
                   localVars, linkVars, sound>>

\* start_streaming gives up its place in the stream, buf_queue just returns.
LeaveStart(q) ==
    /\ mutex' = {}
    /\ queues' = IF deferred THEN queues ELSE queues \ {q}
    /\ Goto(q, IF deferred THEN "idle" ELSE "unwind")

\* Out of message buffers with the firmware running: -ENOMEM, and the list just
\* taken is dropped.
CaptureLoopNoMsg(q) ==
    /\ pc[q] = "capture_loop" /\ ListReady(queues) /\ Available = {}
    /\ ListDropped(queues)
    /\ LeaveStart(q)
    /\ UNCHANGED <<vb, started, active, avVars, streaming, refs, error,
                   completion, localVars, linkVars, sound>>

UndoClose(q) ==
    /\ pc[q] = "undo_close"
    /\ Reinit("close")
    /\ Issue("CLOSE", {}, {})
    /\ IF Busy
       THEN Goto(q, "requeue") /\ stream_opened' = stream_opened - 1
       ELSE Goto(q, "undo_wait") /\ UNCHANGED stream_opened
    /\ UNCHANGED <<hostVars, callVars, msgVars, ref_count, need_reset, recv,
                   isr, fwVars, sound>>

UndoWait(q) ==
    /\ pc[q] = "undo_wait"
    /\ Completed("close") \/ TimedOut("close")
    /\ stream_opened' = stream_opened - 1
    /\ Goto(q, "requeue")
    /\ UNCHANGED <<hostVars, callVars, msgVars, ref_count, need_reset,
                   linkVars, sound>>

UndoFlush(q) ==
    /\ pc[q] = "undo_flush"
    /\ Reinit("stop")
    /\ Issue("FLUSH", {}, {})
    /\ Goto(q, IF Busy THEN "requeue" ELSE "undo_flush_wait")
    /\ UNCHANGED <<hostVars, localVars, recv, isr, fwVars, sound>>

UndoFlushWait(q) ==
    /\ pc[q] = "undo_flush_wait"
    /\ Completed("stop") \/ TimedOut("stop")
    /\ Goto(q, "requeue")
    /\ UNCHANGED <<hostVars, localVars, linkVars, sound>>

\* out_requeue: an unused list returns to incoming, and to the user as well
\* when the start was deferred; flush_firmware_streamon_fail then empties the
\* active lists, back to incoming where av->streaming is set, else to videobuf2.
Requeue(q) ==
    LET unused == IF deferred THEN bl ELSE {}
        back == UNION {ToSet(active[p]) : p \in {r \in queues : ~avstreaming[r]}}
    IN
    /\ pc[q] = "requeue"
    /\ vb' = [b \in Buffers |->
                CASE vb[b] = "active" /\ b \in unused -> "error"
                  [] vb[b] = "active" /\ b \in back -> "queued"
                  [] OTHER -> vb[b]]
    /\ order' = [p \in Queues |->
                   SelectSeq(order[p], LAMBDA b : b \notin unused \cup back)]
    /\ incoming' = [p \in Queues |->
                      (IF p \in queues /\ avstreaming[p]
                       THEN Reverse(active[p]) ELSE <<>>)
                      \o AddTail(incoming, bl)[p]]
    /\ active' = [p \in Queues |-> IF p \in queues THEN <<>> ELSE active[p]]
    /\ bl' = {}
    /\ LeaveStart(q)
    /\ UNCHANGED <<started, avVars, streaming, refs, error, completion, msg,
                   frame, deferred, msgVars, isysVars, linkVars, sound>>

\* The failed start_streaming drops the firmware and the stream ...
Unwind(q) ==
    /\ pc[q] = "unwind"
    /\ FwPut
    /\ refs' = refs - 1
    /\ avstream' = [avstream EXCEPT ![q] = FALSE]
    /\ Goto(q, "unwind_return")
    /\ UNCHANGED <<bufVars, avstreaming, mutex, queues, streaming, error,
                   completion, callVars, msgVars, stream_opened, isr, sound>>

\* ... and returns its buffers.  videobuf2 takes back any it still misses.
UnwindReturn(q) ==
    /\ pc[q] = "unwind_return"
    /\ incoming' = [incoming EXCEPT ![q] = <<>>]
    /\ active' = [active EXCEPT ![q] = <<>>]
    /\ need_reset' = (need_reset \/ active[q] # <<>>)
    /\ Done(Of(q), "queued")
    /\ started' = [started EXCEPT ![q] = FALSE]
    /\ Goto(q, "idle")
    /\ UNCHANGED <<avVars, mutex, streamVars, error, completion, callVars,
                   msgVars, stream_opened, ref_count, linkVars, sound>>

-----------------------------------------------------------------------------
(* VIDIOC_STREAMOFF: stop_streaming.                                       *)

StreamOffEarly(q) ==
    /\ pc[q] = "idle" /\ ~started[q]
    /\ vb' = [b \in Buffers |-> IF b \in Of(q) THEN "dequeued" ELSE vb[b]]
    /\ UNCHANGED <<started, order, listVars, avVars, pc, mutex, streamVars,
                   error, completion, localVars, linkVars, sound>>

StreamOff(q) ==
    /\ pc[q] = "idle" /\ started[q]
    /\ Goto(q, "stop")
    /\ UNCHANGED <<hostVars, completion, localVars, linkVars, sound>>

\* The first queue to stop flushes and closes the stream of all.
Stop(q) ==
    /\ pc[q] = "stop" /\ mutex = {}
    /\ queues = Queues /\ streaming
    /\ mutex' = {q}
    /\ Reinit("stop")
    /\ Issue("FLUSH", {}, {})
    /\ Goto(q, IF Busy THEN "stop_off" ELSE "stop_wait")
    /\ UNCHANGED <<bufVars, avVars, streamVars, error, localVars, recv, isr,
                   fwVars, sound>>

StopLater(q) ==
    /\ pc[q] = "stop" /\ mutex = {}
    /\ queues # Queues \/ ~streaming
    /\ mutex' = {q}
    /\ Goto(q, "stop_end")
    /\ UNCHANGED <<bufVars, avVars, streamVars, error, completion,
                   localVars, linkVars, sound>>

\* MISTAKE
StopWaitDropped(q) ==
    /\ pc[q] = "stop_wait"
    /\ Goto(q, "stop_off")
    /\ UNCHANGED <<hostVars, completion, localVars, linkVars, sound>>
StopWait(q) ==
    /\ pc[q] = "stop_wait"
    /\ Completed("stop") \/ TimedOut("stop")
    /\ Goto(q, "stop_off")
    /\ UNCHANGED <<hostVars, localVars, linkVars, sound>>

\* The sub-device is disabled, then the firmware stream closed.
StopOff(q) ==
    /\ pc[q] = "stop_off"
    /\ Reinit("close")
    /\ Issue("CLOSE", {}, {})
    /\ Goto(q, IF Busy THEN "stop_end" ELSE "close_wait")
    /\ avstreaming' = [avstreaming EXCEPT ![q] = @ /\ ~Busy]
    /\ UNCHANGED <<bufVars, avstream, mutex, streamVars, error, localVars,
                   recv, isr, fwVars, sound>>

\* When the sub-device cannot be disabled the firmware stream stays open.
DisableFails(q) ==
    /\ pc[q] = "stop_off"
    /\ May("sensor")
    /\ Goto(q, "stop_end")
    /\ UNCHANGED <<hostVars, completion, localVars, linkVars, sound>>

CloseWait(q) ==
    /\ pc[q] = "close_wait"
    /\ Completed("close") \/ TimedOut("close")
    /\ stream_opened' = stream_opened - 1
    /\ avstreaming' = [avstreaming EXCEPT ![q] = FALSE]
    /\ Goto(q, "stop_end")
    /\ UNCHANGED <<bufVars, avstream, mutex, streamVars, error, callVars,
                   msgVars, ref_count, need_reset, linkVars, sound>>

\* MISTAKE
StopEndKeepsStreaming(q) ==
    /\ pc[q] = "stop_end"
    /\ queues' = queues \ {q}
    /\ mutex' = {}
    /\ Goto(q, "stop_cleanup")
    /\ UNCHANGED <<bufVars, avVars, streaming, refs, error, completion,
                   localVars, linkVars, sound>>
StopEnd(q) ==
    /\ pc[q] = "stop_end"
    /\ queues' = queues \ {q}
    /\ streaming' = FALSE
    /\ mutex' = {}
    /\ Goto(q, "stop_cleanup")
    /\ UNCHANGED <<bufVars, avVars, refs, error, completion, localVars,
                   linkVars, sound>>

\* ipu6_isys_stream_cleanup runs without the mutex.
StopCleanup(q) ==
    /\ pc[q] = "stop_cleanup"
    /\ refs' = refs - 1
    /\ avstream' = [avstream EXCEPT ![q] = FALSE]
    /\ Goto(q, "stop_return")
    /\ UNCHANGED <<bufVars, avstreaming, mutex, queues, streaming, error,
                   completion, localVars, linkVars, sound>>

StopReturn(q) ==
    /\ pc[q] = "stop_return"
    /\ ReturnBuffers(q, "error")
    /\ Goto(q, "stop_put")
    /\ UNCHANGED <<started, avVars, mutex, streamVars, error, completion,
                   callVars, msgVars, stream_opened, ref_count, linkVars, sound>>

\* videobuf2 then dequeues every buffer of the queue.
StopPut(q) ==
    /\ pc[q] = "stop_put"
    /\ FwPut
    /\ vb' = [b \in Buffers |-> IF b \in Of(q) THEN "dequeued" ELSE vb[b]]
    /\ order' = [order EXCEPT ![q] = <<>>]
    /\ started' = [started EXCEPT ![q] = FALSE]
    /\ Goto(q, "idle")
    /\ UNCHANGED <<listVars, avVars, mutex, streamVars, error, completion,
                   callVars, msgVars, stream_opened, isr, sound>>
-----------------------------------------------------------------------------
(* The interrupt handler: isys_isr_one, one response at a time, while the  *)
(* firmware is open.                                                       *)

\* What the acknowledgements complete.
Completes == [OPEN_DONE |-> "open", START_AND_CAPTURE_ACK |-> "start",
              FLUSH_ACK |-> "stop", CLOSE_ACK |-> "close"]

IsrUnused ==
    /\ recv # <<>> /\ isr = {} /\ refs = 0
    /\ recv' = Tail(recv)
    /\ UNCHANGED <<hostVars, pc, completion, localVars, send, isr, fwVars,
                   sound>>

\* Every response overwrites stream->error; those that carry a message buffer
\* return it.
IsrAck ==
    /\ recv # <<>> /\ isr = {} /\ refs > 0
    /\ LET r == Head(recv) IN
        /\ r.type \in Acks
        /\ error' = r.err
        /\ completion' = [w \in Waits |->
                            IF r.type \in DOMAIN Completes /\ Completes[r.type] = w
                            THEN completion[w] + 1 ELSE completion[w]]
        /\ PutMsg(r.msg)
    /\ recv' = Tail(recv)
    /\ UNCHANGED <<bufVars, avVars, pc, mutex, streamVars, callVars,
                   isysVars, send, isr, fwVars, sound>>

\* ipu6_stream_buf_ready looks the buffer up on the active list, from the tail ...
Found(s, b) == {i \in DOMAIN s : s[i] = b /\ \A j \in DOMAIN s : s[j] = b => j <= i}
IsrPinReady ==
    /\ recv # <<>> /\ isr = {} /\ refs > 0
    /\ LET r == Head(recv) IN
        /\ r.type = "PIN_DATA_READY"
        /\ error' = r.err
        /\ \E b \in r.bufs :
            LET q == QueueOf[b] IN
            \/ \E i \in Found(active[q], b) :
                 /\ active' = [active EXCEPT ![q] = RemoveAt(@, i)]
                 /\ isr' = {b}
                 /\ refs' = refs + 1
                 /\ UNCHANGED recv
            \/ /\ Found(active[q], b) = {}
               /\ recv' = Tail(recv)
               /\ UNCHANGED <<active, isr, refs>>
    /\ UNCHANGED <<vb2Vars, incoming, avVars, pc, mutex, queues, streaming,
                   completion, localVars, send, fwVars, sound>>

\* ... and completes it after dropping the queue's lock, through av->stream.
IsrBufDone ==
    /\ isr # {}
    /\ Done(isr, IF Head(recv).err THEN "error" ELSE "done")
    /\ isr' = {}
    /\ refs' = refs - 1
    /\ recv' = Tail(recv)
    /\ UNCHANGED <<started, listVars, avVars, pc, mutex, queues, streaming,
                   error, completion, localVars, send, fwVars, sound>>

-----------------------------------------------------------------------------
(* The firmware (external): it answers the commands in order, keeps the    *)
(* buffer sets it was given, and delivers them oldest first while running. *)
(* A flush or a close drops what it still holds.                           *)

AckOf == [OPEN |-> "OPEN_DONE", START_AND_CAPTURE |-> "START_AND_CAPTURE_ACK",
          CAPTURE |-> "CAPTURE_ACK", FLUSH |-> "FLUSH_ACK", CLOSE |-> "CLOSE_ACK"]
AfterCommand == [OPEN |-> "open", START_AND_CAPTURE |-> "running",
                 FLUSH |-> "open", CLOSE |-> "closed"]

FwCommand ==
    /\ send # <<>> /\ Len(recv) < RecvSize
    /\ LET c == Head(send) IN
       \E e \in IF May("fwerror") /\ c.cmd \in {"OPEN", "START_AND_CAPTURE"}
                THEN BOOLEAN ELSE {FALSE} :
        /\ recv' = Append(recv, Response(AckOf[c.cmd], {},
                                         IF c.cmd = "OPEN" THEN {} ELSE c.msg, e))
        /\ fw' = IF e \/ c.cmd = "CAPTURE" THEN fw ELSE AfterCommand[c.cmd]
        /\ held' = CASE c.cmd \in {"FLUSH", "CLOSE"} -> <<>>
                     [] c.bufs # {} /\ ~e -> Append(held, c.bufs)
                     [] OTHER -> held
    /\ send' = Tail(send)
    /\ UNCHANGED <<hostVars, pc, completion, localVars, isr, sound>>

\* A captured frame: one response for each pin.
FwFrame ==
    /\ fw = "running" /\ held # <<>>
    /\ Len(recv) + Cardinality(Head(held)) <= RecvSize
    /\ \E e \in IF May("pinerror") THEN BOOLEAN ELSE {FALSE} :
        LET done == SetToSeq(Head(held)) IN
        recv' = recv \o [i \in DOMAIN done |->
                           Response("PIN_DATA_READY", {done[i]}, {}, e)]
    /\ held' = Tail(held)
    /\ UNCHANGED <<hostVars, pc, completion, localVars, send, isr, fw, sound>>

-----------------------------------------------------------------------------
User ==
    \/ \E b \in Buffers : QBufEarly(b) \/ QBuf(b) \/ DQBuf(b)
    \/ \E q \in Queues : StreamOn(q) \/ StreamOffEarly(q) \/ StreamOff(q)

\* The rest of an ioctl, once entered.
Thread(q) ==
    \/ BufQueueWait(q) \/ BufQueueNoMsg(q) \/ BufQueueCapture(q)
    \/ BufQueueStart(q) \/ Capture(q)
    \/ Setup(q) \/ SetupFails(q) \/ StartStreaming(q)
    \/ Open(q) \/ OpenRefused(q) \/ OpenWait(q) \/ OpenFailed(q)
    \/ OpenComplete(q) \/ Start(q) \/ StartWait(q) \/ StartFailed(q)
    \/ Started(q) \/ EnableFails(q)
    \/ CaptureLoop(q) \/ LoopCapture(q) \/ CaptureLoopEnd(q)
    \/ CaptureLoopNoMsg(q)
    \/ UndoClose(q) \/ UndoWait(q) \/ UndoFlush(q) \/ UndoFlushWait(q)
    \/ Requeue(q) \/ Unwind(q) \/ UnwindReturn(q)
    \/ Stop(q) \/ StopLater(q) \/ StopWait(q) \/ StopOff(q) \/ DisableFails(q)
    \/ CloseWait(q) \/ StopEnd(q) \/ StopCleanup(q) \/ StopReturn(q)
    \/ StopPut(q)

Isr == IsrUnused \/ IsrAck \/ IsrPinReady \/ IsrBufDone
Firmware == FwCommand \/ FwFrame

Next == User \/ (\E q \in Queues : Thread(q)) \/ Isr \/ Firmware

\* The kernel keeps running its threads and interrupt handlers, and a mutex
\* that is released again and again is eventually handed to a waiter.  A
\* firmware that nothing goes wrong with keeps answering and keeps receiving
\* frames; otherwise nothing is assumed of it, nor of the user.
Spec ==
    /\ Init /\ [][Next]_vars
    /\ \A q \in Queues : SF_vars(Thread(q))
    /\ WF_vars(Isr)
    /\ WF_vars(sound /\ FwCommand) /\ WF_vars(sound /\ FwFrame)

-----------------------------------------------------------------------------
(* Properties.                                                             *)

\* How often a buffer occurs on the driver's lists, in a list being moved and
\* in the interrupt handler's hands.
Occurrences(s, b) == Cardinality({i \in DOMAIN s : s[i] = b})
Places(b) ==
    Occurrences(incoming[QueueOf[b]], b) + Occurrences(active[QueueOf[b]], b)
    + Cardinality({b} \cap bl) + Cardinality({b} \cap isr)

\* No buffer is ever on two lists, or still on a list after it was given back
\* to videobuf2: list corruption and a second vb2_buffer_done would follow.
NoDoubleOwner == \A b \in Buffers : Places(b) <= (IF vb[b] = "active" THEN 1 ELSE 0)

\* A buffer the driver owns is never lost between the lists, so that
\* stop_streaming returns all of them; only the list that finds no message
\* buffer is dropped.
NoLostBuffer == \A q \in Queues : \A b \in ToSet(order[q]) : Places(b) > 0

\* Whenever the firmware reports a frame, its buffer is on the active list of
\* its queue (the order buf_queue's comment asks for), so no frame is dropped.
ReadyFindsBuffer ==
    \A i \in DOMAIN recv : recv[i].type = "PIN_DATA_READY" =>
        \A b \in recv[i].bufs : b \in ToSet(active[QueueOf[b]]) \cup isr

\* The interrupt handler completes a buffer only while its queue still has its
\* stream: ipu6_isys_buf_calc_sequence_time follows av->stream.
StreamSetInIsr == \A b \in isr : avstream[QueueOf[b]]

\* Buffers of a queue are completed in the order they were queued.
CompletesInOrder ==
    \A b \in isr : order[QueueOf[b]] # <<>> /\ Head(order[QueueOf[b]]) = b

\* A message buffer that a queued command or a response refers to, or that a
\* thread is filling, is not on the free list.
MessagesInUse == Referred \cap pool = {}

\* The commands of a stream whose firmware answers never fill the ring
\* (ipu6-isys.h: "so that they never gets full").
SendNeverFull ==
    sound /\ (\E q \in Queues : pc[q] \in {"open", "capture", "loop_capture",
        "start", "undo_close", "undo_flush", "stop", "stop_off"}) => ~Busy

\* Between two ioctls the driver and the firmware agree on the stream.
InStep ==
    mutex = {} => /\ streaming <=> fw = "running"
                  /\ stream_opened = IF fw = "closed" THEN 0 ELSE 1

\* Memory the user can use again is not written by the firmware, unless the
\* subsystem was marked for a reset.
FwBuffers == UNION (ToSet(held) \cup {send[i].bufs : i \in DOMAIN send})
UserBuffers ==
    {b \in Buffers : \/ vb[b] \in {"dequeued", "done", "error"}
                     \/ vb[b] = "queued" /\ pc[QueueOf[b]] = "idle"}
HandedBackFlagged == FwBuffers \cap UserBuffers # {} => need_reset

\* A buffer that a failed start gives up goes back to the user ("Queue not yet
\* streaming, return to user.", flush_firmware_streamon_fail): videobuf2 is left
\* holding none that a started queue will not be given again.
ReturnedToUser ==
    \A b \in Buffers : vb[b] = "queued" =>
        ~started[QueueOf[b]] \/ pc[QueueOf[b]] # "idle"

\* Every ioctl returns, whatever the firmware does.
IoctlReturns == \A q \in Queues : []<>(pc[q] = "idle")

\* Every buffer given to the driver comes back while nothing goes wrong.
BuffersComeBack ==
    \A b \in Buffers : []<>(sound => vb[b] # "active")

\* Every message buffer given to the firmware is taken back while nothing goes
\* wrong.
MessagesComeBack == \A m \in Msgs : []<>(sound => m \notin fwlist)
=============================================================================
