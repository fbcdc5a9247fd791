---------------------------- MODULE QueueBuffers ----------------------------
(***************************************************************************)
(* The buffers of a stream that has one video queue: what IsysStream does  *)
(* with them, and nothing else.  Message buffers, completions, errors, the *)
(* mutex and the history variable are left out; of a command, of a response*)
(* and of a frame the firmware holds only the buffers are kept; a wait, a  *)
(* check or a command without buffers is a move from one place to the next.*)
(*                                                                         *)
(* IsysStream with one queue implements this specification                 *)
(* (IsysStreamProofs), which is small enough to prove things about         *)
(* (QueueBuffersProofs).  The actions have the names they have there.      *)
(***************************************************************************)
EXTENDS Lists

CONSTANT
    Buffers       \* the queue's videobuf2 buffers

VARIABLES
    vb,           \* state of each buffer
    started,      \* vb2_queue.start_streaming_called
    pc,           \* where the queue's thread is
    incoming, active,     \* the queue's lists, head first
    bl, frame,    \* the buffer list, and the buffers of the message being filled
    joined,       \* the queue is on stream->queues
    streaming,    \* stream->streaming
    ref_count, need_reset,
    cmds, resps,  \* the buffers that the commands and responses on the rings name
    isr,          \* the buffer the interrupt handler took off the active list
    held          \* buffer sets the firmware has accepted, oldest first

listVars == <<incoming, active>>
streamVars == <<joined, streaming>>
callVars == <<bl, frame>>
isysVars == <<ref_count, need_reset>>
linkVars == <<cmds, resps, isr, held>>
vars == <<vb, started, pc, listVars, streamVars, callVars, isysVars, linkVars>>

Init ==
    /\ vb = [b \in Buffers |-> "dequeued"]
    /\ started = FALSE /\ pc = "idle"
    /\ incoming = <<>> /\ active = <<>>
    /\ bl = {} /\ frame = {}
    /\ joined = FALSE /\ streaming = FALSE
    /\ ref_count = 0 /\ need_reset = FALSE
    /\ cmds = <<>> /\ resps = <<>> /\ isr = {} /\ held = <<>>

-----------------------------------------------------------------------------
(* The user.                                                               *)

QBufEarly(b) ==
    /\ pc = "idle" /\ vb[b] = "dequeued" /\ ~started
    /\ vb' = [vb EXCEPT ![b] = "queued"]
    /\ UNCHANGED <<started, pc, listVars, streamVars, callVars, isysVars, linkVars>>

QBuf(b) ==
    /\ pc = "idle" /\ vb[b] = "dequeued" /\ started
    /\ vb' = [vb EXCEPT ![b] = "active"]
    /\ incoming' = SetToSeq({b}) \o incoming
    /\ pc' = "buf_queue"
    /\ UNCHANGED <<started, active, streamVars, callVars, isysVars, linkVars>>

DQBuf(b) ==
    /\ pc = "idle" /\ vb[b] \in {"done", "error"}
    /\ vb' = [vb EXCEPT ![b] = "dequeued"]
    /\ UNCHANGED <<started, pc, listVars, streamVars, callVars, isysVars, linkVars>>

StreamOn ==
    LET given == {b \in Buffers : vb[b] = "queued"} IN
    /\ pc = "idle" /\ ~started /\ given # {}
    /\ \E s \in SetToSeqs(given) : incoming' = Reverse(s) \o incoming
    /\ vb' = [b \in Buffers |-> IF b \in given THEN "active" ELSE vb[b]]
    /\ started' = TRUE /\ pc' = "setup"
    /\ UNCHANGED <<active, streamVars, callVars, isysVars, linkVars>>

StreamOffEarly ==
    /\ pc = "idle" /\ ~started
    /\ vb' = [b \in Buffers |-> "dequeued"]
    /\ UNCHANGED <<started, pc, listVars, streamVars, callVars, isysVars, linkVars>>

-----------------------------------------------------------------------------
(* The thread.                                                             *)

\* Steps that move no buffer: from where to where.
Passes == {
    <<"idle", "stop">>, <<"buf_queue", "idle">>,
    <<"open", "open_wait">>, <<"open", "requeue">>, <<"open_wait", "open_check">>,
    <<"open_wait", "requeue">>, <<"open_check", "requeue">>,
    <<"start_wait", "start_check">>, <<"start_wait", "undo_close">>,
    <<"start_check", "undo_close">>, <<"start_check", "undo_flush">>,
    <<"capture_loop", "idle">>, <<"undo_close", "undo_wait">>,
    <<"undo_close", "requeue">>, <<"undo_wait", "requeue">>,
    <<"undo_flush", "undo_flush_wait">>, <<"undo_flush", "requeue">>,
    <<"undo_flush_wait", "requeue">>,
    <<"stop", "stop_wait">>, <<"stop", "stop_off">>, <<"stop", "stop_end">>,
    <<"stop_wait", "stop_off">>, <<"stop_off", "close_wait">>,
    <<"stop_off", "stop_end">>, <<"close_wait", "stop_end">>,
    <<"stop_cleanup", "stop_return">>}

\* A wait, a check, or a command without buffers, sent if the ring has room.
Pass ==
    /\ <<pc, pc'>> \in Passes
    /\ pc = "idle" => started
    /\ cmds' \in {cmds, Append(cmds, {})}
    /\ UNCHANGED <<vb, started, listVars, streamVars, callVars, isysVars, resps, isr, held>>

\* The oldest incoming buffer is made active, and a message for it prepared.
Load ==
    /\ <<pc, pc'>> \in {<<"buf_queue", "capture">>, <<"capture_loop", "loop_capture">>}
    /\ joined /\ incoming # <<>>
    /\ incoming' = Front(incoming)
    /\ active' = SetToSeq({Last(incoming)}) \o active
    /\ frame' = {Last(incoming)}
    /\ UNCHANGED <<vb, started, streamVars, bl, isysVars, linkVars>>

\* The message is sent, if the ring has room.
Send ==
    /\ <<pc, pc'>> \in {<<"capture", "idle">>, <<"start", "start_wait">>,
                        <<"start", "undo_close">>, <<"loop_capture", "idle">>,
                        <<"loop_capture", "capture_loop">>}
    /\ cmds' \in {cmds, Append(cmds, frame)}
    /\ frame' = {}
    /\ UNCHANGED <<vb, started, listVars, streamVars, bl, isysVars, resps, isr, held>>

\* There is no message buffer: the oldest incoming buffer is dropped, and a
\* start is given up.
Drop ==
    /\ \/ pc = "buf_queue" /\ pc' = "idle" /\ joined' = joined
       \/ pc = "capture_loop" /\ pc' = "unwind" /\ joined' = FALSE
    /\ incoming # <<>>
    /\ incoming' = Front(incoming)
    /\ UNCHANGED <<vb, started, active, streaming, callVars, isysVars, linkVars>>

\* vb2_buffer_done
Done(bufs, state) ==
    vb' = [b \in Buffers |-> IF b \in bufs /\ vb[b] = "active" THEN state ELSE vb[b]]

\* return_buffers; videobuf2 may take back more than the driver returns.
ReturnBuffers(bufs, state) ==
    /\ Done(bufs, state)
    /\ incoming' = <<>> /\ active' = <<>>
    /\ need_reset' = (need_reset \/ active # <<>>)

\* ipu6_isys_fw_get and ipu6_isys_fw_put
FwGet ==
    /\ ref_count' = ref_count + 1
    /\ IF ref_count = 0
       THEN cmds' = <<>> /\ resps' = <<>> /\ held' = <<>>
       ELSE UNCHANGED <<cmds, resps, held>>
FwPut ==
    /\ ref_count' = ref_count - 1
    /\ IF ref_count = 1
       THEN /\ isr = {}
            /\ cmds' = <<>> /\ resps' = <<>> /\ held' = <<>>
            /\ need_reset' = FALSE
       ELSE UNCHANGED <<cmds, resps, held, need_reset>>

Setup ==
    /\ pc = "setup" /\ pc' = "start_streaming"
    /\ FwGet
    /\ UNCHANGED <<vb, started, listVars, streamVars, callVars, need_reset, isr>>

SetupFails ==
    /\ pc = "setup" /\ pc' = "idle"
    /\ ReturnBuffers(ToSet(incoming) \cup ToSet(active), "queued")
    /\ started' = FALSE
    /\ UNCHANGED <<streamVars, callVars, ref_count, linkVars>>

\* The oldest incoming buffer is taken on the list.
StartStreaming ==
    /\ pc = "start_streaming" /\ pc' = "open"
    /\ joined' = TRUE
    /\ incoming # <<>>
    /\ incoming' = Front(incoming)
    /\ bl' = {Last(incoming)}
    /\ UNCHANGED <<vb, started, active, streaming, frame, isysVars, linkVars>>

OpenComplete ==
    /\ pc = "open_check" /\ pc' = "start"
    /\ active' = SetToSeq(bl) \o active
    /\ frame' = bl /\ bl' = {}
    /\ UNCHANGED <<vb, started, incoming, streamVars, isysVars, linkVars>>

Started ==
    /\ pc = "start_check" /\ pc' = "capture_loop"
    /\ streaming' = TRUE
    /\ UNCHANGED <<vb, started, listVars, joined, callVars, isysVars, linkVars>>

\* What was taken on the list goes back to incoming; so does what was active if
\* av->streaming was set, else videobuf2 gets it back.
Requeue ==
    /\ pc = "requeue" /\ pc' = "unwind"
    /\ joined' = FALSE
    /\ \E kept \in BOOLEAN :
        /\ Done(IF kept THEN {} ELSE ToSet(active), "queued")
        /\ incoming' = (IF kept THEN Reverse(active) ELSE <<>>) \o (incoming \o SetToSeq(bl))
    /\ active' = <<>>
    /\ bl' = {}
    /\ UNCHANGED <<started, streaming, frame, isysVars, linkVars>>

Unwind ==
    /\ pc = "unwind" /\ pc' = "unwind_return"
    /\ FwPut
    /\ UNCHANGED <<vb, started, listVars, streamVars, callVars, isr>>

UnwindReturn ==
    /\ pc = "unwind_return" /\ pc' = "idle"
    /\ ReturnBuffers(Buffers, "queued")
    /\ started' = FALSE
    /\ UNCHANGED <<streamVars, callVars, ref_count, linkVars>>

StopEnd ==
    /\ pc = "stop_end" /\ pc' = "stop_cleanup"
    /\ joined' = FALSE /\ streaming' = FALSE
    /\ UNCHANGED <<vb, started, listVars, callVars, isysVars, linkVars>>

StopReturn ==
    /\ pc = "stop_return" /\ pc' = "stop_put"
    /\ ReturnBuffers(ToSet(incoming) \cup ToSet(active), "error")
    /\ UNCHANGED <<started, streamVars, callVars, ref_count, linkVars>>

StopPut ==
    /\ pc = "stop_put" /\ pc' = "idle"
    /\ FwPut
    /\ vb' = [b \in Buffers |-> "dequeued"]
    /\ started' = FALSE
    /\ UNCHANGED <<listVars, streamVars, callVars, isr>>

-----------------------------------------------------------------------------
(* The interrupt handler.                                                  *)

\* A response without a buffer, or whose buffer is no longer active.
IsrDrop ==
    /\ resps # <<>> /\ isr = {}
    /\ resps' = Tail(resps)
    /\ UNCHANGED <<vb, started, pc, listVars, streamVars, callVars, isysVars, cmds, isr, held>>

IsrPinReady ==
    /\ resps # <<>> /\ isr = {}
    /\ \E i \in DOMAIN active :
        /\ active[i] \in Head(resps)
        /\ active' = RemoveAt(active, i)
        /\ isr' = {active[i]}
    /\ UNCHANGED <<vb, started, pc, incoming, streamVars, callVars, isysVars, cmds, resps, held>>

IsrBufDone ==
    /\ isr # {}
    /\ \E state \in {"done", "error"} : Done(isr, state)
    /\ isr' = {}
    /\ resps' = Tail(resps)
    /\ UNCHANGED <<started, pc, listVars, streamVars, callVars, isysVars, cmds, held>>

-----------------------------------------------------------------------------
(* The firmware (external).                                                *)

\* It keeps the buffers of a command, refuses them, or drops all it has.
FwCommand ==
    /\ cmds # <<>>
    /\ held' \in {<<>>, held, Append(held, Head(cmds))}
    /\ resps' = Append(resps, {})
    /\ cmds' = Tail(cmds)
    /\ UNCHANGED <<vb, started, pc, listVars, streamVars, callVars, isysVars, isr>>

FwFrame ==
    /\ held # <<>>
    /\ LET done == SetToSeq(Head(held)) IN
       resps' = resps \o [i \in DOMAIN done |-> {done[i]}]
    /\ held' = Tail(held)
    /\ UNCHANGED <<vb, started, pc, listVars, streamVars, callVars, isysVars, cmds, isr>>

-----------------------------------------------------------------------------
User ==
    \/ \E b \in Buffers : QBufEarly(b) \/ QBuf(b) \/ DQBuf(b)
    \/ StreamOn \/ StreamOffEarly

Thread ==
    \/ Pass \/ Load \/ Send \/ Drop \/ Setup \/ SetupFails \/ StartStreaming
    \/ OpenComplete \/ Started \/ Requeue \/ Unwind \/ UnwindReturn
    \/ StopEnd \/ StopReturn \/ StopPut

Isr == IsrDrop \/ IsrPinReady \/ IsrBufDone
Firmware == FwCommand \/ FwFrame

Next == User \/ Thread \/ Isr \/ Firmware

Spec == Init /\ [][Next]_vars

-----------------------------------------------------------------------------
(* The invariant.                                                          *)

\* A list on which nothing occurs twice.
NoRepeat(s) == \A i, j \in DOMAIN s : s[i] = s[j] => i = j
\* A list of buffers.
List(s) == s \in Seq(Buffers) /\ NoRepeat(s)

\* Queues of buffer sets.
Sets == Seq(SUBSET Buffers)
\* The buffers in a queue, each in one of its sets.
Us(s) == UNION {s[i] : i \in DOMAIN s}
Apart(s) == \A i, j \in DOMAIN s : i # j => s[i] \cap s[j] = {}

\* The queue has its firmware reference.
Holds == started /\ pc \notin {"setup", "unwind_return"}

\* start_stream_firmware before the first capture, with the list in hand ...
Opening == {"open", "open_wait", "open_check"}
\* ... and from there to the end of the start or of its undoing.
Starting == Opening \cup {"start", "start_wait", "start_check", "undo_close",
                          "undo_wait", "undo_flush", "undo_flush_wait", "requeue"}
\* A capture is about to be sent.
Sending == {"capture", "start", "loop_capture"}

TypeInv ==
    /\ DOMAIN vb = Buffers
    /\ bl \subseteq Buffers /\ isr \subseteq Buffers /\ frame \subseteq Buffers
    /\ cmds \in Sets /\ resps \in Sets /\ held \in Sets

\* The queue's firmware reference, without which there is no firmware.
RefInv ==
    /\ ref_count = (IF Holds THEN 1 ELSE 0)
    /\ ~Holds => cmds = <<>> /\ resps = <<>> /\ held = <<>> /\ isr = {}
    /\ pc # "idle" => started
    /\ isr # {} => resps # <<>>

\* Where the thread is says whether the stream has its queue, ...
JoinInv ==
    /\ pc \in Starting \cup {"capture_loop", "loop_capture"} => joined
    /\ joined => streaming \/ pc \in Starting
\* ... and which lists are empty.
ListInv ==
    /\ pc \in {"setup", "start_streaming"} => incoming # <<>>
    /\ ~started \/ pc = "stop_put" => incoming = <<>> /\ active = <<>>
    /\ bl # {} => pc \in Opening \cup {"requeue"}
PlaceInv == RefInv /\ JoinInv /\ ListInv

\* Sets of buffers that have no member in common, all owned by the driver.
Parts(in, act, list, taken, state) ==
    /\ in \cap act = {} /\ in \cap list = {} /\ in \cap taken = {}
    /\ act \cap list = {} /\ act \cap taken = {} /\ list \cap taken = {}
    /\ \A b \in in \cup act \cup list \cup taken : state[b] = "active"
\* A buffer is in one place, and videobuf2 knows that the driver has it.
Owned(in, act, list, taken, state) ==
    List(in) /\ List(act) /\ Parts(ToSet(in), ToSet(act), list, taken, state)
OwnerInv == Owned(incoming, active, bl, isr, vb)

\* What the firmware has been given, and what it has announced.
Given == Us(cmds) \cup Us(held)
Ready == Us(resps)
\* Nothing is under way twice.
Flight(sent, frames, announced) ==
    /\ Apart(sent) /\ Apart(frames) /\ Apart(announced)
    /\ Us(sent) \cap Us(frames) = {} /\ Us(sent) \cap Us(announced) = {}
    /\ Us(frames) \cap Us(announced) = {}
\* A response has at most one buffer, and the interrupt handler has that of the
\* first.
Pins(announced, taken) ==
    /\ \A i \in DOMAIN announced : announced[i] # {} => \E b : announced[i] = {b}
    /\ taken # {} => announced # <<>> /\ announced[1] = taken
\* The firmware has only active buffers, until the driver gives up on it.
Within(place, new, given, ready, act, taken, state) ==
    /\ place \in Sending => new \subseteq act /\ new \cap given = {} /\ new \cap ready = {}
    /\ place # "unwind" => given \subseteq act /\ ready \subseteq act \cup taken
    /\ \A b \in given : state[b] \in {"active", "queued"}
Tracked ==
    /\ Flight(cmds, held, resps) /\ Pins(resps, isr)
    /\ Within(pc, frame, Given, Ready, ToSet(active), isr, vb)
\* All of that, or a reset is due.
KnownInv == need_reset \/ Tracked

Inv == TypeInv /\ PlaceInv /\ OwnerInv /\ KnownInv
=============================================================================
