------------------------------ MODULE IsysPower ------------------------------
(***************************************************************************)
(* The life of the ISYS firmware and of its power: video_open with the     *)
(* silent reset, ipu6_isys_fw_get and ipu6_isys_fw_put, opening and closing *)
(* the syscom context, runtime power management of the ISYS bus device, the*)
(* interrupt handler's use of the context.  (ipu6-isys-video.c,            *)
(* ipu6-isys-queue.c, ipu6-isys.c, ipu6-fw-isys.c, ipu6-fw-com.c,          *)
(* ipu6-bus.c, ipu6-buttress.c.)                                           *)
(*                                                                         *)
(* Processes: one thread per video node, each node with a stream of its    *)
(* own; the runtime-PM core; the interrupt handler; the SP.  A thread that *)
(* finds isys->resetting set sleeps and looks again: that is a guard here. *)
(* A thread that follows a NULL pointer stops at "oops" for good.          *)
(*                                                                         *)
(* A definition marked MISTAKE is a wrong variant of the one below it.     *)
(***************************************************************************)
EXTENDS Naturals, FiniteSets

CONSTANTS
    Nodes,        \* video nodes
    Faults        \* what may go wrong: a subset of FaultKinds

FaultKinds == {"timeout",   \* the SP does not start or stop in time
               "power",     \* a power transition or a resume fails
               "lost",      \* buffers are still active when a stream stops
               "stream",    \* a stream cannot be started or stopped
               "nomem",     \* no memory for the syscom context
               "auth",      \* the firmware is not authenticated
               "force",     \* force_need_reset is set
               "nosilent"}  \* silent_reset_enable is cleared

ASSUME PowerAssumption ==
    IsFiniteSet(Nodes) /\ Nodes # {} /\ Faults \subseteq FaultKinds

VARIABLES
    pc,           \* where each node's thread is
    job,          \* what its firmware open or close is for
    stream,       \* av->stream is set
    streaming,    \* av->streaming
    cut,          \* streams that were running when the firmware was reset for another
    mutex,        \* holder of isys->mutex
    need_reset, resetting, ref_count, power,  \* of struct ipu6_isys
    fwcom,        \* isys->fwcom points to a context
    live,         \* that context's memory is allocated
    target,       \* the node under restart: its stream->mutex is held
    todo,         \* the nodes the restart loop has yet to look at
    restarted, failed,   \* its stream_restarted and ret
    usage, rpm,   \* runtime PM: usage count and state of the device
    idle,         \* runtime PM was asked to suspend it
    sp,           \* the SP
    stale,        \* since power-on, a context was freed while in use
    isr           \* the interrupt handler, under power_lock, uses the context

nodeVars == <<stream, streaming, cut>>
fwVars == <<fwcom, live>>
loopVars == <<target, todo, restarted, failed>>
pmVars == <<usage, rpm, idle>>
spVars == <<sp, stale>>
flagVars == <<need_reset, resetting, ref_count, power>>
allButPc == <<job, nodeVars, mutex, flagVars, fwVars, loopVars, pmVars, spVars, isr>>
vars == <<pc, allButPc>>

OpenSection == {"fw_cleanup", "fw_clear", "fw_prepare", "fw_com_open", "fw_ready"}
CloseSection == {"fw_close", "fw_release"}
RestartSection == {"r_next", "r_lock", "r_off", "r_suspend", "r_clear", "r_power",
                   "r_resume", "r_on", "r_unlock", "r_end"}
PCs == OpenSection \cup CloseSection \cup RestartSection \cup
       {"closed", "opening", "auth", "open", "fw_get", "fw_lock", "start", "running",
        "cleanup", "return", "fw_put", "pm_put", "pm_wait", "unwind", "oops"}

Jobs == {"none", "get", "put", "abort", "stop", "start"}

TypeOK ==
    /\ pc \in [Nodes -> PCs]
    /\ job \in [Nodes -> Jobs]
    /\ stream \in [Nodes -> BOOLEAN] /\ streaming \in [Nodes -> BOOLEAN]
    /\ cut \in SUBSET Nodes
    /\ mutex \in SUBSET Nodes
    /\ need_reset \in BOOLEAN /\ resetting \in BOOLEAN /\ power \in BOOLEAN
    /\ ref_count \in Nat
    /\ fwcom \in BOOLEAN /\ live \in BOOLEAN
    /\ target \in SUBSET Nodes /\ todo \in SUBSET Nodes
    /\ restarted \in BOOLEAN /\ failed \in BOOLEAN
    /\ usage \in Nat
    /\ rpm \in {"suspended", "active", "s_power", "s_clear", "s_off", "error"}
    /\ idle \in BOOLEAN
    /\ sp \in {"off", "idle", "booting", "ready", "stopping"}
    /\ stale \in BOOLEAN /\ isr \in BOOLEAN

Init ==
    /\ pc = [n \in Nodes |-> "closed"] /\ job = [n \in Nodes |-> "none"]
    /\ stream = [n \in Nodes |-> FALSE] /\ streaming = [n \in Nodes |-> FALSE] /\ cut = {}
    /\ mutex = {}
    /\ need_reset = FALSE /\ resetting = FALSE /\ ref_count = 0 /\ power = FALSE
    /\ fwcom = FALSE /\ live = FALSE
    /\ target = {} /\ todo = {} /\ restarted = FALSE /\ failed = FALSE
    /\ usage = 0 /\ rpm = "suspended" /\ idle = FALSE
    /\ sp = "off" /\ stale = FALSE /\ isr = FALSE

Goto(n, l) == pc' = [pc EXCEPT ![n] = l]
May(f) == f \in Faults
JobDone(n) == job' = [job EXCEPT ![n] = "none"]

-----------------------------------------------------------------------------
(* Opening and closing the firmware: ipu6_fw_isys_open, ipu6_fw_isys_close. *)

\* Where a firmware open that failed continues: fw_get gives back its reference
\* and the device, restart_stream fails.
OpenFailed(n) ==
    IF job[n] = "get"
    THEN /\ ref_count' = ref_count - 1 /\ mutex' = {}
         /\ usage' = usage - 1 /\ idle' = (idle \/ usage = 1)
         /\ Goto(n, "unwind")
         /\ UNCHANGED <<failed, rpm>>
    ELSE /\ failed' = TRUE
         /\ Goto(n, "r_unlock")
         /\ UNCHANGED <<ref_count, mutex, pmVars>>

\* A context left over from a failed shutdown is released by force, then the
\* pointer to it cleared.
FwCleanup(n) ==
    /\ pc[n] = "fw_cleanup"
    /\ IF fwcom
       THEN /\ live' = FALSE
            /\ stale' = (stale \/ isr \/ sp \in {"booting", "ready", "stopping"})
            /\ Goto(n, "fw_clear")
       ELSE Goto(n, "fw_prepare") /\ UNCHANGED <<live, stale>>
    /\ UNCHANGED <<job, nodeVars, mutex, flagVars, fwcom, loopVars, pmVars, sp, isr>>

FwClear(n) ==
    /\ pc[n] = "fw_clear"
    /\ fwcom' = FALSE
    /\ Goto(n, "fw_prepare")
    /\ UNCHANGED <<job, nodeVars, mutex, flagVars, live, loopVars, pmVars, spVars, isr>>

FwPrepare(n) ==
    /\ pc[n] = "fw_prepare"
    /\ fwcom' = TRUE /\ live' = TRUE
    /\ Goto(n, "fw_com_open")
    /\ UNCHANGED <<job, nodeVars, mutex, flagVars, loopVars, pmVars, spVars, isr>>

FwPrepareFails(n) ==
    /\ pc[n] = "fw_prepare" /\ May("nomem")
    /\ OpenFailed(n)
    /\ UNCHANGED <<job, nodeVars, need_reset, resetting, power, fwVars, target, todo,
                   restarted, spVars, isr>>

\* ipu6_fw_com_open starts an SP that is powered and at rest, and no other; the
\* context is kept when it does not.
FwComOpen(n) ==
    /\ pc[n] = "fw_com_open" /\ sp = "idle"
    /\ sp' = "booting"
    /\ Goto(n, "fw_ready")
    /\ UNCHANGED <<job, nodeVars, mutex, flagVars, fwVars, loopVars, pmVars, stale, isr>>

FwComOpenFails(n) ==
    /\ pc[n] = "fw_com_open" /\ sp # "idle"
    /\ OpenFailed(n)
    /\ UNCHANGED <<job, nodeVars, need_reset, resetting, power, fwVars, target, todo,
                   restarted, spVars, isr>>

\* The SP reports SYSCOM_STATE_READY: fw_get returns, or restart_stream goes on.
FwReady(n) ==
    /\ pc[n] = "fw_ready" /\ sp = "ready"
    /\ IF job[n] = "get" THEN Goto(n, "start") /\ mutex' = {}
                         ELSE Goto(n, "r_on") /\ UNCHANGED mutex
    /\ JobDone(n)
    /\ UNCHANGED <<nodeVars, flagVars, fwVars, loopVars, pmVars, spVars, isr>>

FwNotReady(n) ==
    /\ pc[n] = "fw_ready" /\ sp # "ready" /\ May("timeout")
    /\ Goto(n, "fw_close")
    /\ UNCHANGED allButPc

\* The close request is made, if the SP is ready for it, and the context taken
\* away from the interrupt handler in one critical section of power_lock.
\* MISTAKE
FwCloseUnlocked(n) ==
    /\ pc[n] = "fw_close" /\ fwcom
    /\ fwcom' = FALSE
    /\ sp' = IF sp = "ready" THEN "stopping" ELSE sp
    /\ Goto(n, "fw_release")
    /\ UNCHANGED <<job, nodeVars, mutex, flagVars, live, loopVars, pmVars, stale, isr>>
FwClose(n) ==
    /\ pc[n] = "fw_close" /\ fwcom /\ ~isr
    /\ fwcom' = FALSE
    /\ sp' = IF sp = "ready" THEN "stopping" ELSE sp
    /\ Goto(n, "fw_release")
    /\ UNCHANGED <<job, nodeVars, mutex, flagVars, live, loopVars, pmVars, stale, isr>>

\* ipu6_fw_com_close of a NULL context.
FwCloseOops(n) ==
    /\ pc[n] = "fw_close" /\ ~fwcom
    /\ Goto(n, "oops")
    /\ UNCHANGED allButPc

\* The context is released once the SP rests, else given back to isys->fwcom.
FwReleased(n) ==
    /\ pc[n] = "fw_release" /\ sp = "idle"
    /\ live' = FALSE
    /\ CASE job[n] \in {"put", "abort"} ->
              /\ mutex' = {} /\ Goto(n, "pm_put")
              /\ UNCHANGED <<ref_count, pmVars, failed>>
         [] job[n] = "stop" ->
              Goto(n, "r_suspend") /\ UNCHANGED <<ref_count, mutex, pmVars, failed>>
         [] OTHER -> OpenFailed(n)
    /\ UNCHANGED <<job, nodeVars, need_reset, resetting, power, fwcom, target, todo,
                   restarted, spVars, isr>>

FwReleaseFails(n) ==
    /\ pc[n] = "fw_release" /\ sp # "idle" /\ May("timeout")
    /\ fwcom' = TRUE
    /\ CASE job[n] \in {"put", "abort"} ->
              /\ need_reset' = TRUE /\ mutex' = {} /\ Goto(n, "pm_put")
              /\ UNCHANGED <<ref_count, pmVars, failed>>
         [] job[n] = "stop" ->
              /\ failed' = TRUE /\ Goto(n, "r_unlock")
              /\ UNCHANGED <<ref_count, mutex, pmVars, need_reset>>
         [] OTHER -> OpenFailed(n) /\ UNCHANGED need_reset
    /\ UNCHANGED <<job, nodeVars, resetting, power, live, target, todo, restarted,
                   spVars, isr>>

FwSection(n) ==
    \/ FwCleanup(n) \/ FwClear(n) \/ FwPrepare(n) \/ FwPrepareFails(n)
    \/ FwComOpen(n) \/ FwComOpenFails(n) \/ FwReady(n) \/ FwNotReady(n)
    \/ FwClose(n) \/ FwCloseOops(n) \/ FwReleased(n) \/ FwReleaseFails(n)

-----------------------------------------------------------------------------
(* Runtime PM of the ISYS device.                                          *)

PmGet(n) ==
    /\ pc[n] = "fw_get" /\ rpm \in {"suspended", "active"}
    /\ usage' = usage + 1 /\ rpm' = "active"
    /\ power' = (power \/ rpm = "suspended")
    /\ sp' = IF rpm = "suspended" THEN "idle" ELSE sp
    /\ Goto(n, "fw_lock")
    /\ UNCHANGED <<job, nodeVars, mutex, need_reset, resetting, ref_count, fwVars, loopVars,
                   idle, stale, isr>>

\* MISTAKE
PmGetFailsPuts(n) ==
    /\ pc[n] = "fw_get"
    /\ \/ rpm = "error" /\ UNCHANGED rpm
       \/ rpm = "suspended" /\ May("power") /\ rpm' \in {"suspended", "error"}
    /\ Goto(n, "fw_put")
    /\ UNCHANGED <<job, nodeVars, mutex, flagVars, fwVars, loopVars, usage, idle, spVars, isr>>
\* The device does not resume; the PM core may then refuse every later resume.
PmGetFails(n) ==
    /\ pc[n] = "fw_get"
    /\ \/ rpm = "error" /\ UNCHANGED rpm
       \/ rpm = "suspended" /\ May("power") /\ rpm' \in {"suspended", "error"}
    /\ Goto(n, "unwind")
    /\ UNCHANGED <<job, nodeVars, mutex, flagVars, fwVars, loopVars, usage, idle, spVars, isr>>

AfterPut(n) == JobDone(n) /\ Goto(n, IF job[n] = "abort" THEN "unwind" ELSE "open")

\* need_reset is read without the mutex: it decides whether fw_put waits for the
\* device to be suspended.
PmPut(n) ==
    /\ pc[n] = "pm_put"
    /\ usage' = usage - 1 /\ idle' = (idle \/ usage = 1)
    /\ IF need_reset THEN Goto(n, "pm_wait") /\ UNCHANGED job ELSE AfterPut(n)
    /\ UNCHANGED <<nodeVars, mutex, flagVars, fwVars, loopVars, rpm, spVars, isr>>

PmPutDone(n) ==
    /\ pc[n] = "pm_wait" /\ ~idle /\ rpm \in {"suspended", "active", "error"}
    /\ AfterPut(n)
    /\ UNCHANGED <<nodeVars, mutex, flagVars, fwVars, loopVars, pmVars, spVars, isr>>

PmIdle ==
    /\ idle
    /\ rpm \in {"suspended", "active", "error"}
    /\ idle' = FALSE
    /\ rpm' = IF rpm = "active" /\ usage = 0 THEN "s_power" ELSE rpm
    /\ UNCHANGED <<pc, job, nodeVars, mutex, flagVars, fwVars, loopVars, usage, spVars, isr>>

\* isys_runtime_pm_suspend, then ipu6_buttress_power.
PmSuspend ==
    /\ rpm = "s_power" /\ ~isr
    /\ power' = FALSE /\ rpm' = "s_clear"
    /\ UNCHANGED <<pc, job, nodeVars, mutex, need_reset, resetting, ref_count, fwVars,
                   loopVars, usage, idle, spVars, isr>>

PmClear ==
    /\ rpm = "s_clear" /\ mutex = {}
    /\ need_reset' = FALSE /\ rpm' = "s_off"
    /\ UNCHANGED <<pc, job, nodeVars, mutex, resetting, ref_count, power, fwVars, loopVars,
                   usage, idle, spVars, isr>>

PmOff ==
    /\ rpm = "s_off"
    /\ sp' = "off" /\ stale' = FALSE /\ rpm' = "suspended"
    /\ UNCHANGED <<pc, job, nodeVars, mutex, flagVars, fwVars, loopVars, usage, idle, isr>>

PmOffFails ==
    /\ rpm = "s_off" /\ May("power")
    /\ power' \in BOOLEAN
    /\ rpm' = IF power' THEN "active" ELSE "error"
    /\ UNCHANGED <<pc, job, nodeVars, mutex, need_reset, resetting, ref_count, fwVars,
                   loopVars, usage, idle, spVars, isr>>

Pm == PmIdle \/ PmSuspend \/ PmClear \/ PmOff \/ PmOffFails

-----------------------------------------------------------------------------
(* The SP and the interrupt handler.                                       *)

SpStep ==
    /\ \/ sp = "booting" /\ sp' = "ready"
       \/ sp = "stopping" /\ sp' = "idle"
    /\ UNCHANGED <<pc, job, nodeVars, mutex, flagVars, fwVars, loopVars, pmVars, stale, isr>>

\* ipu4_isys_isr handles responses under power_lock, for as long as it finds any.
IsrEnter ==
    /\ ~isr /\ power /\ fwcom /\ sp \in {"ready", "stopping"}
    /\ isr' = TRUE
    /\ UNCHANGED <<pc, job, nodeVars, mutex, flagVars, fwVars, loopVars, pmVars, spVars>>

IsrLeave ==
    /\ isr
    /\ isr' = FALSE
    /\ UNCHANGED <<pc, job, nodeVars, mutex, flagVars, fwVars, loopVars, pmVars, spVars>>

-----------------------------------------------------------------------------
(* fw_get, fw_put, starting and stopping a stream.                         *)

\* isys->stream_mutex and the stream->mutex of node n are free.
Restarting == \E r \in Nodes :
    \/ pc[r] \in {"r_off", "r_suspend", "r_clear", "r_power", "r_resume", "r_on"}
    \/ pc[r] \in OpenSection \cup CloseSection /\ job[r] \in {"stop", "start"}
StreamFree(n) == ~Restarting /\ n \notin target

\* Some thread is in the restart section of video_open or has isys->mutex.
MayLock == mutex = {} /\ ~resetting

StreamOn(n) ==
    /\ pc[n] = "open"
    /\ stream' = [stream EXCEPT ![n] = TRUE]
    /\ Goto(n, "fw_get")
    /\ UNCHANGED <<job, streaming, cut, mutex, flagVars, fwVars, loopVars, pmVars, spVars, isr>>

\* MISTAKE
FwGetWhileResetting(n) ==
    /\ pc[n] = "fw_lock" /\ mutex = {}
    /\ ref_count' = ref_count + 1
    /\ IF ref_count = 0
       THEN mutex' = {n} /\ job' = [job EXCEPT ![n] = "get"] /\ Goto(n, "fw_cleanup")
       ELSE Goto(n, "start") /\ UNCHANGED <<mutex, job>>
    /\ UNCHANGED <<nodeVars, need_reset, resetting, power, fwVars, loopVars, pmVars, spVars, isr>>
FwGet(n) ==
    /\ pc[n] = "fw_lock" /\ MayLock
    /\ ref_count' = ref_count + 1
    /\ IF ref_count = 0
       THEN mutex' = {n} /\ job' = [job EXCEPT ![n] = "get"] /\ Goto(n, "fw_cleanup")
       ELSE Goto(n, "start") /\ UNCHANGED <<mutex, job>>
    /\ UNCHANGED <<nodeVars, need_reset, resetting, power, fwVars, loopVars, pmVars, spVars, isr>>

\* ipu6_isys_stream_start, under both stream mutexes.
StartStreaming(n) ==
    /\ pc[n] = "start" /\ StreamFree(n)
    /\ fwcom /\ sp = "ready" /\ power
    /\ streaming' = [streaming EXCEPT ![n] = TRUE] /\ cut' = cut \ {n}
    /\ Goto(n, "running")
    /\ UNCHANGED <<job, stream, mutex, flagVars, fwVars, loopVars, pmVars, spVars, isr>>

StartStreamingFails(n) ==
    /\ pc[n] = "start" /\ StreamFree(n)
    /\ fwcom /\ (May("stream") \/ sp # "ready" \/ ~power)
    /\ job' = [job EXCEPT ![n] = "abort"]
    /\ Goto(n, "fw_put")
    /\ UNCHANGED <<nodeVars, mutex, flagVars, fwVars, loopVars, pmVars, spVars, isr>>

\* A failed start_streaming drops its stream.
Unwind(n) ==
    /\ pc[n] = "unwind"
    /\ stream' = [stream EXCEPT ![n] = FALSE]
    /\ JobDone(n) /\ Goto(n, "open")
    /\ UNCHANGED <<streaming, cut, mutex, flagVars, fwVars, loopVars, pmVars, spVars, isr>>

\* stop_streaming: av->streaming stays set when the sub-device does not stop.
StopStreaming(n) ==
    /\ pc[n] = "running" /\ StreamFree(n)
    /\ fwcom
    /\ \/ streaming' = [streaming EXCEPT ![n] = FALSE]
       \/ May("stream") /\ UNCHANGED streaming
    /\ Goto(n, "cleanup")
    /\ UNCHANGED <<job, stream, cut, mutex, flagVars, fwVars, loopVars, pmVars, spVars, isr>>

\* A command to the firmware through a NULL context: those of a start, and of a
\* stop or the buffers that are queued.
StartOops(n) ==
    /\ pc[n] = "start" /\ StreamFree(n) /\ ~fwcom
    /\ Goto(n, "oops")
    /\ UNCHANGED allButPc

CommandOops(n) ==
    /\ pc[n] = "running" /\ n \notin target /\ ~fwcom
    /\ Goto(n, "oops")
    /\ UNCHANGED allButPc

StreamCleanup(n) ==
    /\ pc[n] = "cleanup"
    /\ stream' = [stream EXCEPT ![n] = FALSE]
    /\ Goto(n, "return")
    /\ UNCHANGED <<job, streaming, cut, mutex, flagVars, fwVars, loopVars, pmVars, spVars, isr>>

\* Buffers that the firmware did not return ask for a reset.
ReturnBuffers(n) ==
    /\ pc[n] = "return"
    /\ \/ UNCHANGED need_reset
       \/ May("lost") /\ mutex = {} /\ need_reset' = TRUE
    /\ job' = [job EXCEPT ![n] = "put"]
    /\ Goto(n, "fw_put")
    /\ UNCHANGED <<nodeVars, mutex, resetting, ref_count, power, fwVars, loopVars, pmVars,
                   spVars, isr>>

\* MISTAKE
FwPutAlwaysCloses(n) ==
    /\ pc[n] = "fw_put" /\ MayLock
    /\ ref_count' = ref_count - 1
    /\ mutex' = {n} /\ Goto(n, "fw_close")
    /\ UNCHANGED <<job, nodeVars, need_reset, resetting, power, fwVars, loopVars, pmVars,
                   spVars, isr>>
FwPut(n) ==
    /\ pc[n] = "fw_put" /\ MayLock
    /\ ref_count' = ref_count - 1
    /\ IF ref_count = 1 THEN mutex' = {n} /\ Goto(n, "fw_close")
                        ELSE Goto(n, "pm_put") /\ UNCHANGED mutex
    /\ UNCHANGED <<job, nodeVars, need_reset, resetting, power, fwVars, loopVars, pmVars,
                   spVars, isr>>

-----------------------------------------------------------------------------
(* video_open and the restart of the other streams.                        *)

Open(n) ==
    /\ pc[n] = "closed"
    /\ Goto(n, "opening")
    /\ UNCHANGED allButPc

VideoOpen(n) ==
    /\ pc[n] = "opening" /\ MayLock /\ ~need_reset
    /\ Goto(n, "auth")
    /\ UNCHANGED allButPc

VideoOpenRefused(n) ==
    /\ pc[n] = "opening" /\ MayLock /\ (need_reset \/ May("force")) /\ May("nosilent")
    /\ Goto(n, "closed")
    /\ UNCHANGED allButPc

VideoOpenResets(n) ==
    /\ pc[n] = "opening" /\ MayLock /\ (need_reset \/ May("force"))
    /\ resetting' = TRUE
    /\ todo' = Nodes \ {n} /\ restarted' = FALSE /\ failed' = FALSE
    /\ Goto(n, "r_next")
    /\ UNCHANGED <<job, nodeVars, mutex, need_reset, ref_count, power, fwVars, target, pmVars,
                   spVars, isr>>

\* ipu6_isys_queue_restart_streams looks at the next node without a lock.
RestartNext(n) ==
    /\ pc[n] = "r_next"
    /\ IF failed \/ todo = {}
       THEN Goto(n, "r_end") /\ UNCHANGED <<todo, target>>
       ELSE \E m \in todo :
              /\ todo' = todo \ {m}
              /\ target' = IF stream[m] THEN {m} ELSE {}
              /\ Goto(n, IF stream[m] THEN "r_lock" ELSE "r_next")
    /\ UNCHANGED <<job, nodeVars, mutex, flagVars, fwVars, restarted, failed, pmVars, spVars,
                   isr>>

\* The build may load other_av->stream once or twice before it locks the mutex.
RestartLock(n) ==
    /\ pc[n] = "r_lock"
    /\ \E m \in target :
         \/ /\ Goto(n, IF streaming[m] /\ ~restarted THEN "r_off" ELSE "r_unlock")
            /\ restarted' = (restarted \/ streaming[m])
         \/ ~stream[m] /\ Goto(n, "oops") /\ UNCHANGED restarted
    /\ UNCHANGED <<job, nodeVars, mutex, flagVars, fwVars, target, todo, failed, pmVars, spVars,
                   isr>>

RestartOff(n) ==
    /\ pc[n] = "r_off"
    /\ \E m \in target :
         /\ stream[m] /\ fwcom
         /\ streaming' = [streaming EXCEPT ![m] = FALSE]
         /\ cut' = cut \cup {k \in Nodes : k # m /\ pc[k] = "running" /\ streaming[k]}
    /\ job' = [job EXCEPT ![n] = "stop"]
    /\ Goto(n, "fw_close")
    /\ UNCHANGED <<stream, mutex, flagVars, fwVars, loopVars, pmVars, spVars, isr>>

\* restart_stream gives up: the buffers do not come back, or the sub-device does
\* not stop.
RestartOffFails(n) ==
    /\ pc[n] = "r_off" /\ \E m \in target : stream[m]
    /\ May("lost") \/ (May("stream") /\ fwcom)
    /\ failed' = TRUE
    /\ Goto(n, "r_unlock")
    /\ UNCHANGED <<job, nodeVars, mutex, flagVars, fwVars, target, todo, restarted, pmVars,
                   spVars, isr>>

RestartOops(n) ==
    /\ \/ pc[n] = "r_off" /\ (~fwcom \/ \E m \in target : ~stream[m])
       \/ pc[n] = "r_unlock" /\ \E m \in target : ~stream[m]
    /\ Goto(n, "oops")
    /\ UNCHANGED allButPc

\* ipu6_bus_reset_device: suspend and resume past the PM core.
ResetSuspend(n) ==
    /\ pc[n] = "r_suspend" /\ ~isr
    /\ power' = FALSE
    /\ Goto(n, "r_clear")
    /\ UNCHANGED <<job, nodeVars, mutex, need_reset, resetting, ref_count, fwVars, loopVars,
                   pmVars, spVars, isr>>

ResetClear(n) ==
    /\ pc[n] = "r_clear" /\ mutex = {}
    /\ need_reset' = FALSE
    /\ Goto(n, "r_power")
    /\ UNCHANGED <<job, nodeVars, mutex, resetting, ref_count, power, fwVars, loopVars, pmVars,
                   spVars, isr>>

ResetOff(n) ==
    /\ pc[n] = "r_power"
    /\ sp' = "off" /\ stale' = FALSE
    /\ Goto(n, "r_resume")
    /\ UNCHANGED <<job, nodeVars, mutex, flagVars, fwVars, loopVars, pmVars, isr>>

ResetOn(n) ==
    /\ pc[n] = "r_resume"
    /\ sp' = "idle" /\ power' = TRUE
    /\ job' = [job EXCEPT ![n] = "start"]
    /\ Goto(n, "fw_cleanup")
    /\ UNCHANGED <<nodeVars, mutex, need_reset, resetting, ref_count, fwVars, loopVars, pmVars,
                   stale, isr>>

\* A failed power down is followed by a resume, which may fail too.
ResetFails(n) ==
    /\ May("power")
    /\ \/ pc[n] = "r_power" /\ power' \in BOOLEAN
       \/ pc[n] = "r_resume" /\ UNCHANGED power
    /\ failed' = TRUE
    /\ Goto(n, "r_unlock")
    /\ UNCHANGED <<job, nodeVars, mutex, need_reset, resetting, ref_count, fwVars, target, todo,
                   restarted, pmVars, spVars, isr>>

RestartOn(n) ==
    /\ pc[n] = "r_on"
    /\ \E m \in target :
         streaming' = [streaming EXCEPT ![m] = TRUE] /\ cut' = cut \ {m}
    /\ Goto(n, "r_unlock")
    /\ UNCHANGED <<job, stream, mutex, flagVars, fwVars, loopVars, pmVars, spVars, isr>>

RestartOnFails(n) ==
    /\ pc[n] = "r_on" /\ May("stream")
    /\ failed' = TRUE
    /\ Goto(n, "r_unlock")
    /\ UNCHANGED <<job, nodeVars, mutex, flagVars, fwVars, target, todo, restarted, pmVars,
                   spVars, isr>>

RestartUnlock(n) ==
    /\ pc[n] = "r_unlock" /\ \A m \in target : stream[m]
    /\ target' = {}
    /\ JobDone(n) /\ Goto(n, "r_next")
    /\ UNCHANGED <<nodeVars, mutex, flagVars, fwVars, todo, restarted, failed, pmVars,
                   spVars, isr>>

\* MISTAKE
RestartEndKeepsResetting(n) ==
    /\ pc[n] = "r_end" /\ mutex = {}
    /\ resetting' = ~failed /\ todo' = {}
    /\ Goto(n, IF failed THEN "closed" ELSE "auth")
    /\ UNCHANGED <<job, nodeVars, mutex, need_reset, ref_count, power, fwVars, target,
                   restarted, failed, pmVars, spVars, isr>>
RestartEnd(n) ==
    /\ pc[n] = "r_end" /\ mutex = {}
    /\ resetting' = FALSE /\ todo' = {} /\ restarted' = FALSE /\ failed' = FALSE
    /\ Goto(n, IF failed THEN "closed" ELSE "auth")
    /\ UNCHANGED <<job, nodeVars, mutex, need_reset, ref_count, power, fwVars, target, pmVars,
                   spVars, isr>>

Authenticate(n) ==
    /\ pc[n] = "auth"
    /\ \/ Goto(n, "open")
       \/ May("auth") /\ Goto(n, "closed")
    /\ UNCHANGED allButPc

Close(n) ==
    /\ pc[n] = "open"
    /\ Goto(n, "closed")
    /\ UNCHANGED allButPc

-----------------------------------------------------------------------------
\* What the user does of their own accord.
User(n) == Open(n) \/ StreamOn(n) \/ StopStreaming(n) \/ CommandOops(n) \/ Close(n)

\* The steps of a call in progress.
Call(n) ==
    \/ FwSection(n)
    \/ PmGet(n) \/ PmGetFails(n) \/ PmPut(n) \/ PmPutDone(n)
    \/ FwGet(n) \/ StartStreaming(n) \/ StartStreamingFails(n) \/ StartOops(n)
    \/ Unwind(n) \/ StreamCleanup(n) \/ ReturnBuffers(n) \/ FwPut(n)
    \/ VideoOpen(n) \/ VideoOpenRefused(n) \/ VideoOpenResets(n)
    \/ RestartNext(n) \/ RestartLock(n) \/ RestartOff(n) \/ RestartOffFails(n)
    \/ RestartOops(n) \/ ResetSuspend(n) \/ ResetClear(n) \/ ResetOff(n)
    \/ ResetOn(n) \/ ResetFails(n) \/ RestartOn(n) \/ RestartOnFails(n)
    \/ RestartUnlock(n) \/ RestartEnd(n) \/ Authenticate(n)

Oopsed == \E n \in Nodes : pc[n] = "oops"

\* An oops ends the story.
Halted == Oopsed /\ UNCHANGED vars

Next ==
    \/ Halted
    \/ /\ ~Oopsed
       /\ \/ \E n \in Nodes : User(n) \/ Call(n)
          \/ Pm \/ SpStep \/ IsrEnter \/ IsrLeave

\* A call, or the PM work, that can go on time and again does: the kernel's
\* mutexes hand over to a waiter that is starved, its spinlocks are queued.  The
\* SP and the interrupt handler make progress.
Fairness ==
    /\ \A n \in Nodes : SF_vars(~Oopsed /\ Call(n))
    /\ SF_vars(~Oopsed /\ Pm) /\ WF_vars(~Oopsed /\ SpStep)
    /\ WF_vars(~Oopsed /\ IsrLeave)

Spec == Init /\ [][Next]_vars /\ Fairness

-----------------------------------------------------------------------------
\* A thread in the firmware section holds isys->mutex, or works for the one
\* restart that isys->resetting announces.
Owner(n) == pc[n] \in OpenSection \cup CloseSection /\ job[n] \in {"get", "put", "abort"}
Resetter(n) ==
    \/ pc[n] \in RestartSection
    \/ pc[n] \in OpenSection \cup CloseSection /\ job[n] \in {"stop", "start"}

\* The inductive strengthening of OneFwOwner: who may be in the section, and that
\* the flag and the mutex exclude each other.
OwnerInv ==
    /\ pc \in [Nodes -> PCs] /\ job \in [Nodes -> Jobs]
    /\ \A n \in Nodes :
         /\ pc[n] \in OpenSection => job[n] \in {"get", "start"}
         /\ pc[n] \in CloseSection => job[n] # "none"
         /\ pc[n] = "fw_put" => job[n] \in {"put", "abort"}
         /\ Owner(n) => mutex = {n}
         /\ Resetter(n) => resetting
    /\ \A m, n \in Nodes : Resetter(m) /\ Resetter(n) => m = n
    /\ resetting => mutex = {}

\* At most one thread at a time opens, closes or power-cycles the firmware:
\* fw_get and fw_put do it under isys->mutex, restart_stream without it, on the
\* strength of isys->resetting (the lockdep assertions of ipu6_fw_isys_open and
\* ipu6_fw_isys_close are switched off by it).
FwBusy == OpenSection \cup CloseSection \cup {"r_suspend", "r_clear", "r_power", "r_resume"}
OneFwOwner ==
    \A m, n \in Nodes : pc[m] \in FwBusy /\ pc[n] \in FwBusy => m = n

\* A node that streams has the firmware running, its context and its power: no
\* fw_put, failed fw_get, runtime suspend or restart takes them away.  The one
\* exception is the driver's own: of several streams a reset restarts one
\* ("Restarting > one stream not supported!").
FirmwareServes ==
    \A n \in Nodes : pc[n] = "running" /\ streaming[n] /\ n \notin cut =>
        fwcom /\ live /\ power /\ sp = "ready"

\* The interrupt handler's context is not freed under its feet, but for the
\* forced release of ipu6_fw_isys_cleanup, which does not take power_lock.
IsrContextLive ==
    isr /\ ~live => stale

\* A context released by force is used by nobody: ipu6_fw_isys_open says that
\* it can be deleted safely, as the ISYS is being restarted.
ForcedReleaseSafe == ~stale

\* Every call into the driver returns, unless the kernel oopses: the mutex, the
\* wait for a reset to end, the synchronous suspend of fw_put, which takes the
\* mutex, and the waits for the SP never hold each other up.
Resting == {"closed", "open", "running"}
CallsReturn ==
    \A n \in Nodes : []<>(pc[n] \in Resting \/ Oopsed)
=============================================================================
