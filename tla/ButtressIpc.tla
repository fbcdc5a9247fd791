----------------------------- MODULE ButtressIpc -----------------------------
(***************************************************************************)
(* Authentication of the firmware in secure mode: the mailboxes between    *)
(* the IPU and the CSE (the security engine, external), the interrupt      *)
(* handler that empties them, ipu6_buttress_authenticate with its timeouts *)
(* and its retry, the IPC reset protocol, and the runtime PM, system sleep *)
(* and PCI reset callbacks that disturb them.  (ipu6-buttress.c, ipu6.c.)  *)
(*                                                                         *)
(* Callers are the threads in video_open, probe or system resume.          *)
(* auth_mutex lets one of them in, so its locals are single variables.     *)
(*                                                                         *)
(* Waits end early, the CSE refuses, power or the device are lost at most  *)
(* MaxDisturbances times; a wait for something that cannot come any more   *)
(* always ends.                                                            *)
(*                                                                         *)
(* A definition marked MISTAKE is a wrong variant of the one below it.     *)
(***************************************************************************)
EXTENDS Naturals

CONSTANTS Callers, MaxDisturbances

ASSUME IpcAssumption == Callers # {} /\ MaxDisturbances \in Nat

VARIABLES
    pc, result,     \* each caller, and what its last call returned
    auth_mutex,
    step, retry,    \* the command being sent, the retries left
    send_complete, recv_complete, recv_data,    \* struct ipu6_buttress_ipc
    refs,           \* callers that keep the device active
    rpm, reset,     \* runtime PM state; where ipu6_buttress_ipc_reset is
    need_ipc_reset,
    pci,            \* a PCI reset is under way
    \* registers
    db0_out, data0_out, db0_in, data0_in,   \* doorbells and their data
    csr_in, csr_out,    \* handshake bits, each cleared by its reader
    irq,            \* ISR_STATUS
    security,       \* SECURITY_CTL
    magic,          \* the bootloader has left its magic number
    isr, irq_status,    \* the interrupt handler and the status it read
    link, job, resp,    \* the CSE: IPC is up, command at work, answer due
    \* history
    disturbances,
    discarded,      \* an interrupt was cleared with an answer in the mailbox
    unreset         \* the last IPC reset failed

callVars == <<step, retry>>
ipcVars == <<send_complete, recv_complete, recv_data>>
pmVars == <<rpm, reset, need_ipc_reset, pci>>
boxVars == <<db0_out, data0_out, db0_in, data0_in>>
csrVars == <<csr_in, csr_out>>
authVars == <<security, magic>>
isrVars == <<isr, irq_status>>
cseVars == <<link, job, resp>>
histVars == <<discarded, unreset>>
hwVars == <<boxVars, csrVars, irq, authVars, cseVars>>
vars == <<pc, result, auth_mutex, callVars, ipcVars, refs, pmVars, hwVars, isrVars,
          disturbances, histVars>>

Commands == {"BOOT_LOAD", "AUTH_RUN"}
Answers == Commands \cup {"NACK"}     \* BOOT_LOAD stands for BOOT_LOAD_DONE
Sending == {"ack", "send", "ring", "wait_send", "wait_recv", "check_recv"}
PCs == Sending \cup {"idle", "lock", "resume", "check", "open", "poll", "magic", "put"}

\* After ipu6_buttress_init.
Init ==
    /\ pc = [c \in Callers |-> "idle"] /\ result = [c \in Callers |-> "none"]
    /\ auth_mutex = {} /\ step = "BOOT_LOAD" /\ retry = 0
    /\ send_complete = 0 /\ recv_complete = 0 /\ recv_data = "other"
    /\ refs = {} /\ rpm = "active" /\ reset = "none"
    /\ need_ipc_reset = FALSE /\ pci = "idle"
    /\ db0_out = FALSE /\ data0_out = "other"
    /\ db0_in = FALSE /\ data0_in = "other"
    /\ csr_in = {} /\ csr_out = {} /\ irq = {}
    /\ security = "reset" /\ magic = FALSE
    /\ isr = "idle" /\ irq_status = {}
    /\ link = TRUE /\ job = "none" /\ resp = "none"
    /\ disturbances = 0 /\ discarded = FALSE /\ unreset = FALSE

Goto(c, l) == pc' = [pc EXCEPT ![c] = l]
Return(c, r) == result' = [result EXCEPT ![c] = r]

Disturb == disturbances < MaxDisturbances /\ disturbances' = disturbances + 1

\* Nothing that a wait could be for is going to happen.
Quiet ==
    /\ csr_out = {} /\ job = "none"
    /\ ~(link /\ db0_out /\ resp = "none") /\ ~(resp # "none" /\ ~db0_in)
    /\ irq = {} /\ isr = "idle" /\ pci = "idle"
Expire == (Disturb \/ (Quiet /\ UNCHANGED disturbances)) /\ UNCHANGED histVars

-----------------------------------------------------------------------------
(* ipu6_buttress_authenticate and ipu6_buttress_ipc_send_bulk.             *)

Authenticate(c) ==
    /\ pc[c] = "idle"
    /\ Return(c, "none") /\ Goto(c, "lock")
    /\ UNCHANGED <<auth_mutex, callVars, ipcVars, refs, pmVars, hwVars, isrVars,
                   disturbances, histVars>>

Lock(c) ==
    /\ pc[c] = "lock" /\ auth_mutex = {}
    /\ auth_mutex' = {c} /\ Goto(c, "resume")
    /\ UNCHANGED <<result, callVars, ipcVars, refs, pmVars, hwVars, isrVars,
                   disturbances, histVars>>

\* MISTAKE
ResumeWithoutGet(c) ==
    /\ pc[c] = "resume" /\ rpm = "active"
    /\ Goto(c, "check")
    /\ UNCHANGED <<result, auth_mutex, callVars, ipcVars, refs, pmVars, hwVars, isrVars,
                   disturbances, histVars>>
Resume(c) ==
    /\ pc[c] = "resume" /\ rpm = "active"
    /\ refs' = refs \cup {c} /\ Goto(c, "check")
    /\ UNCHANGED <<result, auth_mutex, callVars, ipcVars, pmVars, hwVars, isrVars,
                   disturbances, histVars>>

ResumeFails(c) ==
    /\ pc[c] = "resume" /\ rpm = "suspended"
    /\ Disturb
    /\ auth_mutex' = {} /\ Return(c, "error") /\ Goto(c, "idle")
    /\ UNCHANGED <<callVars, ipcVars, refs, pmVars, hwVars, isrVars, histVars>>

\* ipu6_buttress_auth_done
CheckDone(c) ==
    /\ pc[c] = "check"
    /\ IF security = "auth_done"
       THEN Return(c, "ok") /\ Goto(c, "put") /\ UNCHANGED step
       ELSE step' = "BOOT_LOAD" /\ Goto(c, "open") /\ UNCHANGED result
    /\ UNCHANGED <<auth_mutex, retry, ipcVars, refs, pmVars, hwVars, isrVars,
                   disturbances, histVars>>

\* ipc_mutex is held from here to the end of send_bulk, and by ipc_reset.
IpcFree == reset \notin {"loop", "check"} /\ \A c \in Callers : pc[c] \notin Sending

ValidityOpen(c) ==
    /\ pc[c] = "open" /\ IpcFree
    /\ csr_out' = csr_out \cup {"ASSERTED"} /\ Goto(c, "ack")
    /\ UNCHANGED <<result, auth_mutex, callVars, ipcVars, refs, pmVars, boxVars, csr_in,
                   irq, authVars, cseVars, isrVars, disturbances, histVars>>

\* The bit may be left from an earlier call: only an IPC reset clears it.
Acked(c) ==
    /\ pc[c] = "ack" /\ "ACKED" \in csr_in
    /\ retry' = 1 /\ Goto(c, "send")
    /\ UNCHANGED <<result, auth_mutex, step, ipcVars, refs, pmVars, hwVars, isrVars,
                   disturbances, histVars>>

\* The command's data, then its doorbell.
Send(c) ==
    /\ pc[c] = "send"
    /\ send_complete' = 0 /\ recv_complete' = 0
    /\ data0_out' = step
    /\ Goto(c, "ring")
    /\ UNCHANGED <<result, auth_mutex, callVars, recv_data, refs, pmVars, db0_out, db0_in,
                   data0_in, csrVars, irq, authVars, cseVars, isrVars, disturbances, histVars>>

Ring(c) ==
    /\ pc[c] = "ring"
    /\ db0_out' = TRUE
    /\ Goto(c, "wait_send")
    /\ UNCHANGED <<result, auth_mutex, callVars, ipcVars, refs, pmVars, data0_out, db0_in,
                   data0_in, csrVars, irq, authVars, cseVars, isrVars, disturbances, histVars>>

Sent(c) ==
    /\ pc[c] = "wait_send" /\ send_complete > 0
    /\ send_complete' = send_complete - 1
    /\ retry' = 1 /\ Goto(c, "wait_recv")
    /\ UNCHANGED <<result, auth_mutex, step, recv_complete, recv_data, refs, pmVars, hwVars,
                   isrVars, disturbances, histVars>>

\* MISTAKE
SendAgainForever(c) ==
    /\ pc[c] = "wait_send" /\ send_complete = 0 /\ retry > 0
    /\ Expire
    /\ db0_out' = FALSE /\ Goto(c, "send")
    /\ UNCHANGED <<result, auth_mutex, callVars, ipcVars, refs, pmVars, data0_out, db0_in,
                   data0_in, csrVars, irq, authVars, cseVars, isrVars>>
\* The first time the doorbell is taken back and the command sent again.
SendAgain(c) ==
    /\ pc[c] = "wait_send" /\ send_complete = 0 /\ retry > 0
    /\ Expire
    /\ retry' = retry - 1 /\ db0_out' = FALSE /\ Goto(c, "send")
    /\ UNCHANGED <<result, auth_mutex, step, ipcVars, refs, pmVars, data0_out, db0_in,
                   data0_in, csrVars, irq, authVars, cseVars, isrVars>>

Received(c) ==
    /\ pc[c] = "wait_recv" /\ recv_complete > 0
    /\ recv_complete' = recv_complete - 1
    /\ Goto(c, "check_recv")
    /\ UNCHANGED <<result, auth_mutex, callVars, send_complete, recv_data, refs, pmVars,
                   hwVars, isrVars, disturbances, histVars>>

\* recv_data is compared without a lock against the interrupt handler.
Accepted(c) ==
    /\ pc[c] = "check_recv" /\ recv_data = step
    /\ csr_out' = csr_out \cup {"DEASSERTED"} /\ Goto(c, "poll")
    /\ UNCHANGED <<result, auth_mutex, callVars, ipcVars, refs, pmVars, boxVars, csr_in,
                   irq, authVars, cseVars, isrVars, disturbances, histVars>>

\* No validity, no answer in time, or not the expected one: the doorbell stays
\* as it is.
SendFails(c) ==
    /\ \/ pc[c] = "ack" /\ "ACKED" \notin csr_in /\ Expire
       \/ pc[c] = "wait_send" /\ send_complete = 0 /\ retry = 0 /\ Expire
       \/ pc[c] = "wait_recv" /\ recv_complete = 0 /\ Expire
       \/ pc[c] = "check_recv" /\ recv_data # step /\ UNCHANGED <<disturbances, histVars>>
    /\ csr_out' = csr_out \cup {"DEASSERTED"}
    /\ Return(c, "error") /\ Goto(c, "put")
    /\ UNCHANGED <<auth_mutex, callVars, ipcVars, refs, pmVars, boxVars, csr_in, irq,
                   authVars, cseVars, isrVars>>

\* SECURITY_CTL reports the end of the command.
Polled(c) ==
    /\ pc[c] = "poll"
    /\ \/ /\ step = "BOOT_LOAD" /\ security = "setup_done"
          /\ Goto(c, "magic") /\ UNCHANGED result
       \/ /\ step = "AUTH_RUN" /\ security = "auth_done"
          /\ Return(c, "ok") /\ Goto(c, "put")
       \/ security = "failed" /\ Return(c, "error") /\ Goto(c, "put")
    /\ UNCHANGED <<auth_mutex, callVars, ipcVars, refs, pmVars, hwVars, isrVars,
                   disturbances, histVars>>

Booted(c) ==
    /\ pc[c] = "magic" /\ magic
    /\ step' = "AUTH_RUN" /\ Goto(c, "open")
    /\ UNCHANGED <<result, auth_mutex, retry, ipcVars, refs, pmVars, hwVars, isrVars,
                   disturbances, histVars>>

PollFails(c) ==
    /\ \/ /\ pc[c] = "poll"
          /\ security \notin {"failed", IF step = "AUTH_RUN" THEN "auth_done" ELSE "setup_done"}
       \/ pc[c] = "magic" /\ ~magic
    /\ Expire
    /\ Return(c, "error") /\ Goto(c, "put")
    /\ UNCHANGED <<auth_mutex, callVars, ipcVars, refs, pmVars, hwVars, isrVars>>

Put(c) ==
    /\ pc[c] = "put"
    /\ refs' = refs \ {c} /\ auth_mutex' = {} /\ Goto(c, "idle")
    /\ UNCHANGED <<result, callVars, ipcVars, pmVars, hwVars, isrVars, disturbances, histVars>>

Call(c) ==
    \/ Lock(c) \/ Resume(c) \/ ResumeFails(c) \/ CheckDone(c)
    \/ ValidityOpen(c) \/ Acked(c) \/ Send(c) \/ Ring(c) \/ Sent(c) \/ SendAgain(c)
    \/ Received(c) \/ Accepted(c) \/ SendFails(c)
    \/ Polled(c) \/ Booted(c) \/ PollFails(c) \/ Put(c)

-----------------------------------------------------------------------------
(* ipu6_buttress_isr: the status is read, cleared, and then acted upon.    *)
(* It runs only on an active device, and keeps it so.                      *)

IsrEnter ==
    /\ isr = "idle" /\ rpm = "active" /\ irq # {}
    /\ irq_status' = irq /\ isr' = "clear"
    /\ UNCHANGED <<pc, result, auth_mutex, callVars, ipcVars, refs, pmVars, hwVars,
                   disturbances, histVars>>

\* MISTAKE
IsrClearAll ==
    /\ isr = "clear"
    /\ irq' = {} /\ isr' = "handle"
    /\ UNCHANGED <<pc, result, auth_mutex, callVars, ipcVars, refs, pmVars, boxVars, csrVars,
                   authVars, cseVars, irq_status, disturbances, histVars>>
IsrClear ==
    /\ isr = "clear"
    /\ irq' = irq \ irq_status /\ isr' = "handle"
    /\ UNCHANGED <<pc, result, auth_mutex, callVars, ipcVars, refs, pmVars, boxVars, csrVars,
                   authVars, cseVars, irq_status, disturbances, histVars>>

\* ipu6_buttress_ipc_recv and the completions; then the status is read again.
IsrHandle ==
    /\ isr = "handle"
    /\ IF "recv" \in irq_status
       THEN recv_data' = data0_in /\ db0_in' = FALSE /\ recv_complete' = recv_complete + 1
       ELSE UNCHANGED <<recv_data, db0_in, recv_complete>>
    /\ send_complete' = send_complete + (IF "done" \in irq_status THEN 1 ELSE 0)
    /\ irq_status' = irq /\ isr' = IF irq = {} THEN "idle" ELSE "clear"
    /\ UNCHANGED <<pc, result, auth_mutex, callVars, refs, pmVars, db0_out, data0_out, data0_in,
                   csrVars, irq, authVars, cseVars, disturbances, histVars>>

Isr == IsrEnter \/ IsrClear \/ IsrHandle

-----------------------------------------------------------------------------
(* Power management, and ipu6_buttress_ipc_reset while the device resumes. *)

\* ipu6_buttress_restore
Restore ==
    /\ irq' = {}
    /\ discarded' = (discarded \/ db0_in)

\* The device has lost its state.
Wiped ==
    /\ db0_out' = FALSE /\ data0_out' = "other" /\ db0_in' = FALSE /\ data0_in' = "other"
    /\ csr_in' = {} /\ csr_out' = {}
    /\ security' = "reset" /\ magic' = FALSE
    /\ link' = FALSE /\ job' = "none" /\ resp' = "none"

Suspend ==
    /\ rpm = "active" /\ refs = {} /\ isr = "idle" /\ pci = "idle"
    /\ rpm' = "suspended"
    /\ UNCHANGED <<pc, result, auth_mutex, callVars, ipcVars, refs, reset, need_ipc_reset, pci,
                   hwVars, isrVars, disturbances, histVars>>

\* ipu6_runtime_resume: need_ipc_reset is cleared whether the reset succeeds or
\* not.
RuntimeResume ==
    /\ rpm = "suspended"
    /\ Restore
    /\ IF need_ipc_reset THEN rpm' = "resuming" /\ reset' = "begin"
                         ELSE rpm' = "active" /\ UNCHANGED reset
    /\ need_ipc_reset' = FALSE
    /\ UNCHANGED <<pc, result, auth_mutex, callVars, ipcVars, refs, pci, boxVars, csrVars,
                   authVars, cseVars, isrVars, disturbances, unreset>>

\* System sleep, with or without loss of power, and ipu6_resume up to its
\* authentication.
SystemSleep ==
    /\ \A c \in Callers : pc[c] = "idle"
    /\ rpm # "resuming" /\ isr = "idle" /\ pci = "idle"
    /\ Disturb
    /\ \/ Wiped /\ irq' = {} /\ discarded' = FALSE
       \/ Restore /\ UNCHANGED <<boxVars, csrVars, authVars, cseVars>>
    /\ rpm' = "resuming" /\ reset' = "begin"
    /\ UNCHANGED <<pc, result, auth_mutex, callVars, ipcVars, refs, need_ipc_reset, pci,
                   isrVars, unreset>>

\* All bits that are set are cleared, and phase 1 is announced.
ResetBegin ==
    /\ reset = "begin" /\ IpcFree
    /\ csr_in' = {} /\ csr_out' = csr_out \cup {"ENTRY"}
    /\ reset' = "loop"
    /\ UNCHANGED <<pc, result, auth_mutex, callVars, ipcVars, refs, rpm, need_ipc_reset, pci,
                   boxVars, irq, authVars, cseVars, isrVars, disturbances, histVars>>

\* A turn of the loop that answers the CSE.
ResetTurn ==
    /\ reset = "loop"
    /\ \/ /\ csr_in \ {"QUERY"} = {"ENTRY", "EXIT"}
          /\ csr_in' = csr_in \ {"ENTRY", "EXIT"} /\ csr_out' = csr_out \cup {"QUERY"}
       \/ /\ csr_in \ {"QUERY"} = {"ENTRY"} \/ csr_in = {"QUERY"}
          /\ csr_in' = csr_in \ {"ENTRY", "QUERY"} /\ csr_out' = csr_out \cup {"ENTRY"}
    /\ UNCHANGED <<pc, result, auth_mutex, callVars, ipcVars, refs, pmVars, boxVars, irq,
                   authVars, cseVars, isrVars, disturbances, histVars>>

\* Phase 2: the incoming doorbell and all bits are cleared.
ResetExit ==
    /\ reset = "loop" /\ csr_in \ {"QUERY"} = {"EXIT"}
    /\ csr_in' = {} /\ csr_out' = csr_out \cup {"EXIT"}
    /\ db0_in' = FALSE /\ discarded' = FALSE
    /\ reset' = "check"
    /\ UNCHANGED <<pc, result, auth_mutex, callVars, ipcVars, refs, rpm, need_ipc_reset, pci,
                   db0_out, data0_out, data0_in, irq, authVars, cseVars, isrVars, disturbances,
                   unreset>>

ResetCheck ==
    /\ reset = "check"
    /\ IF "QUERY" \in csr_in
       THEN reset' = "loop" /\ UNCHANGED <<rpm, unreset>>
       ELSE reset' = "none" /\ rpm' = "active" /\ unreset' = FALSE
    /\ UNCHANGED <<pc, result, auth_mutex, callVars, ipcVars, refs, need_ipc_reset, pci, hwVars,
                   isrVars, disturbances, discarded>>

\* The retries are used up; the error is only reported.
ResetFails ==
    /\ reset = "loop"
    /\ Disturb \/ (("ACKED" \in csr_in \/ csr_in \cup csr_out = {}) /\ UNCHANGED disturbances)
    /\ reset' = "none" /\ rpm' = "active" /\ unreset' = TRUE
    /\ UNCHANGED <<pc, result, auth_mutex, callVars, ipcVars, refs, need_ipc_reset, pci, hwVars,
                   isrVars, discarded>>

Reset == ResetBegin \/ ResetTurn \/ ResetExit \/ ResetCheck \/ ResetFails

\* PCI reset: prepare keeps the device active, the device loses its state, and
\* done sets the authentication back without taking any mutex.
PciPrepare ==
    /\ pci = "idle" /\ rpm = "active"
    /\ Disturb
    /\ pci' = "prepared"
    /\ UNCHANGED <<pc, result, auth_mutex, callVars, ipcVars, refs, rpm, reset, need_ipc_reset,
                   hwVars, isrVars, histVars>>

PciLost ==
    /\ pci = "prepared"
    /\ Wiped /\ irq' = {} /\ discarded' = FALSE
    /\ pci' = "lost"
    /\ UNCHANGED <<pc, result, auth_mutex, callVars, ipcVars, refs, rpm, reset, need_ipc_reset,
                   isrVars, disturbances, unreset>>

\* MISTAKE
PciDoneWithoutIpcReset ==
    /\ pci = "lost"
    /\ Restore
    /\ security' = "reset"
    /\ pci' = "idle"
    /\ UNCHANGED <<pc, result, auth_mutex, callVars, ipcVars, refs, rpm, reset, need_ipc_reset,
                   boxVars, csrVars, magic, cseVars, isrVars, disturbances, unreset>>
PciDone ==
    /\ pci = "lost"
    /\ Restore
    /\ security' = "reset"
    /\ need_ipc_reset' = TRUE /\ pci' = "idle"
    /\ UNCHANGED <<pc, result, auth_mutex, callVars, ipcVars, refs, rpm, reset, boxVars, csrVars,
                   magic, cseVars, isrVars, disturbances, unreset>>

-----------------------------------------------------------------------------
(* The CSE (external).  It takes a command when it has none, reports it as *)
(* taken, answers through the mailbox once that is free, and carries it    *)
(* out in its own time.                                                    *)

CseTake ==
    /\ link /\ job = "none" /\ resp = "none" /\ db0_out
    /\ db0_out' = FALSE /\ irq' = irq \cup {"done"}
    /\ \/ /\ data0_out # "other"
          /\ job' = data0_out /\ resp' = data0_out /\ UNCHANGED disturbances
       \/ /\ IF data0_out = "other" THEN UNCHANGED disturbances ELSE Disturb
          /\ resp' = "NACK" /\ UNCHANGED job
    /\ UNCHANGED <<pc, result, auth_mutex, callVars, ipcVars, refs, pmVars, data0_out, db0_in,
                   data0_in, csrVars, authVars, link, isrVars, histVars>>

CseRespond ==
    /\ resp # "none" /\ ~db0_in
    /\ db0_in' = TRUE /\ data0_in' = resp /\ resp' = "none"
    /\ irq' = irq \cup {"recv"}
    /\ UNCHANGED <<pc, result, auth_mutex, callVars, ipcVars, refs, pmVars, db0_out, data0_out,
                   csrVars, authVars, link, job, isrVars, disturbances, histVars>>

CseFinish ==
    /\ job # "none"
    /\ \/ /\ job = "BOOT_LOAD" /\ UNCHANGED disturbances
          /\ security' = "setup_done" /\ magic' = TRUE
       \/ /\ job = "AUTH_RUN" /\ UNCHANGED <<disturbances, magic>>
          /\ security' = IF security = "setup_done" THEN "auth_done" ELSE security
       \/ Disturb /\ security' = "failed" /\ UNCHANGED magic
    /\ job' = "none"
    /\ UNCHANGED <<pc, result, auth_mutex, callVars, ipcVars, refs, pmVars, boxVars, csrVars, irq,
                   link, resp, isrVars, histVars>>

\* Its part of the handshakes: usually a reset is answered with phase 2 at once.
CseCsr(bit) ==
    /\ bit \in csr_out /\ (bit = "EXIT" => "ENTRY" \notin csr_out)
    /\ csr_out' = csr_out \ {bit}
    /\ CASE bit = "ENTRY" ->
              /\ link' = FALSE /\ job' = "none" /\ resp' = "none"
              /\ \/ csr_in' = csr_in \cup {"EXIT"} /\ UNCHANGED disturbances
                 \/ /\ Disturb
                    /\ \E s \in SUBSET {"ENTRY", "EXIT", "QUERY"} \ {{}} : csr_in' = csr_in \cup s
         [] bit = "QUERY" ->
              csr_in' = csr_in \cup {"EXIT"} /\ UNCHANGED <<cseVars, disturbances>>
         [] bit = "EXIT" ->
              link' = TRUE /\ UNCHANGED <<csr_in, job, resp, disturbances>>
         [] bit = "ASSERTED" ->
              /\ csr_in' = IF link THEN csr_in \cup {"ACKED"} ELSE csr_in
              /\ UNCHANGED <<cseVars, disturbances>>
         [] OTHER -> UNCHANGED <<csr_in, cseVars, disturbances>>
    /\ UNCHANGED <<pc, result, auth_mutex, callVars, ipcVars, refs, pmVars, boxVars, irq, authVars,
                   isrVars, histVars>>

CsrBits == {"ENTRY", "EXIT", "QUERY", "ASSERTED", "DEASSERTED"}

Cse == CseTake \/ CseRespond \/ CseFinish \/ \E bit \in CsrBits : CseCsr(bit)

-----------------------------------------------------------------------------
Next ==
    \/ \E c \in Callers : Authenticate(c) \/ Call(c)
    \/ Isr
    \/ Suspend \/ RuntimeResume \/ SystemSleep \/ Reset
    \/ PciPrepare \/ PciLost \/ PciDone
    \/ Cse

\* Mutexes are handed over, interrupts are delivered, a device that is needed is
\* resumed, a PCI reset ends, and the CSE works.
Fairness ==
    /\ \A c \in Callers : SF_vars(Call(c))
    /\ WF_vars(Isr) /\ WF_vars(RuntimeResume \/ Reset) /\ WF_vars(PciLost \/ PciDone)
    /\ WF_vars(Cse)

Spec == Init /\ [][Next]_vars /\ Fairness

-----------------------------------------------------------------------------
\* An answer in the mailbox has its interrupt pending or at work, whatever else
\* happens between reading, clearing and handling the status; only
\* ipu6_buttress_restore may have cleared it.  The CSE waits for the mailbox, so
\* one missed answer would silence it.
AnswerPending ==
    db0_in => discarded \/ "recv" \in irq \/ (isr # "idle" /\ "recv" \in irq_status)

\* The device stays awake while a caller works with its registers, so that an
\* IPC reset, which runtime resume makes, never meets a command under way.
AwakeWhileTalking ==
    \A c \in Callers : pc[c] \in Sending \cup {"check", "open", "poll", "magic"} => rpm = "active"

\* A device whose IPC is down is being reset or due for an IPC reset at its next
\* resume, however PCI resets and system sleeps fall between the steps of calls
\* and of earlier resets: need_ipc_reset, set without a lock, is never lost.  Only
\* an IPC reset that fails leaves the IPC down (ipu6_runtime_resume clears the
\* flag first and ignores the result).
ResetDue ==
    ~link => need_ipc_reset \/ pci # "idle" \/ rpm = "resuming" \/ unreset \/ "EXIT" \in csr_out

\* Every call returns, whatever the CSE does.
AuthReturns == \A c \in Callers : pc[c] # "idle" ~> pc[c] = "idle"
=============================================================================
