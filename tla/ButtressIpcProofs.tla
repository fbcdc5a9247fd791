-------------------------- MODULE ButtressIpcProofs --------------------------
(***************************************************************************)
(* For any number of callers and of disturbances: no answer of the CSE is  *)
(* left in the mailbox without its interrupt, the device is awake while a  *)
(* caller works with it, and a device whose IPC is down is due for a reset.*)
(***************************************************************************)
EXTENDS ButtressIpc, TLAPS

\* Places from which a caller works with the registers.
Talking == Sending \cup {"check", "open", "poll", "magic"}

\* A caller holds a runtime PM reference from its resume to its put, and a
\* device with a reference is active.
AwakeInv ==
    /\ pc \in [Callers -> PCs]
    /\ refs = {c \in Callers : pc[c] \in Talking \cup {"put"}}
    /\ refs # {} => rpm = "active"

\* The device is, or will be, reset.
Due == need_ipc_reset \/ pci # "idle" \/ rpm = "resuming" \/ unreset \/ "EXIT" \in csr_out

\* Phase 1 of a reset stays announced only as long as the reset is due, and a
\* reset that looks for a last query has announced phase 2.
DueInv ==
    /\ reset # "none" <=> rpm = "resuming"
    /\ pci # "idle" => rpm = "active"
    /\ ~link \/ "ENTRY" \in csr_out => Due
    /\ reset = "check" => "EXIT" \in csr_out \/ (link /\ "ENTRY" \notin csr_out)

-----------------------------------------------------------------------------
\* Steps that touch neither the mailbox nor its interrupt.
LEMMA MailboxAlone ==
    ASSUME AnswerPending, UNCHANGED <<db0_in, discarded, irq, isr, irq_status>>
    PROVE  AnswerPending'
BY Zenon DEF AnswerPending

\* A call touches neither the mailbox nor the handler, nor the state of the PCI
\* reset, nor the handshake bits ENTRY and EXIT.
LEMMA CallsLeaveAlone ==
    ASSUME NEW c \in Callers, Authenticate(c) \/ Call(c)
    PROVE  /\ UNCHANGED <<db0_in, discarded, irq, isr, irq_status>>
           /\ UNCHANGED <<reset, rpm, pci, link, need_ipc_reset, unreset>>
           /\ "EXIT" \in csr_out' <=> "EXIT" \in csr_out
           /\ "ENTRY" \in csr_out' <=> "ENTRY" \in csr_out
<1> USE DEF pmVars, hwVars, boxVars, csrVars, cseVars, isrVars, histVars, Expire
<1>1. CASE Authenticate(c)
  BY <1>1, Zenon DEF Authenticate
<1>2. CASE Lock(c)
  BY <1>2, Zenon DEF Lock
<1>3. CASE Resume(c)
  BY <1>3, Zenon DEF Resume
<1>4. CASE ResumeFails(c)
  BY <1>4, Zenon DEF ResumeFails
<1>5. CASE CheckDone(c)
  BY <1>5, Zenon DEF CheckDone
<1>6. CASE ValidityOpen(c)
  BY <1>6, Zenon DEF ValidityOpen
<1>7. CASE Acked(c)
  BY <1>7, Zenon DEF Acked
<1>8. CASE Send(c)
  BY <1>8, Zenon DEF Send
<1>9. CASE Ring(c)
  BY <1>9, Zenon DEF Ring
<1>10. CASE Sent(c)
  BY <1>10, Zenon DEF Sent
<1>11. CASE SendAgain(c)
  BY <1>11, Zenon DEF SendAgain
<1>12. CASE Received(c)
  BY <1>12, Zenon DEF Received
<1>13. CASE Accepted(c)
  BY <1>13, Zenon DEF Accepted
<1>14. CASE SendFails(c)
  BY <1>14, Zenon DEF SendFails
<1>15. CASE Polled(c)
  BY <1>15, Zenon DEF Polled
<1>16. CASE Booted(c)
  BY <1>16, Zenon DEF Booted
<1>17. CASE PollFails(c)
  BY <1>17, Zenon DEF PollFails
<1>18. CASE Put(c)
  BY <1>18, Zenon DEF Put
<1> QED
  BY <1>1, <1>2, <1>3, <1>4, <1>5, <1>6, <1>7, <1>8, <1>9, <1>10, <1>11, <1>12, <1>13, <1>14, <1>15, <1>16, <1>17, <1>18, Zenon DEF Call

\* Every step keeps the interrupt of an answer pending.
LEMMA MailboxStep == AnswerPending /\ [Next]_vars => AnswerPending'
<1> SUFFICES ASSUME AnswerPending, [Next]_vars PROVE AnswerPending'
  BY Zenon
<1> USE DEF pmVars, hwVars, boxVars, csrVars, cseVars, isrVars, histVars, authVars
<1>1. ASSUME NEW c \in Callers, Authenticate(c) \/ Call(c) PROVE AnswerPending'
  BY <1>1, CallsLeaveAlone, MailboxAlone, Zenon
<1>2. CASE IsrEnter
  BY <1>2, Zenon DEF IsrEnter, AnswerPending
<1>3. CASE IsrClear
  BY <1>3, Zenon DEF IsrClear, AnswerPending
<1>4. CASE IsrHandle
  BY <1>4, Zenon DEF IsrHandle, AnswerPending
<1>5. CASE Suspend
  BY <1>5, Zenon DEF Suspend, AnswerPending
<1>6. CASE RuntimeResume
  BY <1>6, Zenon DEF RuntimeResume, AnswerPending, Restore
<1>7. CASE SystemSleep
  BY <1>7, Zenon DEF SystemSleep, AnswerPending, Restore, Wiped
<1>8. CASE ResetBegin
  BY <1>8, Zenon DEF ResetBegin, AnswerPending
<1>9. CASE ResetTurn
  BY <1>9, Zenon DEF ResetTurn, AnswerPending
<1>10. CASE ResetExit
  BY <1>10, Zenon DEF ResetExit, AnswerPending
<1>11. CASE ResetCheck
  BY <1>11, Zenon DEF ResetCheck, AnswerPending
<1>12. CASE ResetFails
  BY <1>12, Zenon DEF ResetFails, AnswerPending
<1>13. CASE PciPrepare
  BY <1>13, Zenon DEF PciPrepare, AnswerPending
<1>14. CASE PciLost
  BY <1>14, Zenon DEF PciLost, AnswerPending, Wiped
<1>15. CASE PciDone
  BY <1>15, Zenon DEF PciDone, AnswerPending, Restore
<1>16. CASE CseTake
  BY <1>16, Zenon DEF CseTake, AnswerPending
<1>17. CASE CseRespond
  BY <1>17, Zenon DEF CseRespond, AnswerPending
<1>18. CASE CseFinish
  BY <1>18, Zenon DEF CseFinish, AnswerPending
<1>19. ASSUME NEW bit \in CsrBits, CseCsr(bit) PROVE AnswerPending'
  BY <1>19, Zenon DEF CseCsr, AnswerPending
<1>20. CASE UNCHANGED vars
  BY <1>20, Zenon DEF vars, AnswerPending
<1> QED
  BY <1>1, <1>2, <1>3, <1>4, <1>5, <1>6, <1>7, <1>8, <1>9, <1>10, <1>11, <1>12, <1>13, <1>14, <1>15, <1>16, <1>17, <1>18, <1>19, <1>20, Zenon DEF Next, Isr, Reset, Cse

\* Every step keeps a reset due while the IPC is down.
LEMMA DueStep == DueInv /\ [Next]_vars => DueInv'
<1> SUFFICES ASSUME DueInv, [Next]_vars PROVE DueInv'
  OBVIOUS
<1> USE DEF pmVars, hwVars, boxVars, csrVars, cseVars, isrVars, histVars, authVars
<1>1. ASSUME NEW c \in Callers, Authenticate(c) \/ Call(c) PROVE DueInv'
  BY <1>1, CallsLeaveAlone, Zenon DEF DueInv, Due
<1>2. CASE IsrEnter
  BY <1>2, Zenon DEF IsrEnter, DueInv, Due
<1>3. CASE IsrClear
  BY <1>3, Zenon DEF IsrClear, DueInv, Due
<1>4. CASE IsrHandle
  BY <1>4, Zenon DEF IsrHandle, DueInv, Due
<1>5. CASE Suspend
  BY <1>5, Zenon DEF Suspend, DueInv, Due
<1>6. CASE RuntimeResume
  BY <1>6, Zenon DEF RuntimeResume, DueInv, Due, Restore
<1>7. CASE SystemSleep
  BY <1>7, Zenon DEF SystemSleep, DueInv, Due, Restore, Wiped
<1>8. CASE ResetBegin
  BY <1>8, Zenon DEF ResetBegin, DueInv, Due
<1>9. CASE ResetTurn
  BY <1>9, Zenon DEF ResetTurn, DueInv, Due
<1>10. CASE ResetExit
  BY <1>10, Zenon DEF ResetExit, DueInv, Due
<1>11. CASE ResetCheck
  BY <1>11, Zenon DEF ResetCheck, DueInv, Due
<1>12. CASE ResetFails
  BY <1>12, Zenon DEF ResetFails, DueInv, Due
<1>13. CASE PciPrepare
  BY <1>13, Zenon DEF PciPrepare, DueInv, Due
<1>14. CASE PciLost
  BY <1>14, Zenon DEF PciLost, DueInv, Due, Wiped
<1>15. CASE PciDone
  BY <1>15, Zenon DEF PciDone, DueInv, Due, Restore
<1>16. CASE CseTake
  BY <1>16, Zenon DEF CseTake, DueInv, Due
<1>17. CASE CseRespond
  BY <1>17, Zenon DEF CseRespond, DueInv, Due
<1>18. CASE CseFinish
  BY <1>18, Zenon DEF CseFinish, DueInv, Due
<1>19. ASSUME NEW bit \in CsrBits, CseCsr(bit) PROVE DueInv'
  BY <1>19, Zenon DEF CseCsr, CsrBits, DueInv, Due
<1>20. CASE UNCHANGED vars
  BY <1>20, Zenon DEF vars, DueInv, Due
<1> QED
  BY <1>1, <1>2, <1>3, <1>4, <1>5, <1>6, <1>7, <1>8, <1>9, <1>10, <1>11, <1>12, <1>13, <1>14, <1>15, <1>16, <1>17, <1>18, <1>19, <1>20 DEF Next, Isr, Reset, Cse

\* A call of one caller keeps the references right: taken at its resume, given
\* back at its put.
LEMMA CallAwake ==
    ASSUME AwakeInv, NEW c \in Callers, Authenticate(c) \/ Call(c)
    PROVE  AwakeInv'
<1> USE DEF AwakeInv, Talking, Sending, PCs, Goto
<1>1. CASE Authenticate(c)
  BY <1>1, CallsLeaveAlone, Zenon DEF Authenticate
<1>2. CASE Lock(c)
  BY <1>2, CallsLeaveAlone, Zenon DEF Lock
<1>3. CASE Resume(c)
  BY <1>3, CallsLeaveAlone, Zenon DEF Resume
<1>4. CASE ResumeFails(c)
  BY <1>4, CallsLeaveAlone, Zenon DEF ResumeFails
<1>5. CASE CheckDone(c)
  BY <1>5, CallsLeaveAlone, Zenon DEF CheckDone
<1>6. CASE ValidityOpen(c)
  BY <1>6, CallsLeaveAlone, Zenon DEF ValidityOpen
<1>7. CASE Acked(c)
  BY <1>7, CallsLeaveAlone, Zenon DEF Acked
<1>8. CASE Send(c)
  BY <1>8, CallsLeaveAlone, Zenon DEF Send
<1>9. CASE Ring(c)
  BY <1>9, CallsLeaveAlone, Zenon DEF Ring
<1>10. CASE Sent(c)
  BY <1>10, CallsLeaveAlone, Zenon DEF Sent
<1>11. CASE SendAgain(c)
  BY <1>11, CallsLeaveAlone, Zenon DEF SendAgain
<1>12. CASE Received(c)
  BY <1>12, CallsLeaveAlone, Zenon DEF Received
<1>13. CASE Accepted(c)
  BY <1>13, CallsLeaveAlone, Zenon DEF Accepted
<1>14. CASE SendFails(c)
  BY <1>14, CallsLeaveAlone, Zenon DEF SendFails
<1>15. CASE Polled(c)
  BY <1>15, CallsLeaveAlone, Zenon DEF Polled
<1>16. CASE Booted(c)
  BY <1>16, CallsLeaveAlone, Zenon DEF Booted
<1>17. CASE PollFails(c)
  BY <1>17, CallsLeaveAlone, Zenon DEF PollFails
<1>18. CASE Put(c)
  BY <1>18, CallsLeaveAlone, Zenon DEF Put
<1> QED
  BY <1>1, <1>2, <1>3, <1>4, <1>5, <1>6, <1>7, <1>8, <1>9, <1>10, <1>11, <1>12, <1>13, <1>14, <1>15, <1>16, <1>17, <1>18, Zenon DEF Call

\* Every step keeps a device with a reference active.
LEMMA AwakeStep == AwakeInv /\ [Next]_vars => AwakeInv'
<1> SUFFICES ASSUME AwakeInv, [Next]_vars PROVE AwakeInv'
  OBVIOUS
<1> USE DEF pmVars, hwVars, boxVars, csrVars, cseVars, isrVars, histVars, authVars
<1>1. ASSUME NEW c \in Callers, Authenticate(c) \/ Call(c) PROVE AwakeInv'
  BY <1>1, CallAwake, Zenon
<1>2. CASE IsrEnter
  BY <1>2, Zenon DEF IsrEnter, AwakeInv
<1>3. CASE IsrClear
  BY <1>3, Zenon DEF IsrClear, AwakeInv
<1>4. CASE IsrHandle
  BY <1>4, Zenon DEF IsrHandle, AwakeInv
<1>5. CASE Suspend
  BY <1>5, Zenon DEF Suspend, AwakeInv
<1>6. CASE RuntimeResume
  BY <1>6, Zenon DEF RuntimeResume, AwakeInv
<1>7. CASE SystemSleep
  BY <1>7, Zenon DEF SystemSleep, AwakeInv, Talking, Sending
<1>8. CASE ResetBegin
  BY <1>8, Zenon DEF ResetBegin, AwakeInv
<1>9. CASE ResetTurn
  BY <1>9, Zenon DEF ResetTurn, AwakeInv
<1>10. CASE ResetExit
  BY <1>10, Zenon DEF ResetExit, AwakeInv
<1>11. CASE ResetCheck
  BY <1>11, Zenon DEF ResetCheck, AwakeInv
<1>12. CASE ResetFails
  BY <1>12, Zenon DEF ResetFails, AwakeInv
<1>13. CASE PciPrepare
  BY <1>13, Zenon DEF PciPrepare, AwakeInv
<1>14. CASE PciLost
  BY <1>14, Zenon DEF PciLost, AwakeInv
<1>15. CASE PciDone
  BY <1>15, Zenon DEF PciDone, AwakeInv
<1>16. CASE CseTake
  BY <1>16, Zenon DEF CseTake, AwakeInv
<1>17. CASE CseRespond
  BY <1>17, Zenon DEF CseRespond, AwakeInv
<1>18. CASE CseFinish
  BY <1>18, Zenon DEF CseFinish, AwakeInv
<1>19. ASSUME NEW bit \in CsrBits, CseCsr(bit) PROVE AwakeInv'
  BY <1>19, Zenon DEF CseCsr, AwakeInv
<1>20. CASE UNCHANGED vars
  BY <1>20, Zenon DEF vars, AwakeInv
<1> QED
  BY <1>1, <1>2, <1>3, <1>4, <1>5, <1>6, <1>7, <1>8, <1>9, <1>10, <1>11, <1>12, <1>13, <1>14, <1>15, <1>16, <1>17, <1>18, <1>19, <1>20 DEF Next, Isr, Reset, Cse

-----------------------------------------------------------------------------
\* An answer in the mailbox is never left without its interrupt, however many
\* callers and disturbances there are (ipu6_buttress_isr).
THEOREM NoAnswerMissed == Spec => []AnswerPending
<1>1. Init => AnswerPending
  BY Zenon DEF Init, AnswerPending
<1> QED
  BY <1>1, MailboxStep, PTL DEF Spec

\* No caller works with the registers of a suspended or resuming device: the
\* reference of pm_runtime_resume_and_get lasts until the put.
THEOREM AwakeForCalls == Spec => []AwakeWhileTalking
<1>1. Init => AwakeInv
  BY Zenon DEF Init, AwakeInv, Talking, Sending, PCs
<1>2. AwakeInv => AwakeWhileTalking
  BY Zenon DEF AwakeInv, AwakeWhileTalking, Talking
<1> QED
  BY <1>1, <1>2, AwakeStep, PTL DEF Spec

\* need_ipc_reset is never lost between ipu6_pci_reset_done, which sets it, and
\* ipu6_runtime_resume, which clears it.
THEOREM ResetNotLost == Spec => []ResetDue
<1>1. Init => DueInv
  BY Zenon DEF Init, DueInv, Due
<1>2. DueInv => ResetDue
  BY Zenon DEF DueInv, Due, ResetDue
<1> QED
  BY <1>1, <1>2, DueStep, PTL DEF Spec
=============================================================================
