--------------------------- MODULE IsysPowerProofs ---------------------------
(***************************************************************************)
(* For any set of video nodes and any faults: one thread at a time opens,  *)
(* closes or power-cycles the ISYS firmware (OneFwOwner of IsysPower), the *)
(* two counts of its users are right, the interrupt handler's context is   *)
(* not freed while it is used, but by force (IsrContextLive), a node that  *)
(* streams has the firmware running (FirmwareServes), and every variable   *)
(* keeps its type (TypeOK).                                                *)
(*                                                                         *)
(* The first argument is OwnerInv: fw_get and fw_put enter the section     *)
(* with isys->mutex held and isys->resetting clear, a restart enters it    *)
(* with isys->resetting set while nobody held the mutex, and neither lets  *)
(* the other in before it has left.  With it the usage count of runtime PM *)
(* (UsageInv) and the reference count of the firmware (RefInv) count the   *)
(* threads between a get and its put: who is counted keeps the device      *)
(* powered and the firmware open.  IsrInv adds that a context to be        *)
(* released was taken from the handler first, ServeInv what a restart      *)
(* takes away from the other streams and sets up for its own.              *)
(*                                                                         *)
(* Most steps are of a few kinds (Aside, Within, Leave, Fail): what kind   *)
(* an action is of is shown once, then each invariant for each kind.       *)
(***************************************************************************)
EXTENDS IsysPower, TLAPS

-----------------------------------------------------------------------------
(* Counting threads.                                                       *)

\* The set S has k elements: they can be numbered from 1 to k.
Numbers(f, k, S) ==
    /\ f \in [1 .. k -> S]
    /\ \A i, j \in 1 .. k : f[i] = f[j] => i = j
    /\ \A x \in S : \E i \in 1 .. k : f[i] = x
Counts(k, S) == \E f : Numbers(f, k, S)

\* The empty set has none,
LEMMA CountNone == Counts(0, {})
<1>1. Numbers([i \in 1 .. 0 |-> i], 0, {})
  BY DEF Numbers
<1> QED  BY <1>1, Zenon DEF Counts

\* a set with an element has some,
LEMMA CountSome ==
  ASSUME NEW k \in Nat, NEW S, Counts(k, S), NEW x \in S
  PROVE  k # 0
  BY DEF Counts, Numbers

\* a set with one element has no other,
LEMMA CountOne ==
  ASSUME NEW S, Counts(1, S), NEW x \in S, NEW y \in S
  PROVE  x = y
  BY DEF Counts, Numbers

\* and a new element makes one more,
LEMMA CountMore ==
  ASSUME NEW k \in Nat, NEW S, NEW x, x \notin S, Counts(k, S)
  PROVE  Counts(k + 1, S \cup {x})
<1>1. PICK f : Numbers(f, k, S)
  BY Zenon DEF Counts
<1> DEFINE g == [i \in 1 .. k + 1 |-> IF i = k + 1 THEN x ELSE f[i]]
<1>2. g \in [1 .. k + 1 -> S \cup {x}]
  BY <1>1 DEF Numbers
<1>3. \A i, j \in 1 .. k + 1 : g[i] = g[j] => i = j
  BY <1>1 DEF Numbers
<1>4. \A y \in S \cup {x} : \E i \in 1 .. k + 1 : g[i] = y
  <2> TAKE y \in S \cup {x}
  <2>1. CASE y = x
    <3> WITNESS k + 1 \in 1 .. k + 1
    <3> QED  BY <2>1
  <2>2. CASE y \in S
    <3>1. PICK i \in 1 .. k : f[i] = y
      BY <1>1, <2>2, Zenon DEF Numbers
    <3>2. i \in 1 .. k + 1 /\ g[i] = y
      BY <3>1
    <3> QED  BY <3>2, Zenon
  <2> QED  BY <2>1, <2>2, Zenon
<1>5. Numbers(g, k + 1, S \cup {x})
  BY <1>2, <1>3, <1>4, Zenon DEF Numbers
<1> QED  BY <1>5, Zenon DEF Counts

\* one taken away one less.
LEMMA CountLess ==
  ASSUME NEW k \in Nat, NEW S, NEW x \in S, Counts(k, S)
  PROVE  k # 0 /\ Counts(k - 1, S \ {x})
<1>1. PICK f : Numbers(f, k, S)
  BY Zenon DEF Counts
<1>2. PICK n \in 1 .. k : f[n] = x
  BY <1>1, Zenon DEF Numbers
<1> DEFINE g == [i \in 1 .. k - 1 |-> IF i = n THEN f[k] ELSE f[i]]
<1>3. g \in [1 .. k - 1 -> S \ {x}]
  BY <1>1, <1>2 DEF Numbers
<1>4. \A i, j \in 1 .. k - 1 : g[i] = g[j] => i = j
  BY <1>1, <1>2 DEF Numbers
<1>5. \A y \in S \ {x} : \E i \in 1 .. k - 1 : g[i] = y
  <2> TAKE y \in S \ {x}
  <2>1. PICK j \in 1 .. k : f[j] = y
    BY <1>1, Zenon DEF Numbers
  <2>2. j # n
    BY <1>2, <2>1, Zenon
  <2>3. CASE j = k
    <3>1. n \in 1 .. k - 1 /\ g[n] = y
      BY <2>1, <2>2, <2>3
    <3> QED  BY <3>1, Zenon
  <2>4. CASE j # k
    <3>1. j \in 1 .. k - 1 /\ g[j] = y
      BY <2>1, <2>2, <2>4
    <3> QED  BY <3>1, Zenon
  <2> QED  BY <2>3, <2>4, Zenon
<1>6. Numbers(g, k - 1, S \ {x})
  BY <1>3, <1>4, <1>5, Zenon DEF Numbers
<1> QED  BY <1>2, <1>6 DEF Counts

-----------------------------------------------------------------------------
(* The invariants.                                                         *)

\* The threads between a successful pm_runtime_resume_and_get and their put.
Keeping == {"fw_lock", "start", "running", "cleanup", "return", "fw_put", "pm_put"}
Holds(n) == pc[n] \in Keeping \/ Owner(n)
Holders == {n \in Nodes : Holds(n)}

\* The usage count of the device counts them, and no device in use is suspended.
UsageInv ==
    /\ usage \in Nat
    /\ Oopsed \/ Counts(usage, Holders)
    /\ usage # 0 => rpm = "active"

\* The threads between a fw_get and its fw_put.
Serving == {"start", "running", "cleanup", "return", "fw_put"}
Streams(n) == pc[n] \in Serving \/ (Owner(n) /\ job[n] = "get")
Streamers == {n \in Nodes : Streams(n)}

\* isys->ref_count counts them; who opens the firmware is the first of them, who
\* closes it was the last.
RefInv ==
    /\ ref_count \in Nat
    /\ Oopsed \/ Counts(ref_count, Streamers)
    /\ \A n \in Nodes : Owner(n) => ref_count = IF job[n] = "get" THEN 1 ELSE 0

-----------------------------------------------------------------------------
(* The kinds of steps.                                                     *)

Busy == OpenSection \cup CloseSection \cup RestartSection

\* A step of thread n alone.
Moves(n) ==
    /\ pc' \in [Nodes -> PCs] /\ job' \in [Nodes -> Jobs]
    /\ \A m \in Nodes \ {n} : pc'[m] = pc[m] /\ job'[m] = job[m]

\* It leads to no section and counts as before, or the kernel oopses.
Aside(n) ==
    /\ Moves(n)
    /\ UNCHANGED <<mutex, resetting, ref_count, usage>>
    /\ usage # 0 => rpm' = rpm
    /\ pc'[n] \notin Busy
    /\ pc'[n] = "fw_put" => job'[n] \in {"put", "abort"}
    /\ \/ pc'[n] = "oops"
       \/ /\ pc[n] \notin Busy
          /\ pc'[n] \in Keeping <=> pc[n] \in Keeping
          /\ pc'[n] \in Serving <=> pc[n] \in Serving

\* It stays in the section, with the same right to be there.
Within(n) ==
    /\ Moves(n)
    /\ UNCHANGED <<mutex, resetting, ref_count, usage, rpm>>
    /\ pc[n] \in Busy /\ pc'[n] \in Busy
    /\ Owner(n)' <=> Owner(n)
    /\ Owner(n) => job'[n] = job[n]
    /\ Resetter(n)' => Resetter(n)
    /\ pc'[n] \in OpenSection => job'[n] \in {"get", "start"}
    /\ pc'[n] \in CloseSection => job'[n] # "none"

\* fw_get or fw_put is done with the firmware,
Leave(n) ==
    /\ Moves(n) /\ Owner(n)
    /\ mutex' = {} /\ UNCHANGED <<resetting, ref_count, usage, rpm>>
    /\ pc'[n] = IF job[n] = "get" THEN "start" ELSE "pm_put"

\* or fw_get fails.
Fail(n) ==
    /\ Moves(n) /\ Owner(n) /\ job[n] = "get"
    /\ mutex' = {} /\ ref_count' = ref_count - 1 /\ usage' = usage - 1
    /\ UNCHANGED <<resetting, rpm>>
    /\ pc'[n] = "unwind"

\* The context is taken away from the interrupt handler.
Parted == {"fw_release", "r_suspend", "r_clear", "r_power", "r_resume"}

\* restart_stream is at work, from the end of the old stream to the new one.
Cutting(n) ==
    \/ pc[n] \in OpenSection \cup CloseSection /\ job[n] \in {"stop", "start"}
    \/ pc[n] \in {"r_suspend", "r_clear", "r_power", "r_resume", "r_on"}

\* A step that leaves the device and the context alone.
Soft(n) ==
    /\ Moves(n)
    /\ UNCHANGED <<fwcom, live, power, sp, stale, isr, cut>>
    /\ rpm' \in {"s_clear", "s_off"} => rpm' = rpm
    /\ pc[n] # "fw_clear"
    /\ pc'[n] \notin {"fw_release", "fw_clear", "running", "r_on"}
    /\ pc'[n] \in Parted => pc[n] \in Parted
    /\ pc'[n] \in OpenSection => job'[n] = "get"
    /\ Cutting(n)' => Cutting(n)
    /\ \A m \in Nodes : streaming'[m] => streaming[m]

\* What the user does of their own accord: a step aside,
LEMMA UserKind ==
  ASSUME NEW n \in Nodes, pc \in [Nodes -> PCs], job \in [Nodes -> Jobs],
         Open(n) \/ StreamOn(n) \/ StopStreaming(n) \/ CommandOops(n) \/ Close(n)
  PROVE  Aside(n) /\ (streaming \in [Nodes -> BOOLEAN] => Soft(n))
<1> USE DEF Aside, Soft, Moves, Busy, Keeping, Serving, Parted, Cutting, PCs, Jobs,
            OpenSection, CloseSection, RestartSection, Goto
<1>1. CASE Open(n)
  BY <1>1, Zenon DEF Open, allButPc, nodeVars, fwVars, pmVars, spVars, flagVars
<1>2. CASE StreamOn(n)
  BY <1>2, Zenon DEF StreamOn, fwVars, pmVars, spVars, flagVars
<1>3. CASE StopStreaming(n)
  BY <1>3, Zenon DEF StopStreaming, fwVars, pmVars, spVars, flagVars
<1>4. CASE CommandOops(n)
  BY <1>4, Zenon DEF CommandOops, allButPc, nodeVars, fwVars, pmVars, spVars, flagVars
<1>5. CASE Close(n)
  BY <1>5, Zenon DEF Close, allButPc, nodeVars, fwVars, pmVars, spVars, flagVars
<1> QED
  BY <1>1, <1>2, <1>3, <1>4, <1>5, Zenon

\* and so is what an open does, unless it resets the firmware,
LEMMA OpenKind ==
  ASSUME NEW n \in Nodes, pc \in [Nodes -> PCs], job \in [Nodes -> Jobs],
         VideoOpen(n) \/ VideoOpenRefused(n) \/ Authenticate(n) \/
             StartStreamingFails(n) \/ StartOops(n)
  PROVE  Aside(n) /\ Soft(n)
<1> USE DEF Aside, Soft, Moves, Busy, Keeping, Serving, Parted, Cutting, PCs, Jobs,
            OpenSection, CloseSection, RestartSection, Goto
<1>1. CASE VideoOpen(n)
  BY <1>1, Zenon DEF VideoOpen, allButPc, nodeVars, fwVars, pmVars, spVars, flagVars
<1>2. CASE VideoOpenRefused(n)
  BY <1>2, Zenon DEF VideoOpenRefused, allButPc, nodeVars, fwVars, pmVars, spVars, flagVars
<1>3. CASE Authenticate(n)
  BY <1>3 DEF Authenticate, allButPc, nodeVars, fwVars, pmVars, spVars, flagVars
<1>4. CASE StartStreamingFails(n)
  BY <1>4, Zenon DEF StartStreamingFails, nodeVars, fwVars, pmVars, spVars, flagVars
<1>5. CASE StartOops(n)
  BY <1>5, Zenon DEF StartOops, allButPc, nodeVars, fwVars, pmVars, spVars, flagVars
<1> QED
  BY <1>1, <1>2, <1>3, <1>4, <1>5, Zenon

\* a resume that fails, and the end of a stream.
LEMMA EndKind ==
  ASSUME NEW n \in Nodes, pc \in [Nodes -> PCs], job \in [Nodes -> Jobs], usage # 0 => rpm = "active",
         PmGetFails(n) \/ PmPutDone(n) \/ Unwind(n) \/ StreamCleanup(n) \/
             ReturnBuffers(n)
  PROVE  Aside(n) /\ Soft(n)
<1> USE DEF Aside, Soft, Moves, Busy, Keeping, Serving, Parted, Cutting, PCs, Jobs,
            OpenSection, CloseSection, RestartSection, Goto
<1>1. CASE PmGetFails(n)
  BY <1>1, Zenon DEF PmGetFails, nodeVars, fwVars, spVars, flagVars
<1>2. CASE PmPutDone(n)
  BY <1>2, Zenon DEF PmPutDone, AfterPut, JobDone, nodeVars, fwVars, pmVars, spVars, flagVars
<1>3. CASE Unwind(n)
  BY <1>3, Zenon DEF Unwind, JobDone, fwVars, pmVars, spVars, flagVars
<1>4. CASE StreamCleanup(n)
  BY <1>4, Zenon DEF StreamCleanup, fwVars, pmVars, spVars, flagVars
<1>5. CASE ReturnBuffers(n)
  BY <1>5, Zenon DEF ReturnBuffers, nodeVars, fwVars, pmVars, spVars
<1> QED
  BY <1>1, <1>2, <1>3, <1>4, <1>5, Zenon

\* Opening and closing the firmware is done within the section,
LEMMA SectionKind ==
  ASSUME NEW n \in Nodes, pc \in [Nodes -> PCs], job \in [Nodes -> Jobs],
         pc[n] \in OpenSection => job[n] \in {"get", "start"},
         pc[n] \in CloseSection => job[n] # "none",
         FwCleanup(n) \/ FwClear(n) \/ FwPrepare(n) \/ FwComOpen(n) \/ FwNotReady(n) \/
             FwClose(n)
  PROVE  Within(n)
<1> USE DEF Within, Moves, Busy, Owner, Resetter, PCs, Jobs, OpenSection, CloseSection,
            RestartSection, Goto
<1>1. CASE FwCleanup(n)
  BY <1>1 DEF FwCleanup, pmVars, flagVars
<1>2. CASE FwClear(n)
  BY <1>2, Zenon DEF FwClear, pmVars, flagVars
<1>3. CASE FwPrepare(n)
  BY <1>3, Zenon DEF FwPrepare, pmVars, flagVars
<1>4. CASE FwComOpen(n)
  BY <1>4, Zenon DEF FwComOpen, pmVars, flagVars
<1>5. CASE FwNotReady(n)
  BY <1>5, Zenon DEF FwNotReady, allButPc, pmVars, flagVars
<1>6. CASE FwClose(n)
  BY <1>6, Zenon DEF FwClose, pmVars, flagVars
<1> QED
  BY <1>1, <1>2, <1>3, <1>4, <1>5, <1>6, Zenon

\* and so is a restart, of which these steps leave the device alone
LEMMA RestartKind ==
  ASSUME NEW n \in Nodes, pc \in [Nodes -> PCs], job \in [Nodes -> Jobs],
         RestartNext(n) \/ RestartOffFails(n) \/ ResetClear(n) \/ RestartOnFails(n) \/
             RestartUnlock(n)
  PROVE  Within(n) /\ Soft(n)
<1> USE DEF Within, Moves, Busy, Owner, Resetter, Soft, Parted, Cutting, PCs, Jobs,
            OpenSection, CloseSection, RestartSection, Goto
<1>1. CASE RestartNext(n)
  BY <1>1 DEF RestartNext, nodeVars, fwVars, pmVars, spVars, flagVars
<1>2. CASE RestartOffFails(n)
  BY <1>2, Zenon DEF RestartOffFails, nodeVars, fwVars, pmVars, spVars, flagVars
<1>3. CASE ResetClear(n)
  BY <1>3, Zenon DEF ResetClear, nodeVars, fwVars, pmVars, spVars
<1>4. CASE RestartOnFails(n)
  BY <1>4, Zenon DEF RestartOnFails, nodeVars, fwVars, pmVars, spVars, flagVars
<1>5. CASE RestartUnlock(n)
  BY <1>5, Zenon DEF RestartUnlock, JobDone, nodeVars, fwVars, pmVars, spVars, flagVars
<1> QED
  BY <1>1, <1>2, <1>3, <1>4, <1>5, Zenon

\* and these do not.
LEMMA ResetKind ==
  ASSUME NEW n \in Nodes, pc \in [Nodes -> PCs], job \in [Nodes -> Jobs],
         RestartOff(n) \/ ResetSuspend(n) \/ ResetOff(n) \/ ResetOn(n) \/ ResetFails(n)
             \/ RestartOn(n)
  PROVE  Within(n)
<1> USE DEF Within, Moves, Busy, Owner, Resetter, PCs, Jobs, OpenSection, CloseSection,
            RestartSection, Goto
<1>1. CASE RestartOff(n)
  BY <1>1, Zenon DEF RestartOff, pmVars, flagVars
<1>2. CASE ResetSuspend(n)
  BY <1>2, Zenon DEF ResetSuspend, pmVars
<1>3. CASE ResetOff(n)
  BY <1>3, Zenon DEF ResetOff, pmVars, flagVars
<1>4. CASE ResetOn(n)
  BY <1>4, Zenon DEF ResetOn, pmVars
<1>5. CASE ResetFails(n)
  BY <1>5, Zenon DEF ResetFails, pmVars
<1>6. CASE RestartOn(n)
  BY <1>6, Zenon DEF RestartOn, pmVars, flagVars
<1> QED
  BY <1>1, <1>2, <1>3, <1>4, <1>5, <1>6, Zenon

\* RestartLock finds the stream, or a NULL pointer.
LEMMA LockKind ==
  ASSUME NEW n \in Nodes, pc \in [Nodes -> PCs], job \in [Nodes -> Jobs],
         RestartLock(n) \/ RestartOops(n) \/ FwCloseOops(n)
  PROVE  Soft(n) /\ (Within(n) \/ Aside(n))
<1> USE DEF Soft, Moves, Parted, Cutting, OpenSection, CloseSection, RestartSection, PCs, Goto
<1>1. CASE RestartLock(n)
  BY <1>1 DEF RestartLock, Within, Aside, Busy, Owner, Resetter, nodeVars, flagVars, fwVars,
              pmVars, spVars
<1>2. CASE RestartOops(n)
  BY <1>2, Zenon DEF RestartOops, Aside, Busy, allButPc, nodeVars, flagVars, fwVars, pmVars, spVars
<1>3. CASE FwCloseOops(n)
  BY <1>3, Zenon DEF FwCloseOops, Aside, Busy, allButPc, nodeVars, flagVars, fwVars, pmVars, spVars
<1> QED
  BY <1>1, <1>2, <1>3, Zenon

\* A firmware open that fails ends a fw_get, or goes on in the restart.
LEMMA FailKind ==
  ASSUME NEW n \in Nodes, pc \in [Nodes -> PCs], job \in [Nodes -> Jobs],
         pc[n] \in OpenSection => job[n] \in {"get", "start"},
         FwPrepareFails(n) \/ FwComOpenFails(n)
  PROVE  Soft(n) /\ (Within(n) \/ Fail(n))
<1> USE DEF Soft, Moves, Parted, Cutting, Within, Fail, Busy, Owner, Resetter, OpenSection,
            CloseSection, RestartSection, PCs, Goto, OpenFailed, pmVars
<1>1. CASE FwPrepareFails(n)
  BY <1>1 DEF FwPrepareFails, nodeVars, fwVars, spVars
<1>2. CASE FwComOpenFails(n)
  BY <1>2 DEF FwComOpenFails, nodeVars, fwVars, spVars
<1> QED
  BY <1>1, <1>2, Zenon

\* A firmware open or close that ends.
LEMMA ReleaseKind ==
  ASSUME NEW n \in Nodes, pc \in [Nodes -> PCs], job \in [Nodes -> Jobs],
         pc[n] \in OpenSection => job[n] \in {"get", "start"},
         pc[n] \in CloseSection => job[n] # "none",
         FwReady(n) \/ FwReleased(n) \/ FwReleaseFails(n)
  PROVE  Within(n) \/ Leave(n) \/ Fail(n)
<1> USE DEF Moves, Within, Leave, Fail, Busy, Owner, Resetter, OpenSection, CloseSection,
            RestartSection, PCs, Jobs, Goto, OpenFailed, pmVars
<1>1. CASE FwReady(n)
  BY <1>1 DEF FwReady, JobDone, flagVars
<1>2. CASE FwReleased(n)
  BY <1>2 DEF FwReleased
<1>3. CASE FwReleaseFails(n)
  BY <1>3 DEF FwReleaseFails
<1> QED
  BY <1>1, <1>2, <1>3, Zenon

\* StartStreaming is a step aside too.
LEMMA StartKind ==
  ASSUME NEW n \in Nodes, pc \in [Nodes -> PCs], job \in [Nodes -> Jobs], StartStreaming(n)
  PROVE  Aside(n)
  BY Zenon DEF StartStreaming, Aside, Moves, Busy, Keeping, Serving, OpenSection, CloseSection,
         RestartSection, PCs, Goto, flagVars, pmVars

-----------------------------------------------------------------------------
(* One thread at a time has the firmware.                                  *)

\* The initial states satisfy OwnerInv: all nodes are closed.
LEMMA InitOwner == Init => OwnerInv
  BY DEF Init, OwnerInv, Owner, Resetter, PCs, Jobs, OpenSection, CloseSection, RestartSection

\* The kinds of steps keep it,
LEMMA KindOwner ==
  ASSUME OwnerInv, NEW n \in Nodes, Aside(n) \/ Within(n) \/ Leave(n) \/ Fail(n)
  PROVE  OwnerInv'
<1> USE DEF OwnerInv, Owner, Resetter, Moves, Busy
<1>1. CASE Aside(n)
  BY <1>1 DEF Aside
<1>2. CASE Within(n)
  <2>1. pc'[n] # "fw_put"
    BY <1>2, Zenon DEF Within, OpenSection, CloseSection, RestartSection
  <2> QED  BY <1>2, <2>1 DEF Within
<1>3. CASE Leave(n) \/ Fail(n)
  <2>1. /\ mutex' = {} /\ resetting' = resetting
        /\ pc'[n] \in {"start", "pm_put", "unwind"}
    BY <1>3, Zenon DEF Leave, Fail
  <2>2. \A m \in Nodes \ {n} : ~Owner(m)
    BY <1>3, Zenon DEF Leave, Fail
  <2>3. pc'[n] \notin OpenSection \cup CloseSection \cup RestartSection
    BY <2>1, Zenon DEF OpenSection, CloseSection, RestartSection
  <2>4. Moves(n)
    BY <1>3, Zenon DEF Leave, Fail
  <2> QED  BY <2>1, <2>2, <2>3, <2>4, Zenon
<1> QED
  BY <1>1, <1>2, <1>3, Zenon

\* and so do those that enter and leave the section, or get and put the device.
LEMMA EnterOwner ==
  ASSUME OwnerInv, NEW n \in Nodes,
         FwGet(n) \/ FwPut(n) \/ VideoOpenResets(n) \/ RestartEnd(n) \/ PmGet(n) \/ PmPut(n)
  PROVE  OwnerInv'
<1> USE DEF OwnerInv, Owner, Resetter, PCs, Jobs, OpenSection, CloseSection, RestartSection, Goto
<1>1. CASE FwGet(n)
  BY <1>1 DEF FwGet, MayLock
<1>2. CASE FwPut(n)
  BY <1>2 DEF FwPut, MayLock
<1>3. CASE VideoOpenResets(n)
  BY <1>3 DEF VideoOpenResets, MayLock
<1>4. CASE RestartEnd(n)
  BY <1>4 DEF RestartEnd
<1>5. CASE PmGet(n)
  BY <1>5, SMTT(20) DEF PmGet
<1>6. CASE PmPut(n)
  BY <1>6 DEF PmPut, AfterPut, JobDone, flagVars
<1> QED
  BY <1>1, <1>2, <1>3, <1>4, <1>5, <1>6, Zenon

\* The steps of a thread, for the counts.
Kind(n) == Aside(n) \/ Within(n) \/ Leave(n) \/ Fail(n)
Enter(n) ==
    FwGet(n) \/ FwPut(n) \/ VideoOpenResets(n) \/ RestartEnd(n) \/ PmGet(n) \/ PmPut(n)

\* There are no others.
LEMMA StepKind ==
  ASSUME OwnerInv, usage # 0 => rpm = "active",
         NEW n \in Nodes, User(n) \/ Call(n)
  PROVE  Kind(n) \/ Enter(n)
<1>1. /\ pc \in [Nodes -> PCs] /\ job \in [Nodes -> Jobs]
      /\ pc[n] \in OpenSection => job[n] \in {"get", "start"}
      /\ pc[n] \in CloseSection => job[n] # "none"
  BY Zenon DEF OwnerInv
<1>2. CASE User(n)
  BY <1>1, <1>2, UserKind, Zenon DEF User, Kind
<1>3. CASE FwSection(n)
  BY <1>1, <1>3, SectionKind, FailKind, ReleaseKind, LockKind, Zenon DEF FwSection, Kind
<1>4. CASE Call(n) /\ ~FwSection(n)
  BY <1>1, <1>4, OpenKind, EndKind, RestartKind, ResetKind, LockKind, StartKind, Zenon
     DEF Call, Kind, Enter
<1> QED
  BY <1>2, <1>3, <1>4, Zenon

-----------------------------------------------------------------------------
(* The two counts are right.                                               *)

\* A step after which the same threads hold the device, or the kernel has oopsed,
LEMMA SameHolders ==
  ASSUME UsageInv, ~Oopsed, usage' = usage, usage # 0 => rpm' = rpm, Holders' = Holders \/ Oopsed'
  PROVE  UsageInv'
  BY Zenon DEF UsageInv

\* one after which thread n no longer holds it,
LEMMA OneHolderLess ==
  ASSUME UsageInv, ~Oopsed, NEW n \in Nodes, n \in Holders, Holders' = Holders \ {n},
         usage' = usage - 1, rpm' = rpm
  PROVE  UsageInv'
<1>1. usage \in Nat /\ Counts(usage, Holders)
  BY Zenon DEF UsageInv
<1>2. usage # 0 /\ Counts(usage - 1, Holders \ {n})
  BY <1>1, CountLess, Zenon
<1>3. usage' \in Nat /\ rpm' = "active"
  BY <1>1, <1>2 DEF UsageInv
<1>4. Counts(usage', Holders')
  BY <1>2, Zenon
<1> QED
  BY <1>3, <1>4, Zenon DEF UsageInv

\* one after which it holds it too.
LEMMA OneHolderMore ==
  ASSUME UsageInv, ~Oopsed, NEW n \in Nodes, n \notin Holders, Holders' = Holders \cup {n},
         usage' = usage + 1, rpm' = "active"
  PROVE  UsageInv'
<1>1. usage \in Nat /\ Counts(usage, Holders)
  BY Zenon DEF UsageInv
<1>2. Counts(usage + 1, Holders \cup {n})
  BY <1>1, CountMore, Zenon
<1>3. usage' \in Nat
  BY <1>1
<1>4. Counts(usage', Holders')
  BY <1>2, Zenon
<1> QED
  BY <1>3, <1>4, Zenon DEF UsageInv

\* The kinds of steps keep the usage count right,
LEMMA KindUsage ==
  ASSUME UsageInv, OwnerInv, ~Oopsed, NEW n \in Nodes, Kind(n)
  PROVE  UsageInv'
<1>0. pc \in [Nodes -> PCs] /\ job \in [Nodes -> Jobs]
  BY Zenon DEF OwnerInv
<1>1. CASE Aside(n)
  <2>1. Holders' = Holders \/ Oopsed'
    BY <1>0, <1>1, Zenon DEF Aside, Moves, Busy, Holders, Holds, Owner, Oopsed
  <2> QED  BY <1>1, <2>1, SameHolders, Zenon DEF Aside
<1>2. CASE Within(n)
  <2>1. pc[n] \notin Keeping /\ pc'[n] \notin Keeping
    BY <1>2, Zenon DEF Within, Busy, Keeping, OpenSection, CloseSection, RestartSection
  <2>2. Holders' = Holders
    BY <1>2, <2>1, Zenon DEF Within, Moves, Holders, Holds, Owner
  <2> QED  BY <1>2, <2>2, SameHolders, Zenon DEF Within
<1>3. CASE Leave(n)
  <2>1. Holders' = Holders
    BY <1>0, <1>3, Zenon DEF Leave, Moves, Holders, Holds, Keeping, Owner
  <2> QED  BY <1>3, <2>1, SameHolders, Zenon DEF Leave
<1>4. CASE Fail(n)
  <2>1. n \in Holders /\ Holders' = Holders \ {n}
    BY <1>0, <1>4, Zenon DEF Fail, Moves, Holders, Holds, Keeping, Owner, OpenSection, CloseSection
  <2> QED  BY <1>4, <2>1, OneHolderLess, Zenon DEF Fail
<1> QED
  BY <1>1, <1>2, <1>3, <1>4, Zenon DEF Kind

\* and so do the others.
LEMMA EnterUsage ==
  ASSUME UsageInv, OwnerInv, ~Oopsed, NEW n \in Nodes, Enter(n)
  PROVE  UsageInv'
<1>0. pc \in [Nodes -> PCs] /\ job \in [Nodes -> Jobs]
  BY DEF OwnerInv
<1> USE <1>0 DEF Holders, Holds, Keeping, Owner, OpenSection, CloseSection, Goto
<1>1. CASE FwGet(n)
  BY <1>1, SameHolders, Zenon DEF FwGet, pmVars
<1>2. CASE FwPut(n)
  <2>1. job[n] \in {"put", "abort"}
    BY <1>2, Zenon DEF FwPut, OwnerInv
  <2> QED  BY <1>2, <2>1, SameHolders, Zenon DEF FwPut, pmVars
<1>3. CASE VideoOpenResets(n)
  BY <1>3, SameHolders, Zenon DEF VideoOpenResets, pmVars
<1>4. CASE RestartEnd(n)
  BY <1>4, SameHolders, Zenon DEF RestartEnd, pmVars
<1>5. CASE PmGet(n)
  <2>1. n \notin Holders /\ Holders' = Holders \cup {n} /\ usage' = usage + 1 /\ rpm' = "active"
    BY <1>5, Zenon DEF PmGet
  <2> QED  BY <2>1, OneHolderMore, Zenon
<1>6. CASE PmPut(n)
  <2>1. n \in Holders /\ Holders' = Holders \ {n} /\ usage' = usage - 1 /\ rpm' = rpm
    BY <1>6 DEF PmPut, AfterPut, JobDone
  <2> QED  BY <2>1, OneHolderLess, Zenon
<1> QED
  BY <1>1, <1>2, <1>3, <1>4, <1>5, <1>6, Zenon DEF Enter

\* A step in which thread n gives back its reference to the firmware,
LEMMA OneStreamerLess ==
  ASSUME RefInv, ~Oopsed, NEW n \in Nodes, n \in Streamers, Streamers' = Streamers \ {n},
         ref_count' = ref_count - 1
  PROVE  ref_count' \in Nat /\ Counts(ref_count', Streamers')
<1>1. ref_count \in Nat /\ Counts(ref_count, Streamers)
  BY Zenon DEF RefInv
<1>2. ref_count # 0 /\ Counts(ref_count - 1, Streamers \ {n})
  BY <1>1, CountLess, Zenon
<1>3. ref_count' \in Nat
  BY <1>1, <1>2
<1> QED
  BY <1>2, <1>3, Zenon

\* and one in which it takes one.
LEMMA OneStreamerMore ==
  ASSUME RefInv, ~Oopsed, NEW n \in Nodes, n \notin Streamers, Streamers' = Streamers \cup {n},
         ref_count' = ref_count + 1
  PROVE  ref_count' \in Nat /\ Counts(ref_count', Streamers')
<1>1. ref_count \in Nat /\ Counts(ref_count, Streamers)
  BY Zenon DEF RefInv
<1>2. Counts(ref_count + 1, Streamers \cup {n})
  BY <1>1, CountMore, Zenon
<1>3. ref_count' \in Nat
  BY <1>1
<1> QED
  BY <1>2, <1>3, Zenon

\* The kinds of steps keep the reference count right,
LEMMA KindRef ==
  ASSUME RefInv, OwnerInv, ~Oopsed, NEW n \in Nodes, Kind(n)
  PROVE  RefInv'
<1>0. pc \in [Nodes -> PCs] /\ job \in [Nodes -> Jobs]
  BY DEF OwnerInv
<1>1. CASE Aside(n)
  <2>1. Streamers' = Streamers \/ Oopsed'
    BY <1>0, <1>1, Zenon DEF Aside, Moves, Busy, Streamers, Streams, Owner, Oopsed
  <2> QED  BY <1>1, <2>1, Zenon DEF Aside, Moves, Busy, Owner, RefInv
<1>2. CASE Within(n)
  <2>1. pc[n] \notin Serving /\ pc'[n] \notin Serving
    BY <1>2, Zenon DEF Within, Busy, Serving, OpenSection, CloseSection, RestartSection
  <2>2. Streamers' = Streamers
    BY <1>2, <2>1, Zenon DEF Within, Moves, Streamers, Streams, Owner
  <2> QED  BY <1>2, <2>2, Zenon DEF Within, Moves, Owner, RefInv
<1>3. CASE Leave(n) \/ Fail(n)
  <2>1. \A m \in Nodes \ {n} : ~Owner(m)
    BY <1>3, Zenon DEF Leave, Fail, OwnerInv
  <2>2. \A m \in Nodes : ~Owner(m)'
    BY <1>0, <1>3, <2>1, Zenon DEF Leave, Fail, Moves, Owner, OpenSection, CloseSection
  <2>3. CASE Leave(n)
    <3>1. Streamers' = Streamers
      BY <1>0, <2>3, Zenon DEF Leave, Moves, Streamers, Streams, Serving, Owner, OpenSection, CloseSection
    <3> QED  BY <2>2, <2>3, <3>1, Zenon DEF Leave, RefInv
  <2>4. CASE Fail(n)
    <3>1. n \in Streamers /\ Streamers' = Streamers \ {n}
      BY <1>0, <2>4, Zenon DEF Fail, Moves, Streamers, Streams, Serving, Owner, OpenSection, CloseSection
    <3>2. ref_count' \in Nat /\ Counts(ref_count', Streamers')
      BY <2>4, <3>1, OneStreamerLess, Zenon DEF Fail
    <3> QED  BY <2>2, <3>2, Zenon DEF RefInv
  <2> QED  BY <1>3, <2>3, <2>4, Zenon
<1> QED
  BY <1>1, <1>2, <1>3, Zenon DEF Kind

\* and so do fw_get, which finds no thread in the section,
LEMMA GetRef ==
  ASSUME RefInv, OwnerInv, ~Oopsed, NEW n \in Nodes, FwGet(n)
  PROVE  RefInv'
<1>0. pc \in [Nodes -> PCs] /\ job \in [Nodes -> Jobs]
  BY Zenon DEF OwnerInv
<1>1. \A m \in Nodes : ~Owner(m)
  BY Zenon DEF FwGet, MayLock, OwnerInv
<1>2. n \notin Streamers /\ Streamers' = Streamers \cup {n}
  BY <1>0, Zenon DEF FwGet, Goto, Streamers, Streams, Serving, Owner, OpenSection, CloseSection
<1>3. ref_count' = ref_count + 1
  BY Zenon DEF FwGet
<1>4. ref_count' \in Nat /\ Counts(ref_count', Streamers')
  BY <1>2, <1>3, OneStreamerMore, Zenon
<1>5. \A m \in Nodes : Owner(m)' => ref_count = 0 /\ job'[m] = "get"
  BY <1>0, <1>1, Zenon DEF FwGet, Goto, Owner, OpenSection, CloseSection
<1>6. \A m \in Nodes : Owner(m)' => ref_count' = IF job'[m] = "get" THEN 1 ELSE 0
  BY <1>3, <1>5
<1> QED
  BY <1>4, <1>6, Zenon DEF RefInv

\* fw_put,
LEMMA PutRef ==
  ASSUME RefInv, OwnerInv, ~Oopsed, NEW n \in Nodes, FwPut(n)
  PROVE  RefInv'
<1>0. /\ pc \in [Nodes -> PCs] /\ job \in [Nodes -> Jobs]
      /\ job[n] \in {"put", "abort"}
  BY Zenon DEF OwnerInv, FwPut
<1>1. \A m \in Nodes : ~Owner(m)
  BY Zenon DEF FwPut, MayLock, OwnerInv
<1>2. n \in Streamers /\ Streamers' = Streamers \ {n}
  BY <1>0, Zenon DEF FwPut, Goto, Streamers, Streams, Serving, Owner, OpenSection, CloseSection
<1>3. ref_count' = ref_count - 1
  BY Zenon DEF FwPut
<1>4. ref_count' \in Nat /\ Counts(ref_count', Streamers')
  BY <1>2, <1>3, OneStreamerLess, Zenon
<1>5. \A m \in Nodes : Owner(m)' => ref_count = 1 /\ job'[m] # "get"
  BY <1>0, <1>1, Zenon DEF FwPut, Goto, Owner, OpenSection, CloseSection
<1>6. \A m \in Nodes : Owner(m)' => ref_count' = IF job'[m] = "get" THEN 1 ELSE 0
  BY <1>3, <1>5
<1> QED
  BY <1>4, <1>6, Zenon DEF RefInv

\* and the steps that are not about the firmware.
LEMMA EnterRef ==
  ASSUME RefInv, OwnerInv, ~Oopsed, NEW n \in Nodes, Enter(n)
  PROVE  RefInv'
<1>0. pc \in [Nodes -> PCs] /\ job \in [Nodes -> Jobs]
  BY DEF OwnerInv
<1>1. ASSUME /\ Streamers' = Streamers /\ ref_count' = ref_count
             /\ \A m \in Nodes : Owner(m)' => Owner(m) /\ job'[m] = job[m]
      PROVE  RefInv'
  BY <1>1, Zenon DEF RefInv
<1> USE <1>0 DEF Streamers, Streams, Serving, Owner, OpenSection, CloseSection, Goto
<1>2. CASE VideoOpenResets(n)
  BY <1>1, <1>2, Zenon DEF VideoOpenResets
<1>3. CASE RestartEnd(n)
  BY <1>1, <1>3, Zenon DEF RestartEnd
<1>4. CASE PmGet(n)
  BY <1>1, <1>4, Zenon DEF PmGet
<1>5. CASE PmPut(n)
  BY <1>1, <1>5 DEF PmPut, AfterPut, JobDone, flagVars
<1> QED
  BY <1>2, <1>3, <1>4, <1>5, GetRef, PutRef, Zenon DEF Enter

\* The three invariants together.
CountInv == OwnerInv /\ UsageInv /\ RefInv

\* The device's own steps keep them.
LEMMA DeviceCounts ==
  ASSUME CountInv, ~Oopsed, Pm \/ SpStep \/ IsrEnter \/ IsrLeave
  PROVE  CountInv'
<1>1. UNCHANGED <<pc, job, mutex, resetting, ref_count, usage>> /\ (usage # 0 => rpm' = rpm)
  BY Zenon DEF Pm, PmIdle, PmSuspend, PmClear, PmOff, PmOffFails, SpStep, IsrEnter, IsrLeave, pmVars,
         flagVars, CountInv, UsageInv
<1>2. OwnerInv'
  BY <1>1, Zenon DEF CountInv, OwnerInv, Owner, Resetter
<1>3. UsageInv'
  BY <1>1, Zenon DEF CountInv, UsageInv, Holders, Holds, Owner, Oopsed
<1>4. RefInv'
  BY <1>1, Zenon DEF CountInv, RefInv, Streamers, Streams, Owner, Oopsed
<1> QED
  BY <1>2, <1>3, <1>4, Zenon DEF CountInv

\* Every step keeps them.
LEMMA NextCounts == CountInv /\ [Next]_vars => CountInv'
<1> SUFFICES ASSUME CountInv, [Next]_vars PROVE CountInv'
  BY Zenon
<1>1. CASE Halted \/ UNCHANGED vars
  <2>1. UNCHANGED <<pc, job, mutex, resetting, ref_count, usage, rpm>>
    BY <1>1, Zenon DEF Halted, vars, allButPc, pmVars, flagVars
  <2> QED  BY <2>1, Zenon DEF CountInv, OwnerInv, UsageInv, RefInv, Owner, Resetter, Holders, Holds,
                       Streamers, Streams, Oopsed
<1>2. ASSUME ~Oopsed, NEW n \in Nodes, User(n) \/ Call(n)
      PROVE  CountInv'
  <2>1. OwnerInv /\ UsageInv /\ RefInv /\ (usage # 0 => rpm = "active")
    BY Zenon DEF CountInv, UsageInv
  <2>2. Kind(n) \/ Enter(n)
    BY <1>2, <2>1, StepKind, Zenon
  <2>3. OwnerInv'
    BY <2>1, <2>2, KindOwner, EnterOwner, Zenon DEF Kind, Enter
  <2>4. UsageInv'
    BY <1>2, <2>1, <2>2, KindUsage, EnterUsage, Zenon
  <2>5. RefInv'
    BY <1>2, <2>1, <2>2, KindRef, EnterRef, Zenon
  <2> QED  BY <2>3, <2>4, <2>5, Zenon DEF CountInv
<1>3. CASE ~Oopsed /\ (Pm \/ SpStep \/ IsrEnter \/ IsrLeave)
  BY <1>3, DeviceCounts, Zenon
<1> QED
  BY <1>1, <1>2, <1>3, Zenon DEF Next

\* Initially nothing is held or counted.
LEMMA InitCounts == Init => CountInv
<1>1. Init => Holders = {} /\ Streamers = {}
  BY DEF Init, Holders, Holds, Keeping, Streamers, Streams, Serving, Owner, OpenSection,
         CloseSection
<1>2. Init => UsageInv
  BY <1>1, CountNone DEF Init, UsageInv
<1>3. Init => RefInv
  BY <1>1, CountNone DEF Init, RefInv, Owner, OpenSection, CloseSection
<1> QED
  BY <1>2, <1>3, InitOwner, Zenon DEF CountInv

\* In every behaviour the section has one right owner, and the usage count of
\* runtime PM and isys->ref_count count the threads between a get and its put:
\* no error path forgets one or gives it back twice.
THEOREM CountsKept == Spec => []CountInv
  BY InitCounts, NextCounts, PTL DEF Spec

\* OwnerInv leaves room for one thread in the firmware section.
LEMMA OneOwner == OwnerInv => OneFwOwner
  BY DEF OwnerInv, OneFwOwner, FwBusy, Owner, Resetter, RestartSection, Jobs

\* Two threads are never both opening, closing or power-cycling the firmware,
\* though restart_stream does so without isys->mutex.
THEOREM FirmwareExclusive == Spec => []OneFwOwner
<1>1. CountInv => OneFwOwner
  BY OneOwner, Zenon DEF CountInv
<1> QED
  BY <1>1, CountsKept, PTL

-----------------------------------------------------------------------------
(* The interrupt handler and the context it uses.                          *)

\* The inductive strengthening of IsrContextLive: a context that is about to be
\* released was taken away first, unless it is released by force, in fw_get, and
\* then a handler that may still use it is recorded; a handler that runs while
\* the device is being powered off has a live one.
IsrInv ==
    /\ IsrContextLive
    /\ \A n \in Nodes :
         /\ pc[n] \in Parted \/ (pc[n] = "fw_cleanup" /\ job[n] = "start") => ~fwcom /\ ~isr
         /\ pc[n] = "fw_release" => live
         /\ pc[n] = "fw_clear" =>
               job[n] = "get" /\ (sp \in {"booting", "ready", "stopping"} => stale)
    /\ fwcom /\ ~live => \E n \in Nodes : pc[n] = "fw_clear"
    /\ isr /\ rpm \in {"s_clear", "s_off"} => live

\* A thread that holds the device finds it active.
LEMMA HolderAwake ==
  ASSUME UsageInv, ~Oopsed, NEW n \in Nodes, Holds(n)
  PROVE  rpm = "active"
<1>1. usage \in Nat /\ Counts(usage, Holders) /\ n \in Holders
  BY Zenon DEF UsageInv, Holders
<1>2. usage # 0
  BY <1>1, CountSome, Zenon
<1> QED
  BY <1>2, Zenon DEF UsageInv

\* What the steps need to know of thread n: it is alone in the section, and a
\* context is released by force only in fw_get, with the device active.
Alone(n) ==
    /\ pc \in [Nodes -> PCs] /\ job \in [Nodes -> Jobs]
    /\ \A m \in Nodes : pc[m] \in FwBusy /\ pc[n] \in FwBusy => m = n
    /\ pc[n] = "fw_clear" \/ (pc[n] = "fw_cleanup" /\ fwcom) => rpm = "active" /\ job[n] = "get"
    /\ pc[n] \in OpenSection => job[n] \in {"get", "start"}

\* The invariants give it to every thread.
LEMMA AloneThere ==
  ASSUME CountInv, IsrInv, ~Oopsed, NEW n \in Nodes
  PROVE  Alone(n)
<1>1. OwnerInv /\ UsageInv
  BY Zenon DEF CountInv
<1>2. \A m \in Nodes : pc[m] \in FwBusy /\ pc[n] \in FwBusy => m = n
  BY <1>1, OneOwner, Zenon DEF OneFwOwner
<1>3. /\ pc \in [Nodes -> PCs] /\ job \in [Nodes -> Jobs]
      /\ pc[n] \in OpenSection => job[n] \in {"get", "start"}
  BY <1>1, Zenon DEF OwnerInv
<1>4. ASSUME pc[n] = "fw_clear" \/ (pc[n] = "fw_cleanup" /\ fwcom)
      PROVE  rpm = "active" /\ job[n] = "get"
  <2>1. job[n] = "get"
    BY <1>3, <1>4, Zenon DEF IsrInv, OpenSection
  <2>2. Holds(n)
    BY <1>4, <2>1, Zenon DEF Holds, Owner, OpenSection
  <2> QED  BY <1>1, <2>1, <2>2, HolderAwake, Zenon
<1> QED
  BY <1>2, <1>3, <1>4, Zenon DEF Alone

\* A step that leaves the device alone keeps IsrInv,
LEMMA SoftIsr ==
  ASSUME IsrInv, NEW n \in Nodes, Soft(n)
  PROVE  IsrInv'
  BY Zenon DEF IsrInv, IsrContextLive, Soft, Moves, Parted, OpenSection

\* and so does the forced release of a context that was left over,
LEMMA CleanupIsr ==
  ASSUME IsrInv, NEW n \in Nodes, Alone(n), FwCleanup(n)
  PROVE  IsrInv'
<1>1. CASE ~fwcom
  BY <1>1, Zenon DEF Alone, IsrInv, IsrContextLive, Parted, Goto, FwCleanup, pmVars
<1>2. CASE fwcom
  <2>1. /\ \A m \in Nodes \ {n} : pc'[m] \notin Parted \cup {"fw_cleanup", "fw_clear"}
        /\ pc'[n] = "fw_clear" /\ job[n] = "get" /\ rpm = "active"
    BY <1>2, Zenon DEF FwCleanup, Goto, Alone, Parted, FwBusy, OpenSection, CloseSection
  <2>2. live' = FALSE /\ stale' = (stale \/ isr \/ sp \in {"booting", "ready", "stopping"})
    BY <1>2, Zenon DEF FwCleanup
  <2>3. UNCHANGED <<job, fwcom, rpm, sp, isr>>
    BY Zenon DEF FwCleanup, pmVars
  <2>4. pc'[n] \notin Parted \cup {"fw_cleanup"}
    BY <2>1, Zenon DEF Parted
  <2>5. \A m \in Nodes :
          /\ pc'[m] \notin Parted /\ pc'[m] # "fw_cleanup"
          /\ pc'[m] = "fw_clear" => m = n
    BY <2>1, <2>4, Zenon
  <2>6. \A m \in Nodes : pc'[m] # "fw_release"
    BY <2>5, Zenon DEF Parted
  <2> QED  BY <2>1, <2>2, <2>3, <2>5, <2>6, Zenon DEF IsrInv, IsrContextLive
<1> QED
  BY <1>1, <1>2, Zenon

\* opening the firmware,
LEMMA OpenIsr ==
  ASSUME IsrInv, NEW n \in Nodes, Alone(n),
         FwClear(n) \/ FwPrepare(n) \/ FwComOpen(n) \/ FwReady(n)
  PROVE  IsrInv'
<1> USE DEF Alone, IsrInv, IsrContextLive, Parted, FwBusy, OpenSection, CloseSection,
            Goto
<1>1. CASE FwClear(n)
  BY <1>1, Zenon DEF FwClear, pmVars, spVars, flagVars
<1>2. CASE FwPrepare(n)
  BY <1>2, Zenon DEF FwPrepare, pmVars, spVars, flagVars
<1>3. CASE FwComOpen(n)
  BY <1>3, Zenon DEF FwComOpen, fwVars, pmVars, flagVars
<1>4. CASE FwReady(n)
  BY <1>4 DEF FwReady, JobDone, fwVars, pmVars, spVars, flagVars
<1> QED
  BY <1>1, <1>2, <1>3, <1>4, Zenon

\* closing it,
LEMMA CloseIsr ==
  ASSUME IsrInv, NEW n \in Nodes, Alone(n),
         FwClose(n) \/ FwReleased(n) \/ FwReleaseFails(n) \/ PmGet(n) \/
             StartStreaming(n)
  PROVE  IsrInv'
<1> USE DEF Alone, IsrInv, IsrContextLive, Parted, FwBusy, OpenSection, CloseSection,
            Goto
<1>1. CASE FwClose(n)
  BY <1>1, Zenon DEF FwClose, pmVars, flagVars
<1>2. CASE FwReleased(n)
  BY <1>2 DEF FwReleased, OpenFailed, pmVars, spVars
<1>3. CASE FwReleaseFails(n)
  BY <1>3 DEF FwReleaseFails, OpenFailed, pmVars, spVars
<1>4. CASE PmGet(n)
  BY <1>4, Zenon DEF PmGet, fwVars
<1>5. CASE StartStreaming(n)
  BY <1>5, Zenon DEF StartStreaming, fwVars, pmVars, spVars, flagVars
<1> QED
  BY <1>1, <1>2, <1>3, <1>4, <1>5, Zenon

\* and the power cycle of a restart.
LEMMA ResetIsr ==
  ASSUME IsrInv, NEW n \in Nodes, Alone(n),
         RestartOff(n) \/ ResetSuspend(n) \/ ResetOff(n) \/ ResetOn(n) \/ ResetFails(n)
             \/ RestartOn(n)
  PROVE  IsrInv'
<1> USE DEF Alone, IsrInv, IsrContextLive, Parted, FwBusy, OpenSection, CloseSection,
            Goto
<1>1. CASE RestartOff(n)
  BY <1>1, Zenon DEF RestartOff, fwVars, pmVars, spVars, flagVars
<1>2. CASE ResetSuspend(n)
  BY <1>2, Zenon DEF ResetSuspend, fwVars, pmVars, spVars
<1>3. CASE ResetOff(n)
  BY <1>3, Zenon DEF ResetOff, fwVars, pmVars, flagVars
<1>4. CASE ResetOn(n)
  BY <1>4, Zenon DEF ResetOn, fwVars, pmVars
<1>5. CASE ResetFails(n)
  BY <1>5, Zenon DEF ResetFails, fwVars, pmVars, spVars
<1>6. CASE RestartOn(n)
  BY <1>6, Zenon DEF RestartOn, fwVars, pmVars, spVars, flagVars
<1> QED
  BY <1>1, <1>2, <1>3, <1>4, <1>5, <1>6, Zenon

\* Runtime PM, the SP and the interrupt handler keep it too.
LEMMA DeviceIsr ==
  ASSUME IsrInv, \A n \in Nodes : pc[n] = "fw_clear" => rpm = "active",
         PmIdle \/ PmSuspend \/ PmClear \/ PmOff \/ PmOffFails \/ SpStep \/ IsrEnter \/
             IsrLeave
  PROVE  IsrInv'
<1> USE DEF IsrInv, IsrContextLive, Parted
<1>1. CASE PmIdle
  BY <1>1, Zenon DEF PmIdle, fwVars, spVars, flagVars
<1>2. CASE PmSuspend
  BY <1>2, Zenon DEF PmSuspend, fwVars, spVars
<1>3. CASE PmClear
  BY <1>3, Zenon DEF PmClear, fwVars, spVars
<1>4. CASE PmOff
  BY <1>4, Zenon DEF PmOff, fwVars, flagVars
<1>5. CASE PmOffFails
  BY <1>5, Zenon DEF PmOffFails, fwVars, spVars
<1>6. CASE SpStep
  BY <1>6, Zenon DEF SpStep, fwVars, pmVars, flagVars
<1>7. CASE IsrEnter
  BY <1>7, Zenon DEF IsrEnter, fwVars, pmVars, spVars, flagVars
<1>8. CASE IsrLeave
  BY <1>8, Zenon DEF IsrLeave, fwVars, pmVars, spVars, flagVars
<1> QED
  BY <1>1, <1>2, <1>3, <1>4, <1>5, <1>6, <1>7, <1>8, Zenon

\* Entering and leaving the section leaves the device alone, but for PmGet.
LEMMA EnterSoft ==
  ASSUME NEW n \in Nodes, pc \in [Nodes -> PCs], job \in [Nodes -> Jobs],
         pc[n] = "fw_put" => job[n] \in {"put", "abort"},
         FwGet(n) \/ FwPut(n) \/ VideoOpenResets(n) \/ RestartEnd(n) \/ PmPut(n) \/
             FwNotReady(n)
  PROVE  Soft(n)
<1> USE DEF Soft, Moves, PCs, Jobs, OpenSection, CloseSection, RestartSection, Parted,
            Cutting, Goto
<1>1. CASE FwGet(n)
  BY <1>1 DEF FwGet, MayLock, nodeVars, fwVars, pmVars, spVars
<1>2. CASE FwPut(n)
  BY <1>2 DEF FwPut, MayLock, nodeVars, fwVars, pmVars, spVars
<1>3. CASE VideoOpenResets(n)
  BY <1>3, Zenon DEF VideoOpenResets, nodeVars, fwVars, pmVars, spVars
<1>4. CASE RestartEnd(n)
  BY <1>4, Zenon DEF RestartEnd, nodeVars, fwVars, pmVars, spVars
<1>5. CASE PmPut(n)
  BY <1>5 DEF PmPut, AfterPut, JobDone, nodeVars, fwVars, spVars, flagVars
<1>6. CASE FwNotReady(n)
  BY <1>6, Zenon DEF FwNotReady, allButPc, nodeVars, fwVars, pmVars, spVars, flagVars
<1> QED
  BY <1>1, <1>2, <1>3, <1>4, <1>5, <1>6, Zenon

\* The steps of a thread: those that leave the device alone and the others.
Hard(n) ==
    \/ FwCleanup(n) \/ FwClear(n) \/ FwPrepare(n) \/ FwComOpen(n) \/ FwReady(n) \/ FwClose(n)
    \/ FwReleased(n) \/ FwReleaseFails(n) \/ PmGet(n) \/ StartStreaming(n) \/ RestartOff(n)
    \/ ResetSuspend(n) \/ ResetOff(n) \/ ResetOn(n) \/ ResetFails(n) \/ RestartOn(n)

\* There are no others.
LEMMA StepHard ==
  ASSUME CountInv, streaming \in [Nodes -> BOOLEAN], NEW n \in Nodes, User(n) \/ Call(n)
  PROVE  Soft(n) \/ Hard(n)
<1>1. /\ pc \in [Nodes -> PCs] /\ job \in [Nodes -> Jobs]
      /\ pc[n] \in OpenSection => job[n] \in {"get", "start"}
      /\ pc[n] = "fw_put" => job[n] \in {"put", "abort"}
      /\ usage # 0 => rpm = "active"
  BY Zenon DEF CountInv, OwnerInv, UsageInv
<1>2. CASE User(n)
  BY <1>1, <1>2, UserKind, Zenon DEF User
<1>3. CASE FwSection(n)
  BY <1>1, <1>3, FailKind, LockKind, EnterSoft, Zenon DEF FwSection, Hard
<1>4. CASE Call(n) /\ ~FwSection(n)
  BY <1>1, <1>4, OpenKind, EndKind, RestartKind, LockKind, EnterSoft, Zenon DEF Call, Hard
<1> QED
  BY <1>2, <1>3, <1>4, Zenon

\* Every step keeps IsrInv.
LEMMA NextIsr ==
  CountInv /\ IsrInv /\ streaming \in [Nodes -> BOOLEAN] /\ [Next]_vars => IsrInv'
<1> SUFFICES ASSUME CountInv, IsrInv, streaming \in [Nodes -> BOOLEAN], [Next]_vars PROVE IsrInv'
  BY Zenon
<1>1. CASE Halted \/ UNCHANGED vars
  BY <1>1 DEF Halted, vars, allButPc, fwVars, pmVars, spVars, IsrInv, IsrContextLive
<1>2. ASSUME ~Oopsed, NEW n \in Nodes, User(n) \/ Call(n)
      PROVE  IsrInv'
  <2>1. Alone(n) /\ (Soft(n) \/ Hard(n))
    BY <1>2, AloneThere, StepHard, Zenon
  <2> QED
    BY <2>1, SoftIsr, CleanupIsr, OpenIsr, CloseIsr, ResetIsr, Zenon DEF Hard
<1>3. CASE ~Oopsed /\ (Pm \/ SpStep \/ IsrEnter \/ IsrLeave)
  <2>1. \A n \in Nodes : pc[n] = "fw_clear" => rpm = "active"
    BY <1>3, AloneThere, Zenon DEF Alone
  <2> QED
    BY <1>3, <2>1, DeviceIsr, Zenon DEF Pm
<1> QED
  BY <1>1, <1>2, <1>3, Zenon DEF Next

-----------------------------------------------------------------------------
(* A node that streams has the firmware.                                   *)

\* A restart that has opened the firmware again.
Starting(n) == (pc[n] \in OpenSection /\ job[n] = "start") \/ pc[n] = "r_on"

\* The inductive strengthening of FirmwareServes: while a stream is restarted any
\* other is cut off, and what the restart has set up stays for the stream it
\* then turns on.
ServeInv ==
    /\ streaming \in [Nodes -> BOOLEAN]
    /\ FirmwareServes
    /\ \A r, m \in Nodes : pc[m] = "running" =>
         /\ Cutting(r) /\ streaming[m] => m \in cut
         /\ Starting(r) => power
         /\ Starting(r) /\ pc[r] \in {"fw_com_open", "fw_ready", "r_on"} => fwcom
         /\ pc[r] = "r_on" => sp = "ready"

\* What the steps need to know of thread n: while it opens or closes the firmware
\* for fw_get or fw_put nobody streams; a node that streams keeps the device
\* active; a context that a stream or a restart relies on is live.
Relied(n) ==
    /\ pc \in [Nodes -> PCs] /\ job \in [Nodes -> Jobs]
    /\ Owner(n) => \A m \in Nodes : pc[m] # "running"
    /\ \A m \in Nodes : pc[m] = "running" => rpm = "active"
    /\ \A m \in Nodes : Resetter(m) /\ Resetter(n) => m = n
    /\ fwcom /\ pc[n] \in {"start", "r_on"} => live
    /\ pc[n] \in OpenSection => job[n] \in {"get", "start"}
    /\ pc[n] \in CloseSection => job[n] # "none"

\* fw_get opens the firmware for the first stream, fw_put closes it after the
\* last one.
LEMMA OwnerRelied ==
  ASSUME CountInv, ~Oopsed, NEW n \in Nodes, Owner(n), NEW m \in Nodes
  PROVE  pc[m] \notin {"running", "start"}
<1>1. /\ ref_count \in Nat /\ Counts(ref_count, Streamers)
      /\ ref_count = IF job[n] = "get" THEN 1 ELSE 0
  BY Zenon DEF CountInv, RefInv
<1>2. ASSUME pc[m] \in {"running", "start"}
      PROVE  FALSE
  <2>1. m \in Streamers /\ m # n
    BY <1>2, Zenon DEF Streamers, Streams, Serving, Owner, OpenSection, CloseSection
  <2>2. CASE job[n] = "get"
    <3>1. n \in Streamers /\ Counts(1, Streamers)
      BY <1>1, <2>2, Zenon DEF Streamers, Streams
    <3> QED  BY <2>1, <3>1, CountOne, Zenon
  <2>3. CASE job[n] # "get"
    <3>1. Counts(0, Streamers)
      BY <1>1, <2>3, Zenon
    <3> QED  BY <2>1, <3>1, CountSome, Zenon
  <2> QED  BY <2>2, <2>3, Zenon
<1> QED
  BY <1>2, Zenon

\* All of it holds of every thread.
LEMMA ReliedThere ==
  ASSUME CountInv, IsrInv, ~Oopsed, NEW n \in Nodes
  PROVE  Relied(n)
<1>1. OwnerInv /\ UsageInv
  BY Zenon DEF CountInv
<1>2. Owner(n) => \A m \in Nodes : pc[m] # "running"
  BY OwnerRelied, Zenon
<1>3. \A m \in Nodes : pc[m] = "running" => rpm = "active"
  <2>1. \A m \in Nodes : pc[m] = "running" => Holds(m)
    BY Zenon DEF Holds, Keeping
  <2> QED  BY <1>1, <2>1, HolderAwake, Zenon
<1>4. ASSUME fwcom, ~live, pc[n] \in {"start", "r_on"}
      PROVE  FALSE
  <2>1. PICK k \in Nodes : pc[k] = "fw_clear" /\ job[k] = "get"
    BY <1>4, Zenon DEF IsrInv
  <2>2. Owner(k)
    BY <2>1, Zenon DEF Owner, OpenSection
  <2>3. pc[n] = "r_on"
    BY <1>4, <2>2, OwnerRelied, Zenon
  <2>4. resetting /\ mutex = {k} /\ mutex = {}
    BY <1>1, <2>2, <2>3, Zenon DEF OwnerInv, Resetter, RestartSection
  <2> QED  BY <2>4, Zenon
<1>5. /\ pc \in [Nodes -> PCs] /\ job \in [Nodes -> Jobs]
      /\ \A m \in Nodes : Resetter(m) /\ Resetter(n) => m = n
      /\ pc[n] \in OpenSection => job[n] \in {"get", "start"}
      /\ pc[n] \in CloseSection => job[n] # "none"
  BY <1>1, Zenon DEF OwnerInv
<1>6. fwcom /\ pc[n] \in {"start", "r_on"} => live
  BY <1>4, Zenon
<1> QED
  BY <1>2, <1>3, <1>5, <1>6, Zenon DEF Relied

\* A step that leaves the device alone keeps ServeInv,
LEMMA SoftServe ==
  ASSUME ServeInv, NEW n \in Nodes, Soft(n), streaming' \in [Nodes -> BOOLEAN]
  PROVE  ServeInv'
<1>1. \A m \in Nodes : pc'[m] = "running" => pc[m] = "running" /\ m # n
  BY Zenon DEF Soft, Moves
<1>2. \A r \in Nodes : Cutting(r)' => Cutting(r)
  BY Zenon DEF Soft, Moves, Cutting
<1>3. \A r \in Nodes : Starting(r)' => r # n /\ Starting(r) /\ pc'[r] = pc[r]
  BY Zenon DEF Soft, Moves, Starting
<1>4. \A r \in Nodes : pc'[r] = "r_on" => pc[r] = "r_on"
  BY Zenon DEF Soft, Moves
<1>5. /\ UNCHANGED <<fwcom, live, power, sp, cut>>
      /\ \A m \in Nodes : streaming'[m] => streaming[m]
  BY Zenon DEF Soft
<1> QED
  BY <1>1, <1>2, <1>3, <1>4, <1>5, Zenon DEF ServeInv, FirmwareServes

\* and so does one that changes the device while a restart is at work, or while
\* nobody streams: what it does counts only for the stream that is turned on.
Cuts(n) ==
    /\ Moves(n) /\ UNCHANGED <<streaming, cut>> /\ pc'[n] # "running"
    /\ Owner(n) \/ Cutting(n)
    /\ \A m \in Nodes : Starting(n)' /\ pc[m] = "running" =>
         /\ power'
         /\ pc'[n] \in {"fw_com_open", "fw_ready", "r_on"} => fwcom'
         /\ pc'[n] = "r_on" => sp' = "ready"

\* Such a step keeps ServeInv.
LEMMA CutServe ==
  ASSUME ServeInv, NEW n \in Nodes, Relied(n), Cuts(n)
  PROVE  ServeInv'
<1>1. /\ \A m \in Nodes : pc'[m] = "running" => pc[m] = "running" /\ m # n
      /\ UNCHANGED <<streaming, cut>>
  BY Zenon DEF Cuts, Moves
<1>2. CASE Owner(n)
  <2>1. \A m \in Nodes : pc'[m] # "running"
    BY <1>1, <1>2, Zenon DEF Relied
  <2> QED  BY <1>1, <2>1, Zenon DEF ServeInv, FirmwareServes
<1>3. CASE Cutting(n)
  <2>1. \A r \in Nodes \ {n} : ~Resetter(r)
    BY <1>3, Zenon DEF Relied, Cutting, Resetter, RestartSection
  <2>2. \A r \in Nodes : Cutting(r)' \/ Starting(r)' \/ pc'[r] = "r_on" => r = n
    BY <2>1, Zenon DEF Cuts, Moves, Cutting, Starting, Resetter, RestartSection
  <2>3. \A m \in Nodes : pc[m] = "running" /\ streaming[m] => m \in cut
    BY <1>3, Zenon DEF ServeInv
  <2>4. pc'[n] = "r_on" => Starting(n)'
    BY Zenon DEF Starting
  <2> QED  BY <1>1, <2>2, <2>3, <2>4, Zenon DEF Cuts, ServeInv, FirmwareServes
<1> QED
  BY <1>2, <1>3, Zenon DEF Cuts

\* Such steps are opening the firmware,
LEMMA OpenCuts ==
  ASSUME ServeInv, NEW n \in Nodes, Relied(n),
         FwCleanup(n) \/ FwClear(n) \/ FwPrepare(n) \/ FwComOpen(n) \/ FwReady(n)
  PROVE  Cuts(n)
<1> USE DEF Cuts, Relied, ServeInv, Moves, Owner, Cutting, Starting, PCs, Jobs,
            OpenSection, CloseSection, RestartSection, Goto
<1>1. CASE FwCleanup(n)
  BY <1>1, Zenon DEF FwCleanup, nodeVars, flagVars
<1>2. CASE FwClear(n)
  BY <1>2, Zenon DEF FwClear, nodeVars, spVars, flagVars
<1>3. CASE FwPrepare(n)
  BY <1>3, Zenon DEF FwPrepare, nodeVars, spVars, flagVars
<1>4. CASE FwComOpen(n)
  BY <1>4, Zenon DEF FwComOpen, nodeVars, fwVars, flagVars
<1>5. CASE FwReady(n)
  BY <1>5, Zenon DEF FwReady, JobDone, nodeVars, fwVars, spVars, flagVars
<1> QED
  BY <1>1, <1>2, <1>3, <1>4, <1>5, Zenon

\* closing it,
LEMMA CloseCuts ==
  ASSUME ServeInv, NEW n \in Nodes, Relied(n),
         FwClose(n) \/ FwReleased(n) \/ FwReleaseFails(n)
  PROVE  Cuts(n)
<1> USE DEF Cuts, Relied, ServeInv, Moves, Owner, Cutting, Starting, PCs, Jobs,
            OpenSection, CloseSection, RestartSection, Goto
<1>1. CASE FwClose(n)
  BY <1>1, Zenon DEF FwClose, nodeVars, flagVars
<1>2. CASE FwReleased(n)
  BY <1>2 DEF FwReleased, OpenFailed, nodeVars, spVars
<1>3. CASE FwReleaseFails(n)
  BY <1>3 DEF FwReleaseFails, OpenFailed, nodeVars, spVars
<1> QED
  BY <1>1, <1>2, <1>3, Zenon

\* and the power cycle of a restart.
LEMMA ResetCuts ==
  ASSUME ServeInv, NEW n \in Nodes, Relied(n),
         ResetSuspend(n) \/ ResetOff(n) \/ ResetOn(n) \/ ResetFails(n)
  PROVE  Cuts(n)
<1> USE DEF Cuts, Relied, ServeInv, Moves, Owner, Cutting, Starting, PCs, Jobs,
            OpenSection, CloseSection, RestartSection, Goto
<1>1. CASE ResetSuspend(n)
  BY <1>1, Zenon DEF ResetSuspend, nodeVars, fwVars, spVars
<1>2. CASE ResetOff(n)
  BY <1>2, Zenon DEF ResetOff, nodeVars, fwVars, flagVars
<1>3. CASE ResetOn(n)
  BY <1>3, Zenon DEF ResetOn, nodeVars, fwVars
<1>4. CASE ResetFails(n)
  BY <1>4, Zenon DEF ResetFails, nodeVars, fwVars, spVars
<1> QED
  BY <1>1, <1>2, <1>3, <1>4, Zenon

\* The firmware a stream is started on is running, and no restart is at work,
LEMMA StartServe ==
  ASSUME ServeInv, NEW n \in Nodes, Relied(n), StartStreaming(n)
  PROVE  ServeInv'
<1>1. /\ fwcom /\ sp = "ready" /\ power /\ live
      /\ UNCHANGED <<fwcom, live, power, sp>>
  BY Zenon DEF StartStreaming, Relied, flagVars, fwVars, spVars
<1>2. /\ streaming' \in [Nodes -> BOOLEAN]
      /\ \A r \in Nodes : ~Cutting(r)' /\ ~Starting(r)' /\ pc'[r] # "r_on"
  BY Zenon DEF StartStreaming, StreamFree, Restarting, Cutting, Starting, Goto, Relied, ServeInv,
         OpenSection, CloseSection
<1> QED
  BY <1>1, <1>2, Zenon DEF ServeInv, FirmwareServes

\* the one that a restart turns on has what the restart set up,
LEMMA OnServe ==
  ASSUME ServeInv, NEW n \in Nodes, Relied(n), RestartOn(n)
  PROVE  ServeInv'
<1>1. PICK t \in target : streaming' = [streaming EXCEPT ![t] = TRUE] /\ cut' = cut \ {t}
  BY Zenon DEF RestartOn
<1>2. /\ UNCHANGED <<fwcom, live, power, sp>> /\ pc[n] = "r_on"
      /\ \A m \in Nodes : pc'[m] = "running" => pc[m] = "running"
  BY Zenon DEF RestartOn, Relied, Goto, flagVars, fwVars, spVars
<1>3. \A r \in Nodes \ {n} : ~Resetter(r)
  BY <1>2, Zenon DEF Relied, Resetter, RestartSection
<1>4. \A r \in Nodes : ~Cutting(r)' /\ ~Starting(r)' /\ pc'[r] # "r_on"
  BY <1>3, Zenon DEF RestartOn, Relied, Goto, Cutting, Starting, Resetter, OpenSection, CloseSection,
              RestartSection
<1>5. streaming' \in [Nodes -> BOOLEAN]
  BY <1>1, Zenon DEF ServeInv
<1>6. \A m \in Nodes : pc[m] = "running" => fwcom /\ live /\ power /\ sp = "ready"
  BY <1>2, Zenon DEF ServeInv, Relied, Starting
<1> QED
  BY <1>2, <1>4, <1>5, <1>6, Zenon DEF ServeInv, FirmwareServes

\* what a restart turns off is not served, nor is any other stream from then on,
LEMMA OffServe ==
  ASSUME ServeInv, NEW n \in Nodes, Relied(n), RestartOff(n)
  PROVE  ServeInv'
<1>1. PICK t \in target : /\ streaming' = [streaming EXCEPT ![t] = FALSE]
                          /\ cut' = cut \cup {k \in Nodes :
                                       k # t /\ pc[k] = "running" /\ streaming[k]}
  BY Zenon DEF RestartOff
<1>2. /\ UNCHANGED <<fwcom, live, power, sp>> /\ pc[n] = "r_off"
      /\ \A m \in Nodes : pc'[m] = "running" => pc[m] = "running"
  BY Zenon DEF RestartOff, Relied, Goto, flagVars, fwVars, spVars
<1>3. \A r \in Nodes \ {n} : ~Resetter(r)
  BY <1>2, Zenon DEF Relied, Resetter, RestartSection
<1>4. \A r \in Nodes : ~Starting(r)' /\ pc'[r] # "r_on"
  BY <1>3, Zenon DEF RestartOff, Relied, Goto, Starting, Resetter, OpenSection, CloseSection,
              RestartSection
<1>5. /\ streaming' \in [Nodes -> BOOLEAN]
      /\ \A m \in Nodes : pc[m] = "running" /\ streaming'[m] => m \in cut'
  BY <1>1, Zenon DEF ServeInv
<1> QED
  BY <1>2, <1>4, <1>5, Zenon DEF ServeInv, FirmwareServes

\* and a device that is resumed had no stream.
LEMMA GetServe ==
  ASSUME ServeInv, NEW n \in Nodes, Relied(n), PmGet(n)
  PROVE  ServeInv'
<1>1. /\ UNCHANGED <<fwcom, live, streaming, cut, job>>
      /\ \A m \in Nodes : pc'[m] = pc[m] \/ (m = n /\ pc'[m] = "fw_lock")
  BY Zenon DEF PmGet, Relied, Goto, fwVars, nodeVars
<1>2. \A m \in Nodes : pc[m] = "running" => (power => power') /\ sp' = sp
  BY Zenon DEF PmGet, Relied, ServeInv
<1>3. \A r \in Nodes : /\ Cutting(r)' => Cutting(r)
                       /\ Starting(r)' => Starting(r) /\ pc'[r] = pc[r]
                       /\ pc'[r] = "r_on" => pc[r] = "r_on"
  BY <1>1, Zenon DEF Cutting, Starting, OpenSection, CloseSection
<1> QED
  BY <1>1, <1>2, <1>3, Zenon DEF ServeInv, FirmwareServes

\* Runtime PM, the SP and the interrupt handler leave a stream its firmware.
LEMMA DeviceServe ==
  ASSUME ServeInv, \A m \in Nodes : pc[m] = "running" => rpm = "active",
         Pm \/ SpStep \/ IsrEnter \/ IsrLeave
  PROVE  ServeInv'
<1>1. UNCHANGED <<pc, job, fwcom, live, streaming, cut>>
  BY Zenon DEF Pm, PmIdle, PmSuspend, PmClear, PmOff, PmOffFails, SpStep, IsrEnter, IsrLeave, fwVars,
         nodeVars
<1>2. \A m \in Nodes : pc[m] = "running" => (power => power') /\ (sp = "ready" => sp' = "ready")
  BY Zenon DEF Pm, PmIdle, PmSuspend, PmClear, PmOff, PmOffFails, SpStep, IsrEnter, IsrLeave, spVars,
         flagVars
<1> QED
  BY <1>1, <1>2, Zenon DEF ServeInv, FirmwareServes, Cutting, Starting

\* The other steps of a thread leave streaming alone or turn it off.
LEMMA StreamingTyped ==
  ASSUME streaming \in [Nodes -> BOOLEAN], NEW n \in Nodes, User(n) \/ Call(n), ~Hard(n)
  PROVE  streaming' \in [Nodes -> BOOLEAN]
<1>1. CASE User(n)
  BY <1>1, Zenon DEF User, Open, StreamOn, StopStreaming, CommandOops, Close, allButPc, nodeVars
<1>2. CASE Call(n)
  <2>1. UNCHANGED streaming
    BY <1>2, Zenon DEF Call, Hard, FwSection, FwPrepareFails, FwComOpenFails, FwNotReady, FwCloseOops,
         PmGetFails, PmPut, PmPutDone, FwGet, StartStreamingFails, StartOops, Unwind,
         StreamCleanup, ReturnBuffers, FwPut, VideoOpen, VideoOpenRefused, VideoOpenResets,
         RestartNext, RestartLock, RestartOffFails, RestartOops, ResetClear, RestartOnFails,
         RestartUnlock, RestartEnd, Authenticate, allButPc, nodeVars
  <2> QED  BY <2>1, Zenon
<1> QED
  BY <1>1, <1>2, Zenon

\* Every step keeps ServeInv.
LEMMA NextServe == CountInv /\ IsrInv /\ ServeInv /\ [Next]_vars => ServeInv'
<1> SUFFICES ASSUME CountInv, IsrInv, ServeInv, [Next]_vars PROVE ServeInv'
  BY Zenon
<1>1. CASE Halted \/ UNCHANGED vars
  BY <1>1 DEF Halted, vars, allButPc, nodeVars, flagVars, fwVars, spVars, ServeInv,
              FirmwareServes, Cutting, Starting
<1>2. ASSUME ~Oopsed, NEW n \in Nodes, User(n) \/ Call(n)
      PROVE  ServeInv'
  <2>1. Relied(n) /\ streaming \in [Nodes -> BOOLEAN]
    BY <1>2, ReliedThere, Zenon DEF ServeInv
  <2>2. CASE Hard(n)
    BY <2>1, <2>2, CutServe, OpenCuts, CloseCuts, ResetCuts, StartServe, OnServe, OffServe,
       GetServe, Zenon DEF Hard
  <2>3. CASE ~Hard(n)
    <3>1. Soft(n)
      BY <1>2, <2>1, <2>3, StepHard, Zenon
    <3>2. streaming' \in [Nodes -> BOOLEAN]
      BY <1>2, <2>1, <2>3, StreamingTyped, Zenon
    <3> QED  BY <3>1, <3>2, SoftServe, Zenon
  <2> QED  BY <2>2, <2>3, Zenon
<1>3. CASE ~Oopsed /\ (Pm \/ SpStep \/ IsrEnter \/ IsrLeave)
  <2>1. \A m \in Nodes : pc[m] = "running" => rpm = "active"
    BY <1>3, ReliedThere, Zenon DEF Relied
  <2> QED  BY <1>3, <2>1, DeviceServe, Zenon
<1> QED
  BY <1>1, <1>2, <1>3, Zenon DEF Next

-----------------------------------------------------------------------------
(* The theorems.                                                           *)

\* The invariants of the handler's context and of the streams hold initially.
LEMMA InitServe == Init => IsrInv /\ ServeInv
  BY Zenon DEF Init, IsrInv, IsrContextLive, Parted, ServeInv, FirmwareServes

\* All of it holds in every behaviour.
PowerInv == CountInv /\ IsrInv /\ ServeInv

\* Every step keeps them together.
LEMMA PowerKept == Spec => []PowerInv
<1>1. Init => PowerInv
  BY InitCounts, InitServe, Zenon DEF PowerInv
<1>2. PowerInv /\ [Next]_vars => PowerInv'
  <2>1. ServeInv => streaming \in [Nodes -> BOOLEAN]
    BY Zenon DEF ServeInv
  <2> QED  BY <2>1, NextCounts, NextIsr, NextServe, Zenon DEF PowerInv
<1> QED
  BY <1>1, <1>2, PTL DEF Spec

\* However many nodes open, stream and reset, the interrupt handler of
\* ipu6-isys.c never works on a context that was freed, unless it was freed by
\* force (ipu6_fw_isys_cleanup).
THEOREM ContextKept == Spec => []IsrContextLive
<1>1. PowerInv => IsrContextLive
  BY Zenon DEF PowerInv, IsrInv
<1> QED
  BY <1>1, PowerKept, PTL

\* However many nodes open, stream, fail and reset, a node that streams has the
\* firmware, its context and its power, unless a reset was made for another
\* stream while it ran.
THEOREM FirmwareKept == Spec => []FirmwareServes
<1>1. PowerInv => FirmwareServes
  BY Zenon DEF PowerInv, ServeInv
<1> QED
  BY <1>1, PowerKept, PTL

-----------------------------------------------------------------------------
(* Types.  CountInv has those of the places and of the two counts, which no *)
(* step takes below zero, ServeInv that of streaming; these are the others. *)

FlagTypes ==
    /\ need_reset \in BOOLEAN /\ resetting \in BOOLEAN /\ power \in BOOLEAN
    /\ fwcom \in BOOLEAN /\ live \in BOOLEAN
    /\ restarted \in BOOLEAN /\ failed \in BOOLEAN
    /\ idle \in BOOLEAN /\ stale \in BOOLEAN /\ isr \in BOOLEAN
SetTypes ==
    /\ stream \in [Nodes -> BOOLEAN] /\ cut \in SUBSET Nodes
    /\ mutex \in SUBSET Nodes /\ target \in SUBSET Nodes /\ todo \in SUBSET Nodes
    /\ rpm \in {"suspended", "active", "s_power", "s_clear", "s_off", "error"}
    /\ sp \in {"off", "idle", "booting", "ready", "stopping"}

\* A step of a thread keeps the types of the flags,
LEMMA FlagSteps ==
  ASSUME FlagTypes, NEW n \in Nodes, User(n) \/ Call(n)
  PROVE  FlagTypes'
<1> USE DEF FlagTypes, allButPc, flagVars, fwVars, loopVars, pmVars, spVars
<1>1. CASE Open(n) \/ StreamOn(n) \/ CommandOops(n) \/ Close(n) \/ StopStreaming(n)
  BY <1>1 DEF Open, StreamOn, CommandOops, Close, StopStreaming
<1>2. CASE FwComOpen(n) \/ FwReady(n) \/ FwNotReady(n) \/ FwCloseOops(n)
  BY <1>2 DEF FwComOpen, FwReady, FwNotReady, FwCloseOops
<1>3. CASE FwCleanup(n)
  BY <1>3, Zenon DEF FwCleanup
<1>4. CASE FwClear(n)
  BY <1>4, Zenon DEF FwClear
<1>5. CASE FwPrepare(n)
  BY <1>5, Zenon DEF FwPrepare
<1>6. CASE FwClose(n)
  BY <1>6, Zenon DEF FwClose
<1>7. CASE FwPrepareFails(n)
  BY <1>7, Zenon DEF FwPrepareFails, OpenFailed
<1>8. CASE FwComOpenFails(n)
  BY <1>8, Zenon DEF FwComOpenFails, OpenFailed
<1>9. CASE FwReleased(n)
  BY <1>9, Zenon DEF FwReleased, OpenFailed
<1>10. CASE FwReleaseFails(n)
  BY <1>10, Zenon DEF FwReleaseFails, OpenFailed
<1>11. CASE PmGet(n)
  BY <1>11, Zenon DEF PmGet
<1>12. CASE PmPut(n)
  BY <1>12, Zenon DEF PmPut
<1>13. CASE PmGetFails(n) \/ PmPutDone(n)
  BY <1>13 DEF PmGetFails, PmPutDone
<1>14. CASE FwGet(n) \/ StartStreaming(n) \/ StartStreamingFails(n) \/ StartOops(n) \/
            Unwind(n) \/ StreamCleanup(n) \/ FwPut(n)
  BY <1>14 DEF FwGet, StartStreaming, StartStreamingFails, StartOops, Unwind,
               StreamCleanup, FwPut
<1>15. CASE ReturnBuffers(n)
  BY <1>15, Zenon DEF ReturnBuffers
<1>16. CASE VideoOpen(n) \/ VideoOpenRefused(n) \/ RestartNext(n) \/ RestartOff(n) \/
            RestartOops(n) \/ RestartOn(n) \/ Authenticate(n) \/ RestartUnlock(n)
  BY <1>16 DEF VideoOpen, VideoOpenRefused, RestartNext, RestartOff, RestartOops,
               RestartOn, Authenticate, RestartUnlock
<1>17. CASE VideoOpenResets(n)
  BY <1>17, Zenon DEF VideoOpenResets
<1>18. CASE RestartLock(n)
  BY <1>18, Zenon DEF RestartLock
<1>19. CASE RestartOffFails(n)
  BY <1>19, Zenon DEF RestartOffFails
<1>20. CASE ResetSuspend(n)
  BY <1>20, Zenon DEF ResetSuspend
<1>21. CASE ResetClear(n)
  BY <1>21, Zenon DEF ResetClear
<1>22. CASE ResetOff(n)
  BY <1>22, Zenon DEF ResetOff
<1>23. CASE ResetOn(n)
  BY <1>23, Zenon DEF ResetOn
<1>24. CASE ResetFails(n)
  BY <1>24, Zenon DEF ResetFails
<1>25. CASE RestartOnFails(n)
  BY <1>25, Zenon DEF RestartOnFails
<1>26. CASE RestartEnd(n)
  BY <1>26, Zenon DEF RestartEnd
<1> QED  BY <1>1, <1>2, <1>3, <1>4, <1>5, <1>6, <1>7, <1>8, <1>9, <1>10, <1>11, <1>12,
            <1>13, <1>14, <1>15, <1>16, <1>17, <1>18, <1>19, <1>20, <1>21, <1>22, <1>23,
            <1>24, <1>25, <1>26, Zenon DEF User, Call, FwSection

\* and of the rest.
LEMMA SetSteps ==
  ASSUME SetTypes, NEW n \in Nodes, User(n) \/ Call(n)
  PROVE  SetTypes'
<1> USE DEF SetTypes, allButPc, nodeVars, loopVars, pmVars, spVars
<1>1. CASE Open(n) \/ CommandOops(n) \/ Close(n)
  BY <1>1 DEF Open, CommandOops, Close
<1>2. CASE StreamOn(n)
  BY <1>2 DEF StreamOn
<1>3. CASE StopStreaming(n)
  BY <1>3 DEF StopStreaming
<1>4. CASE FwCleanup(n) \/ FwClear(n) \/ FwPrepare(n) \/ FwPrepareFails(n) \/
           FwComOpen(n) \/ FwComOpenFails(n)
  BY <1>4 DEF FwCleanup, FwClear, FwPrepare, FwPrepareFails, FwComOpen, FwComOpenFails,
              OpenFailed
<1>5. CASE FwReady(n) \/ FwNotReady(n) \/ FwClose(n) \/ FwCloseOops(n) \/ FwReleased(n)
           \/ FwReleaseFails(n)
  BY <1>5 DEF FwReady, FwNotReady, FwClose, FwCloseOops, FwReleased, FwReleaseFails,
              OpenFailed
<1>6. CASE PmGet(n) \/ PmGetFails(n) \/ PmPut(n) \/ PmPutDone(n)
  BY <1>6 DEF PmGet, PmGetFails, PmPut, PmPutDone
<1>7. CASE FwGet(n) \/ StartStreaming(n) \/ StartStreamingFails(n) \/ StartOops(n) \/
           FwPut(n)
  BY <1>7 DEF FwGet, StartStreaming, StartStreamingFails, StartOops, FwPut
<1>8. CASE Unwind(n)
  BY <1>8 DEF Unwind
<1>9. CASE StreamCleanup(n)
  BY <1>9 DEF StreamCleanup
<1>10. CASE ReturnBuffers(n)
  BY <1>10 DEF ReturnBuffers
<1>11. CASE VideoOpen(n) \/ VideoOpenRefused(n) \/ VideoOpenResets(n)
  BY <1>11 DEF VideoOpen, VideoOpenRefused, VideoOpenResets
<1>12. CASE RestartNext(n) \/ RestartLock(n) \/ RestartOff(n) \/ RestartOffFails(n) \/
            RestartOops(n)
  BY <1>12 DEF RestartNext, RestartLock, RestartOff, RestartOffFails, RestartOops
<1>13. CASE ResetSuspend(n) \/ ResetClear(n) \/ ResetOff(n) \/ ResetOn(n) \/
            ResetFails(n)
  BY <1>13 DEF ResetSuspend, ResetClear, ResetOff, ResetOn, ResetFails
<1>14. CASE RestartOn(n) \/ RestartOnFails(n) \/ RestartUnlock(n) \/ RestartEnd(n) \/
            Authenticate(n)
  BY <1>14 DEF RestartOn, RestartOnFails, RestartUnlock, RestartEnd, Authenticate
<1> QED  BY <1>1, <1>2, <1>3, <1>4, <1>5, <1>6, <1>7, <1>8, <1>9, <1>10, <1>11, <1>12,
            <1>13, <1>14, Zenon DEF User, Call, FwSection

\* Runtime PM, the SP and the interrupt handler keep the types of the flags,
LEMMA DeviceFlags ==
  ASSUME FlagTypes, Pm \/ SpStep \/ IsrEnter \/ IsrLeave
  PROVE  FlagTypes'
<1> USE DEF FlagTypes, flagVars, fwVars, loopVars, pmVars, spVars
<1>1. CASE PmIdle
  BY <1>1, Zenon DEF PmIdle
<1>2. CASE PmSuspend
  BY <1>2, Zenon DEF PmSuspend
<1>3. CASE PmClear
  BY <1>3, Zenon DEF PmClear
<1>4. CASE PmOff
  BY <1>4, Zenon DEF PmOff
<1>5. CASE PmOffFails
  BY <1>5, Zenon DEF PmOffFails
<1>6. CASE SpStep
  BY <1>6 DEF SpStep
<1>7. CASE IsrEnter
  BY <1>7, Zenon DEF IsrEnter
<1>8. CASE IsrLeave
  BY <1>8, Zenon DEF IsrLeave
<1> QED  BY <1>1, <1>2, <1>3, <1>4, <1>5, <1>6, <1>7, <1>8, Zenon DEF Pm

\* and of the rest.
LEMMA DeviceSets ==
  ASSUME SetTypes, Pm \/ SpStep \/ IsrEnter \/ IsrLeave
  PROVE  SetTypes'
  BY DEF SetTypes, Pm, PmIdle, PmSuspend, PmClear, PmOff, PmOffFails, SpStep, IsrEnter, IsrLeave,
         nodeVars, loopVars, pmVars, spVars

\* Every variable keeps its type; in particular neither ref_count nor the usage
\* count of runtime PM ever drops below zero, whichever of the error paths of
\* fw_get, fw_put and restart_stream are taken.
THEOREM PowerTyped == Spec => []TypeOK
<1>1. Init => FlagTypes /\ SetTypes
  <2>1. Init => FlagTypes
    BY Zenon DEF Init, FlagTypes
  <2>2. Init => SetTypes
    BY DEF Init, SetTypes
  <2> QED  BY <2>1, <2>2, Zenon
<1>2. ASSUME FlagTypes, SetTypes, [Next]_vars PROVE FlagTypes' /\ SetTypes'
  <2>1. CASE Halted \/ UNCHANGED vars
    BY <1>2, <2>1 DEF Halted, vars, allButPc, nodeVars, flagVars, fwVars, loopVars,
                      pmVars, spVars, FlagTypes, SetTypes
  <2> QED  BY <1>2, <2>1, FlagSteps, SetSteps, DeviceFlags, DeviceSets, Zenon DEF Next
<1>3. PowerInv /\ FlagTypes /\ SetTypes => TypeOK
  BY Zenon DEF PowerInv, CountInv, OwnerInv, UsageInv, RefInv, ServeInv, FlagTypes, SetTypes,
               TypeOK
<1> QED
  BY <1>1, <1>2, <1>3, PowerKept, PTL DEF Spec
==============================================================================
