-------------------------- MODULE SyscomRingProofs --------------------------
(***************************************************************************)
(* For every queue size: the index arithmetic of ipu6-fw-com.c keeps the   *)
(* sender and the receiver on different slots, and the ring implements the *)
(* bounded FIFO of SyscomFifo.                                             *)
(***************************************************************************)
EXTENDS SyscomRing, SequenceTheorems, TLAPS

\* The inductive invariant: the indices are in range (so the WARN_ON_ONCE of
\* the get functions never fires) and unfinished calls keep their room.
RingInv == TypeOK /\ Reserved

Safety == Init /\ [][Next]_vars

-----------------------------------------------------------------------------
\* ipu6_send_get_token and ipu6_recv_get_token compute complementary counts:
\* used and free places add up to the configured size.
LEMMA PacketsAddUp ==
    ASSUME wr \in Slots, rd \in Slots
    PROVE  /\ UsedPackets \in 0 .. QueueSize
           /\ FreePackets = QueueSize - UsedPackets
           /\ UsedPackets = 0 <=> wr = rd
BY QueueSizeAssumption DEF Slots, size, UsedPackets, FreePackets

\* Moving the write index adds one packet as long as there is room.
LEMMA PutAddsOne ==
    ASSUME TypeOK, UsedPackets < QueueSize, wr' = Bump(wr), rd' = rd
    PROVE  wr' \in Slots /\ UsedPackets' = UsedPackets + 1
BY QueueSizeAssumption DEF TypeOK, Slots, size, UsedPackets, Bump

\* Moving the read index removes one packet as long as there is one.
LEMMA ReleaseRemovesOne ==
    ASSUME TypeOK, UsedPackets > 0, rd' = Bump(rd), wr' = wr
    PROVE  rd' \in Slots /\ UsedPackets' = UsedPackets - 1
BY QueueSizeAssumption DEF TypeOK, Slots, size, UsedPackets, Bump

-----------------------------------------------------------------------------
\* Empty queues satisfy the invariant.
LEMMA RingInvInit == Init => RingInv
BY QueueSizeAssumption
   DEF Init, RingInv, TypeOK, Reserved, Slots, size, UsedPackets, NoToken

\* Each half of the four token functions preserves it.
LEMMA RingInvStep == RingInv /\ [Next]_vars => RingInv'
<1> SUFFICES ASSUME RingInv, [Next]_vars PROVE RingInv'
  BY Zenon
<1> USE DEF RingInv
<1>0. /\ UsedPackets \in 0 .. QueueSize
      /\ FreePackets = QueueSize - UsedPackets
  BY PacketsAddUp, Zenon DEF TypeOK
<1>1. CASE SendGetToken
  <2>1. UsedPackets' = UsedPackets
    BY <1>1, Zenon DEF SendGetToken, UsedPackets
  <2>2. TypeOK'
    BY <1>1, Zenon DEF SendGetToken, TypeOK
  <2>3. Reserved'
    BY <1>0, <1>1, <2>1, QueueSizeAssumption DEF SendGetToken, Reserved
  <2> QED BY <2>2, <2>3, Zenon
<1>2. CASE SendBusy
  BY <1>2, Zenon DEF SendBusy, TypeOK, Reserved, UsedPackets
<1>3. ASSUME NEW t \in Tokens, FillToken(t) PROVE RingInv'
  BY <1>3, Zenon DEF FillToken, TypeOK, Reserved, UsedPackets
<1>4. CASE SendPutToken
  <2>1. wr' \in Slots /\ UsedPackets' = UsedPackets + 1
    BY <1>4, PutAddsOne, Zenon DEF SendPutToken, Reserved
  <2>2. TypeOK'
    BY <1>4, <2>1, Zenon DEF SendPutToken, TypeOK
  <2>3. Reserved'
    BY <1>0, <1>4, <2>1, QueueSizeAssumption DEF SendPutToken, Reserved
  <2> QED BY <2>2, <2>3
<1>5. CASE RecvGetToken
  BY <1>0, <1>5 DEF RecvGetToken, TypeOK, Reserved, UsedPackets
<1>6. CASE RecvEmpty
  BY <1>6, Zenon DEF RecvEmpty, TypeOK, Reserved, UsedPackets, NoToken
<1>7. CASE RecvPutToken
  <2>1. rd' \in Slots /\ UsedPackets' = UsedPackets - 1
    BY <1>7, ReleaseRemovesOne, Zenon DEF RecvPutToken, Reserved
  <2>2. TypeOK'
    BY <1>7, <2>1, Zenon DEF RecvPutToken, TypeOK, Token
  <2>3. Reserved'
    BY <1>0, <1>7, <2>1, QueueSizeAssumption DEF RecvPutToken, Reserved
  <2> QED BY <2>2, <2>3
<1>8. CASE UNCHANGED vars
  BY <1>8, Zenon DEF vars, TypeOK, Reserved, UsedPackets
<1> QED
  BY <1>1, <1>2, <1>3, <1>4, <1>5, <1>6, <1>7, <1>8, Zenon
  DEF Next, SenderStep, ReceiverStep

\* In every behaviour, for every queue size: the indices stay in range, a
\* sender between get and put keeps a free slot and a receiver keeps its token.
THEOREM RingInvariant == Safety => []RingInv
BY RingInvInit, RingInvStep, PTL DEF Safety

\* Type correctness for every queue size: both indices stay below q->size, so
\* the range check of the get functions never refuses a token.
THEOREM TypeCorrect == Spec => []TypeOK
BY RingInvariant, PTL DEF Spec, Safety, RingInv

\* The room a sender found free and the token a receiver found stay theirs until
\* the put, for every queue size.
THEOREM RoomReserved == Spec => []Reserved
BY RingInvariant, PTL DEF Spec, Safety, RingInv

\* A token being handled in place is never overwritten by the other end, for
\* every queue size.
THEOREM SlotsExclusive == Spec => []NoSlotSharing
<1>1. RingInv => NoSlotSharing
  BY PacketsAddUp DEF RingInv, TypeOK, Reserved, NoSlotSharing
<1> QED
  BY <1>1, RingInvariant, PTL DEF Spec, Safety

-----------------------------------------------------------------------------
(* The refinement: the ring read from rd to wr is the abstract queue.      *)

\* The slot of the i-th queued token.
Pos(i) == IF rd + i - 1 >= size THEN rd + i - 1 - size ELSE rd + i - 1

\* The queued tokens form a sequence of UsedPackets tokens.
LEMMA ContentsSeq ==
    ASSUME RingInv
    PROVE  /\ Contents \in Seq(Tokens)
           /\ Len(Contents) = UsedPackets
           /\ UsedPackets \in 0 .. QueueSize
           /\ \A i \in 1 .. UsedPackets :
                /\ Pos(i) \in Slots
                /\ Contents[i] = slot[Pos(i)]
<1>1. UsedPackets \in 0 .. QueueSize
  BY PacketsAddUp, Zenon DEF RingInv, TypeOK
<1>2. \A i \in 1 .. UsedPackets : Pos(i) \in Slots
  BY <1>1, QueueSizeAssumption DEF Pos, RingInv, TypeOK, Slots, size
<1>3. Contents = [i \in 1 .. UsedPackets |-> slot[Pos(i)]]
  BY Zenon DEF Contents, Pos
<1>4. \A i \in 1 .. UsedPackets : slot[Pos(i)] \in Tokens
  BY <1>2, Zenon DEF RingInv, TypeOK
<1> QED
  BY <1>1, <1>2, <1>3, <1>4, QueueSizeAssumption

\* The slot behind the last queued token is the one the sender fills.
LEMMA NextFreeSlot ==
    ASSUME RingInv
    PROVE  /\ UsedPackets < QueueSize => Pos(UsedPackets + 1) = wr
           /\ \A i \in 1 .. UsedPackets : Pos(i) # wr
BY QueueSizeAssumption
   DEF RingInv, TypeOK, Pos, Slots, size, UsedPackets

\* Writing a token before ipu6_send_put_token is invisible to the receiver.
LEMMA FillKeepsContents ==
    ASSUME RingInv, NEW t \in Tokens, FillToken(t)
    PROVE  Contents' = Contents
<1>1. UsedPackets' = UsedPackets /\ rd' = rd
  BY Zenon DEF FillToken, UsedPackets
<1>2. \A i \in 1 .. UsedPackets : slot'[Pos(i)] = slot[Pos(i)]
  BY ContentsSeq, NextFreeSlot, Zenon DEF FillToken, RingInv, TypeOK
<1>3. Contents = [i \in 1 .. UsedPackets |-> slot[Pos(i)]]
  BY Zenon DEF Contents, Pos
<1>4. Contents' = [i \in 1 .. UsedPackets |-> slot'[Pos(i)]]
  BY <1>1, Zenon DEF Contents, Pos
<1> QED
  BY <1>2, <1>3, <1>4, Zenon

\* ipu6_send_put_token publishes exactly the token just written, at the end.
LEMMA PutAppends ==
    ASSUME RingInv, SendPutToken
    PROVE  Contents' = Append(Contents, slot[wr]) /\ UsedPackets < QueueSize
<1>0. UsedPackets < QueueSize
  BY Zenon DEF RingInv, Reserved, SendPutToken
<1>1. UsedPackets' = UsedPackets + 1
  BY <1>0, PutAddsOne, Zenon DEF RingInv, SendPutToken
<1>2. Contents' = [i \in 1 .. UsedPackets + 1 |-> slot[Pos(i)]]
  BY <1>1, Zenon DEF Contents, Pos, SendPutToken
<1>3. Pos(UsedPackets + 1) = wr
  BY <1>0, NextFreeSlot, Zenon
<1>4. slot[wr] \in Tokens
  BY Zenon DEF RingInv, TypeOK
<1>5. Contents = [i \in 1 .. UsedPackets |-> slot[Pos(i)]]
  BY Zenon DEF Contents, Pos
<1> DEFINE c == Contents
           d == Append(c, slot[wr])
           n == UsedPackets
<1>6. c \in Seq(Tokens) /\ Len(c) = n /\ n \in 0 .. QueueSize
  BY ContentsSeq, Zenon
<1>7. d = [i \in 1 .. n + 1 |-> IF i <= n THEN c[i] ELSE slot[wr]]
  <2> HIDE DEF c, n
  <2> QED BY <1>4, <1>6, QueueSizeAssumption
<1>8. \A i \in 1 .. n + 1 : slot[Pos(i)] = IF i <= n THEN c[i] ELSE slot[wr]
  BY <1>3, <1>5, <1>6, QueueSizeAssumption
<1> QED
  BY <1>0, <1>2, <1>7, <1>8, Zenon

\* A sequence is the function of its elements.
LEMMA SeqAsFunction ==
    ASSUME NEW S, NEW s \in Seq(S)
    PROVE  s = [i \in 1 .. Len(s) |-> s[i]]
OBVIOUS

\* Tail written as a function, the form in which Contents is defined.
LEMMA TailAsFunction ==
    ASSUME NEW S, NEW s \in Seq(S), s # <<>>
    PROVE  Tail(s) = [i \in 1 .. Len(s) - 1 |-> s[i + 1]]
<1>1. /\ Tail(s) \in Seq(S)
      /\ Len(Tail(s)) = Len(s) - 1
      /\ \A i \in 1 .. Len(s) - 1 : Tail(s)[i] = s[i + 1]
  BY HeadTailProperties, Zenon
<1>2. Tail(s) = [i \in 1 .. Len(Tail(s)) |-> Tail(s)[i]]
  BY <1>1, SeqAsFunction, Zenon
<1> QED
  BY <1>1, <1>2, Zenon

\* ipu6_recv_put_token removes exactly the oldest token, the one handled.
LEMMA ReleaseTakesHead ==
    ASSUME RingInv, RecvPutToken
    PROVE  /\ Contents # <<>>
           /\ Head(Contents) = slot[rd]
           /\ Contents' = Tail(Contents)
<1>0. UsedPackets > 0
  BY Zenon DEF RingInv, Reserved, RecvPutToken
<1>1. UsedPackets' = UsedPackets - 1
  BY <1>0, ReleaseRemovesOne, Zenon DEF RingInv, RecvPutToken
<1> DEFINE c == Contents
           n == UsedPackets
<1>2. c \in Seq(Tokens) /\ Len(c) = n /\ n \in 1 .. QueueSize
  BY <1>0, ContentsSeq
<1>3. c = [i \in 1 .. n |-> slot[Pos(i)]]
  BY Zenon DEF Contents, Pos
<1>4. Pos(1) = rd
  BY QueueSizeAssumption DEF Pos, RingInv, TypeOK, Slots, size
<1>5. \A i \in 1 .. n - 1 : Pos(i)' = Pos(i + 1)
  BY <1>2, QueueSizeAssumption
  DEF Pos, RecvPutToken, Bump, RingInv, TypeOK, Slots, size
<1>6. Contents' = [i \in 1 .. n - 1 |-> slot[Pos(i)']]
  BY <1>1, Zenon DEF Contents, Pos, RecvPutToken
<1>7. Tail(c) = [i \in 1 .. n - 1 |-> c[i + 1]]
  <2> HIDE DEF c, n
  <2>1. c # <<>>
    BY <1>2
  <2> QED
    BY <1>2, <2>1, TailAsFunction, Zenon
<1>8. \A i \in 1 .. n - 1 : slot[Pos(i)'] = c[i + 1]
  BY <1>2, <1>3, <1>5, QueueSizeAssumption
<1>9. c # <<>> /\ Head(c) = c[1] /\ c[1] = slot[rd]
  <2>1. c[1] = slot[rd]
    BY <1>0, <1>2, <1>3, <1>4, QueueSizeAssumption
  <2> HIDE DEF c
  <2> QED BY <1>0, <1>2, <2>1
<1> QED
  BY <1>6, <1>7, <1>8, <1>9, Zenon

\* For every queue size and every kind of token, the ring of ipu6-fw-com.c
\* behaves as the bounded FIFO its users rely on: no command or response is
\* lost, duplicated, reordered or overwritten, "busy" is answered only when
\* QueueSize tokens are queued and "empty" only when none is.
THEOREM RingImplementsFifo == Safety => Fifo!Safety
<1>1. Init => Fifo!Init
  <2> SUFFICES ASSUME Init PROVE Fifo!Init
    BY Zenon
  <2>1. UsedPackets = 0
    BY DEF Init, UsedPackets
  <2>2. Contents = <<>>
    BY <2>1 DEF Contents
  <2> QED
    BY <2>2, Zenon DEF Init, Fifo!Init, Fifo!Empty, NoToken
<1>2. RingInv /\ [Next]_vars => [Fifo!Next]_(Fifo!vars)
  <2> SUFFICES ASSUME RingInv, [Next]_vars PROVE [Fifo!Next]_(Fifo!vars)
    BY Zenon
  <2>0. /\ Contents \in Seq(Tokens)
        /\ Len(Contents) = UsedPackets
        /\ UsedPackets \in 0 .. QueueSize
        /\ FreePackets = QueueSize - UsedPackets
    BY ContentsSeq, PacketsAddUp, Zenon DEF RingInv, TypeOK
  <2>1. CASE SendGetToken
    BY <2>1, Zenon DEF SendGetToken, Contents, UsedPackets, Fifo!vars
  <2>2. CASE SendBusy
    <3>1. Len(Contents) = QueueSize
      BY <2>0, <2>2, QueueSizeAssumption DEF SendBusy
    <3>2. Contents' = Contents
      BY <2>2, Zenon DEF SendBusy, Contents, UsedPackets
    <3> QED
      BY <2>2, <3>1, <3>2, Zenon DEF SendBusy, Fifo!SendBusy, Fifo!Next
  <2>3. ASSUME NEW t \in Tokens, FillToken(t) PROVE UNCHANGED Fifo!vars
    BY <2>3, FillKeepsContents, Zenon DEF FillToken, Fifo!vars
  <2>4. CASE SendPutToken
    <3>1. slot[wr] \in Tokens
      BY Zenon DEF RingInv, TypeOK
    <3>2. Fifo!Send(slot[wr])
      BY <2>0, <2>4, PutAppends, Zenon DEF SendPutToken, Fifo!Send
    <3> QED
      BY <3>1, <3>2, Zenon DEF Fifo!Next
  <2>5. CASE RecvGetToken
    BY <2>5, Zenon DEF RecvGetToken, Contents, UsedPackets, Fifo!vars
  <2>6. CASE RecvEmpty
    <3>1. Contents = <<>>
      BY <2>0, <2>6 DEF RecvEmpty
    <3>2. Contents' = Contents
      BY <2>6, Zenon DEF RecvEmpty, Contents, UsedPackets
    <3> QED
      BY <2>6, <3>1, <3>2, Zenon
      DEF RecvEmpty, NoToken, Fifo!RecvEmpty, Fifo!Empty, Fifo!Next
  <2>7. CASE RecvPutToken
    BY <2>7, ReleaseTakesHead, Zenon
    DEF RecvPutToken, Token, Fifo!Recv, Fifo!Token, Fifo!Next
  <2>8. CASE UNCHANGED vars
    BY <2>8, Zenon DEF vars, Contents, UsedPackets, Fifo!vars
  <2> QED
    BY <2>1, <2>2, <2>3, <2>4, <2>5, <2>6, <2>7, <2>8, Zenon
    DEF Next, SenderStep, ReceiverStep
<1> QED
  BY <1>1, <1>2, RingInvariant, PTL DEF Safety, Fifo!Safety
=============================================================================
