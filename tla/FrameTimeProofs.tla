-------------------------- MODULE FrameTimeProofs --------------------------
(***************************************************************************)
(* For every ring size, register width, set of pins and bound: a buffer    *)
(* carries the number of its frame, and the counter's two halves are       *)
(* joined to the value it had when the low half was read.                  *)
(***************************************************************************)
EXTENDS FrameTime, TLAPS

Reading == [at : {"lo", "hi"}, frame : Nat, pin : Pins, hi : Nat,
            start : 0 .. Word - 1, lo : 0 .. Word - 1, ticks : 0 .. Slack]

TypeOK ==
    /\ tsc \in Time /\ tsc_on \in BOOLEAN
    /\ sequence \in Nat /\ seq_index \in Slots
    /\ seq \in [Slots -> [sequence : Nat, timestamp : Time]]
    /\ streaming \in BOOLEAN /\ frames \in Nat
    /\ stamp \in [0 .. frames - 1 -> Time]
    /\ todo \subseteq (0 .. frames - 1) \X Pins
    /\ reader \in {Idle} \cup Reading
    /\ tsc_now \in Time /\ truth \in Time
    /\ given \in [frame : Nat, number : Int, stamp : Time]

\* Stamps grow with the frames, and none lies in the future.
StampsGrow ==
    /\ tsc_on => /\ \A f \in 0 .. frames - 1 :
                       Before(Zero, stamp[f]) /\ ~Before(tsc, stamp[f])
                 /\ \A f, g \in 0 .. frames - 1 : f < g => Before(stamp[f], stamp[g])
    /\ ~tsc_on => tsc = Zero /\ \A f \in 0 .. frames - 1 : stamp[f] = Zero

\* The frame that slot i of the ring remembers, negative before its first use.
Held(i) == IF i < seq_index THEN sequence - seq_index + i
           ELSE sequence - MaxParallelSof - seq_index + i

\* The ring remembers the last MaxParallelSof frames, and every frame with
\* data to come is one of them.
RingHolds ==
    /\ sequence = frames
    /\ \A i \in Slots :
         IF Held(i) >= 0
         THEN seq[i] = [sequence |-> Held(i), timestamp |-> stamp[Held(i)]]
         ELSE seq[i] = NoSof
    /\ \A d \in todo : d[1] + Parallel >= frames
    /\ ~streaming => todo = {}

\* Inside tsc_read, the counter has run on by a known number of ticks since
\* the first read, and the low half was read in between.
ReadInBetween ==
    reader # Idle =>
      /\ <<reader.frame, reader.pin>> \in todo
      /\ \/ tsc.hi = reader.hi /\ tsc.lo = reader.start + reader.ticks
         \/ tsc.hi = reader.hi + 1 /\ tsc.lo + Word = reader.start + reader.ticks
      /\ reader.at = "hi" =>
           /\ reader.lo = truth.lo
           /\ ~Before(truth, stamp[reader.frame])
           /\ \/ /\ truth.hi = reader.hi /\ reader.start <= truth.lo
                 /\ tsc.hi = reader.hi => truth.lo <= tsc.lo
              \/ truth.hi = reader.hi + 1 /\ tsc.hi = truth.hi /\ truth.lo <= tsc.lo

FrameInv ==
    TypeOK /\ StampsGrow /\ RingHolds /\ ReadInBetween /\ TscExact /\ NumberedByFrame

-----------------------------------------------------------------------------
\* A ring index moves to the next slot, and from the last one to the first.
LEMMA NextIndex ==
    ASSUME NEW i \in Slots
    PROVE  (i + 1) % MaxParallelSof =
             IF i + 1 = MaxParallelSof THEN 0 ELSE i + 1
BY FrameTimeAssumption DEF Slots

\* No time is before itself, or before zero.
LEMMA NotBefore ==
    ASSUME NEW t \in Time
    PROVE  ~Before(t, t) /\ ~Before(t, Zero)
BY FrameTimeAssumption DEF Time, Before, Zero

\* Joining the halves gives the counter at the time of the low read.
LEMMA JoinedAtLowRead ==
    ASSUME FrameInv, reader.at = "hi"
    PROVE  tsc_read(reader.hi, reader.lo, tsc.hi) = truth
<1>1. reader \in Reading /\ reader # Idle
  BY DEF FrameInv, TypeOK, Idle
<1>2. Word = 2 * (Word \div 2) /\ Word \div 2 \in Nat /\ Slack <= Word \div 2
  BY FrameTimeAssumption
<1>3. truth = [hi |-> truth.hi, lo |-> truth.lo]
  BY Zenon DEF FrameInv, TypeOK, Time
<1>4. /\ truth.hi \in Nat /\ truth.lo \in 0 .. Word - 1
      /\ tsc.hi \in Nat /\ tsc.lo \in 0 .. Word - 1
  BY Zenon DEF FrameInv, TypeOK, Time
<1>5. /\ reader.hi \in Nat /\ reader.start \in 0 .. Word - 1
      /\ reader.ticks \in 0 .. Slack
  BY <1>1, Zenon DEF Reading
<1>6. /\ reader.lo = truth.lo
      /\ \/ tsc.hi = reader.hi /\ tsc.lo = reader.start + reader.ticks
         \/ tsc.hi = reader.hi + 1 /\ tsc.lo + Word = reader.start + reader.ticks
      /\ \/ truth.hi = reader.hi /\ reader.start <= truth.lo
         \/ truth.hi = reader.hi + 1 /\ tsc.hi = truth.hi /\ truth.lo <= tsc.lo
  BY <1>1, Zenon DEF FrameInv, ReadInBetween
<1>7. (IF reader.hi = tsc.hi \/ reader.lo >= Word \div 2 THEN reader.hi ELSE tsc.hi)
        = truth.hi
  BY <1>2, <1>4, <1>5, <1>6, FrameTimeAssumption
<1> QED
  BY <1>3, <1>6, <1>7, Zenon DEF tsc_read

\* The stamp of a frame with data to come finds the number of that frame.
LEMMA NumberFound ==
    ASSUME FrameInv, NEW d \in todo
    PROVE  get_sof_sequence_by_timestamp(stamp[d[1]]) = d[1]
<1> DEFINE f == d[1]
<1>1. f \in 0 .. frames - 1 /\ f + Parallel >= frames /\ sequence = frames
  BY Zenon DEF FrameInv, TypeOK, RingHolds
<1>2. CASE ~tsc_on
  <2>1. stamp[f] = Zero /\ f = sequence - 1
    BY <1>1, <1>2 DEF FrameInv, StampsGrow, Parallel, TypeOK
  <2> QED
    BY <2>1, Zenon DEF get_sof_sequence_by_timestamp
<1>3. CASE tsc_on
  <2> DEFINE hits == {i \in Slots : seq[i].timestamp = stamp[f]}
             at == IF f - sequence + seq_index >= 0 THEN f - sequence + seq_index
                   ELSE f - sequence + seq_index + MaxParallelSof
  <2>1. stamp[f] # Zero /\ stamp[f] \in Time
    <3>1. stamp[f] \in Time /\ Before(Zero, stamp[f])
      BY <1>1, <1>3, Zenon DEF FrameInv, StampsGrow, TypeOK
    <3>2. Zero \in Time
      BY FrameTimeAssumption DEF Zero, Time
    <3> QED
      BY <3>1, <3>2, NotBefore, Zenon
  <2>2. at \in Slots /\ Held(at) = f
    <3>1. /\ seq_index \in 0 .. MaxParallelSof - 1 /\ sequence \in Nat
          /\ f \in 0 .. sequence - 1 /\ f + MaxParallelSof >= sequence
      BY <1>1, <1>3, Zenon DEF FrameInv, TypeOK, Parallel, Slots
    <3>2. at \in 0 .. MaxParallelSof - 1
      BY <3>1, FrameTimeAssumption
    <3>3. (IF at < seq_index THEN sequence - seq_index + at
           ELSE sequence - MaxParallelSof - seq_index + at) = f
      BY <3>1, FrameTimeAssumption
    <3> QED
      BY <3>2, <3>3, Zenon DEF Slots, Held
  <2>3. seq[at] = [sequence |-> f, timestamp |-> stamp[f]]
    BY <2>2, <1>1 DEF FrameInv, RingHolds
  <2>4. \A i \in hits : Held(i) = f /\ seq[i].sequence = f
    <3> SUFFICES ASSUME NEW i \in Slots, seq[i].timestamp = stamp[f]
                 PROVE  Held(i) = f /\ seq[i].sequence = f
      BY Zenon
    <3>1. Held(i) \in Int
      BY FrameTimeAssumption DEF FrameInv, TypeOK, Held, Slots
    <3>2. CASE ~(Held(i) >= 0)
      <4>1. seq[i] = NoSof
        BY <3>2, Zenon DEF FrameInv, RingHolds
      <4> QED
        BY <4>1, <2>1 DEF NoSof
    <3>3. CASE Held(i) >= 0
      <4>1. /\ seq[i] = [sequence |-> Held(i), timestamp |-> stamp[Held(i)]]
            /\ stamp[Held(i)] = stamp[f]
        BY <3>3 DEF FrameInv, RingHolds
      <4>2. Held(i) \in 0 .. frames - 1
        BY <3>3, <1>1, FrameTimeAssumption DEF FrameInv, TypeOK, Held, Slots
      <4>3. ~(Held(i) < f) /\ ~(f < Held(i))
        BY <4>1, <4>2, <2>1, <1>1, <1>3, NotBefore, Zenon DEF FrameInv, StampsGrow
      <4>4. Held(i) = f
        BY <4>2, <4>3, <1>1 DEF FrameInv, TypeOK
      <4> QED
        BY <4>1, <4>4
    <3> QED
      BY <3>2, <3>3, Zenon
  <2>5. at \in hits
    BY <2>2, <2>3
  <2>6. \A i \in hits : i = at
    <3> SUFFICES ASSUME NEW i \in Slots, Held(i) = f PROVE i = at
      BY <2>4, Zenon
    <3> HIDE DEF at
    <3>1. seq_index \in Slots /\ sequence \in Nat
      BY Zenon DEF FrameInv, TypeOK
    <3> QED
      BY <3>1, <2>2, FrameTimeAssumption DEF Held, Slots
  <2>7. (CHOOSE i \in hits : \A j \in hits : i <= j) = at
    <3>1. at <= at
      BY <2>2 DEF Slots
    <3> QED
      BY <3>1, <2>5, <2>6, Zenon
  <2> QED
    BY <2>1, <2>4, <2>5, <2>7, Zenon DEF get_sof_sequence_by_timestamp
<1> QED
  BY <1>2, <1>3, Zenon DEF FrameInv, TypeOK

-----------------------------------------------------------------------------
\* Before the first capture the invariant holds.
LEMMA FrameInvInit == Init => FrameInv
<1> SUFFICES ASSUME Init PROVE FrameInv
  BY Zenon
<1> USE FrameTimeAssumption DEF Init
<1>1. Zero \in Time
  BY DEF Zero, Time
<1>2. TypeOK
  <2>1. stamp \in [0 .. frames - 1 -> Time] /\ todo \subseteq (0 .. frames - 1) \X Pins
    OBVIOUS
  <2>2. seq \in [Slots -> [sequence : Nat, timestamp : Time]] /\ seq_index \in Slots
    BY <1>1 DEF Slots, NoSof
  <2>3. given \in [frame : Nat, number : Int, stamp : Time]
    BY <1>1 DEF NoBuffer
  <2> QED
    BY <1>1, <2>1, <2>2, <2>3, Zenon DEF TypeOK
<1>3. StampsGrow /\ ReadInBetween
  BY DEF StampsGrow, ReadInBetween
<1>4. RingHolds
  <2>1. \A i \in Slots : ~(Held(i) >= 0)
    BY DEF Held, Slots
  <2> QED
    BY <2>1, Zenon DEF RingHolds
<1>5. TscExact /\ NumberedByFrame
  BY <1>1, NotBefore, Zenon DEF TscExact, NumberedByFrame, NoBuffer
<1> QED
  BY <1>2, <1>3, <1>4, <1>5, Zenon DEF FrameInv

\* A start forgets the frames of the last capture.
LEMMA StartKeeps == FrameInv /\ Start => FrameInv'
<1> SUFFICES ASSUME FrameInv, Start PROVE FrameInv'
  BY Zenon
<1> USE FrameTimeAssumption DEF FrameInv, Start, prepare_stream
<1>1. Zero \in Time
  BY DEF Zero, Time
<1>2. todo = {} /\ todo' = {}
  BY Zenon DEF RingHolds
<1>3. TypeOK'
  BY <1>1, <1>2 DEF TypeOK, Slots, NoSof, NoBuffer
<1>4. StampsGrow' /\ ReadInBetween'
  BY DEF StampsGrow, ReadInBetween
<1>5. RingHolds'
  <2>1. \A i \in Slots : ~(Held(i)' >= 0)
    BY DEF Held, Slots
  <2> QED
    BY <1>2, <2>1, Zenon DEF RingHolds
<1>6. TscExact' /\ NumberedByFrame'
  BY NotBefore, Zenon DEF TypeOK, TscExact, NumberedByFrame, NoBuffer
<1> QED
  BY <1>3, <1>4, <1>5, <1>6, Zenon

\* A tick moves the counter forward, by at most Slack inside tsc_read.
LEMMA TickKeeps == FrameInv /\ Tick => FrameInv'
<1> SUFFICES ASSUME FrameInv, Tick PROVE FrameInv'
  OBVIOUS
<1> USE FrameTimeAssumption DEF FrameInv, stream, firmware
<1>1. /\ tsc' \in Time /\ Before(tsc, tsc')
      /\ \A t \in Time : Before(tsc', t) => Before(tsc, t)
      /\ \/ tsc'.hi = tsc.hi /\ tsc'.lo = tsc.lo + 1
         \/ tsc'.hi = tsc.hi + 1 /\ tsc.lo + 1 = Word /\ tsc'.lo = 0
  <2>1. tsc \in [hi : Nat, lo : 0 .. Word - 1]
    BY Zenon DEF TypeOK, Time
  <2>2. /\ tsc' \in [hi : Nat, lo : 0 .. Word - 1]
        /\ \/ tsc'.hi = tsc.hi /\ tsc'.lo = tsc.lo + 1
           \/ tsc'.hi = tsc.hi + 1 /\ tsc.lo + 1 = Word /\ tsc'.lo = 0
    BY <2>1 DEF Tick
  <2>3. Before(tsc, tsc')
    BY <2>1, <2>2 DEF Before
  <2>4. \A t \in Time : Before(tsc', t) => Before(tsc, t)
    <3> SUFFICES ASSUME NEW t \in Time, Before(tsc', t) PROVE Before(tsc, t)
      BY Zenon
    <3>1. t.hi \in Nat /\ t.lo \in Int /\ tsc.hi \in Nat /\ tsc.lo \in Int
      BY <2>1 DEF Time
    <3> QED
      BY <2>2, <3>1 DEF Before
  <2> QED
    BY <2>2, <2>3, <2>4, Zenon DEF Time
<1>2. reader = Idle => reader' = Idle
  BY Zenon DEF Tick, Idle
<1>3. reader # Idle => /\ reader \in Reading /\ reader.ticks < Slack
                       /\ reader' = [reader EXCEPT !.ticks = @ + 1]
  BY Zenon DEF Tick, TypeOK, Reading
<1>4. TypeOK'
  <2>1. reader' \in {Idle} \cup Reading
    BY <1>2, <1>3 DEF Reading
  <2> QED
    BY <2>1, <1>1, Zenon DEF Tick, TypeOK
<1>5. StampsGrow'
  BY <1>1, Zenon DEF Tick, TypeOK, StampsGrow
<1>6. RingHolds'
  BY Zenon DEF Tick, RingHolds, Held, Parallel
<1>7. ReadInBetween'
  <2>1. CASE reader = Idle
    BY <2>1, <1>2, Zenon DEF ReadInBetween
  <2>2. CASE reader # Idle
    <3>1. /\ reader'.frame = reader.frame /\ reader'.pin = reader.pin
          /\ reader'.hi = reader.hi /\ reader'.start = reader.start
          /\ reader'.at = reader.at /\ reader'.lo = reader.lo
          /\ reader'.ticks = reader.ticks + 1
      BY <2>2, <1>3, Zenon DEF Reading
    <3>2. /\ todo' = todo /\ truth' = truth /\ stamp' = stamp
      BY Zenon DEF Tick
    <3>3. \/ tsc'.hi = reader.hi /\ tsc'.lo = reader.start + reader'.ticks
          \/ tsc'.hi = reader.hi + 1 /\ tsc'.lo + Word = reader.start + reader'.ticks
      <4>1. reader.ticks \in 0 .. Slack /\ reader.ticks < Slack
            /\ reader.start \in 0 .. Word - 1 /\ reader.hi \in Nat
        BY <2>2, <1>3, Zenon DEF Reading
      <4>2. tsc.hi \in Nat /\ tsc.lo \in 0 .. Word - 1
        BY Zenon DEF TypeOK, Time
      <4>3. Slack + Word < 2 * Word
        BY DEF Time
      <4> QED
        BY <4>1, <4>2, <4>3, <3>1, <2>2, <1>1 DEF ReadInBetween
    <3>4. ASSUME reader.at = "hi"
          PROVE  \/ /\ truth.hi = reader.hi /\ reader.start <= truth.lo
                    /\ tsc'.hi = reader.hi => truth.lo <= tsc'.lo
                 \/ truth.hi = reader.hi + 1 /\ tsc'.hi = truth.hi /\ truth.lo <= tsc'.lo
      <4>1. reader.hi \in Nat /\ tsc.hi \in Nat /\ tsc.lo \in 0 .. Word - 1
            /\ truth.hi \in Nat /\ truth.lo \in 0 .. Word - 1
            /\ reader.start \in 0 .. Word - 1 /\ reader.ticks \in 0 .. Slack
        BY <2>2, <1>3, Zenon DEF Reading, TypeOK, Time
      <4> QED
        BY <4>1, <3>1, <3>3, <3>4, <2>2, <1>1 DEF ReadInBetween
    <3> QED
      BY <3>1, <3>2, <3>3, <3>4, <2>2, Zenon DEF ReadInBetween
  <2> QED
    BY <2>1, <2>2, Zenon
<1>8. TscExact' /\ NumberedByFrame'
  <2>1. reader' = Idle => reader = Idle
    BY <1>3, Zenon DEF Reading, Idle
  <2> QED
    BY <2>1, Zenon DEF Tick, TscExact, NumberedByFrame
<1> QED
  BY <1>4, <1>5, <1>6, <1>7, <1>8
\* A new frame takes the slot of the oldest, which has no data to come., Zenon
LEMMA FrameSofKeeps == FrameInv /\ FrameSof => FrameInv'
<1> SUFFICES ASSUME FrameInv, FrameSof PROVE FrameInv'
  OBVIOUS
<1> DEFINE N == MaxParallelSof
<1>1. /\ frames \in Nat /\ frames' = frames + 1 /\ sequence = frames
      /\ sequence' = sequence + 1 /\ seq_index \in 0 .. N - 1 /\ N \in Nat \ {0}
      /\ tsc' = tsc /\ tsc \in Time /\ tsc_on' = tsc_on /\ tsc_on \in BOOLEAN
  BY FrameTimeAssumption, Zenon DEF FrameInv, FrameSof, sof, sof_event_by_stream, TypeOK, RingHolds, Slots
<1>2. seq_index' = IF seq_index + 1 = N THEN 0 ELSE seq_index + 1
  BY NextIndex, Zenon DEF FrameInv, FrameSof, sof, sof_event_by_stream, TypeOK
<1>3. seq' = [seq EXCEPT ![seq_index] = [sequence |-> sequence, timestamp |-> tsc]]
  BY <1>1 DEF FrameSof, sof, sof_event_by_stream
<1>4. /\ stamp' \in [0 .. frames' - 1 -> Time] /\ stamp'[frames] = tsc
      /\ \A f \in 0 .. frames - 1 : stamp'[f] = stamp[f]
  BY <1>1 DEF FrameInv, FrameSof, TypeOK
<1>5. /\ todo' \subseteq (0 .. frames' - 1) \X Pins
      /\ \A d \in todo' : d \in todo \/ d[1] = frames
  BY <1>1 DEF FrameInv, FrameSof, TypeOK
<1>6. reader = Idle /\ reader' = Idle
  BY Zenon DEF FrameSof
<1>7. TypeOK'
  <2>1. seq' \in [Slots -> [sequence : Nat, timestamp : Time]]
    BY <1>1, <1>3, Zenon DEF FrameInv, TypeOK
  <2>2. seq_index' \in Slots /\ sequence' \in Nat /\ frames' \in Nat
    BY <1>1, <1>2 DEF Slots
  <2> QED
    BY <2>1, <2>2, <1>1, <1>4, <1>5, <1>6, Zenon DEF FrameInv, FrameSof, TypeOK
<1>8. StampsGrow'
  <2>1. CASE ~tsc_on
    BY <2>1, <1>1, <1>4 DEF FrameInv, StampsGrow
  <2>2. CASE tsc_on
    <3>1. ~Before(tsc, tsc) /\ Before(Zero, tsc)
      BY <2>2, <1>1, NotBefore, Zenon DEF FrameSof
    <3>2. \A f \in 0 .. frames - 1 : Before(stamp[f], tsc)
      <4> SUFFICES ASSUME NEW f \in 0 .. frames - 1 PROVE Before(stamp[f], tsc)
        BY Zenon
      <4>1. Before(stamp[frames - 1], tsc)
        BY <2>2, <1>1 DEF FrameSof
      <4>2. CASE f = frames - 1
        BY <4>1, <4>2, Zenon
      <4>3. CASE f < frames - 1
        <5>1. Before(stamp[f], stamp[frames - 1])
          BY <4>3, <2>2, <1>1 DEF FrameInv, StampsGrow
        <5>2. stamp[f] \in Time /\ stamp[frames - 1] \in Time
          BY <1>1 DEF FrameInv, TypeOK
        <5> QED
          BY <4>1, <5>1, <5>2, <1>1 DEF Before, Time
      <4> QED
        BY <4>2, <4>3, <1>1
    <3>3. \A f \in 0 .. frames' - 1 : f = frames \/ f \in 0 .. frames - 1
      BY <1>1
    <3>4. \A f \in 0 .. frames' - 1 : Before(Zero, stamp'[f]) /\ ~Before(tsc, stamp'[f])
      BY <3>1, <3>3, <2>2, <1>4, Zenon DEF FrameInv, StampsGrow
    <3>5. \A f, g \in 0 .. frames' - 1 : f < g => Before(stamp'[f], stamp'[g])
      <4> SUFFICES ASSUME NEW f \in 0 .. frames' - 1, NEW g \in 0 .. frames' - 1, f < g
                   PROVE  Before(stamp'[f], stamp'[g])
        BY Zenon
      <4>1. f \in 0 .. frames - 1
        BY <1>1
      <4> QED
        BY <4>1, <3>2, <3>3, <2>2, <1>4, Zenon DEF FrameInv, StampsGrow
    <3> QED
      BY <3>4, <3>5, <2>2, <1>1, Zenon DEF StampsGrow
  <2> QED
    BY <2>1, <2>2, Zenon
<1>9. RingHolds'
  <2>1. \A i \in Slots : i = seq_index => Held(i)' = frames
    BY <1>1, <1>2 DEF Held, Slots
  <2>2. \A i \in Slots : i # seq_index => Held(i)' = Held(i) /\ Held(i) \in Int /\ Held(i) < frames
    BY <1>1, <1>2 DEF Held, Slots
  <2>3. \A i \in Slots :
          IF Held(i)' >= 0
          THEN seq'[i] = [sequence |-> Held(i)', timestamp |-> stamp'[Held(i)']]
          ELSE seq'[i] = NoSof
    <3> SUFFICES ASSUME NEW i \in Slots
                 PROVE  IF Held(i)' >= 0
                        THEN seq'[i] = [sequence |-> Held(i)', timestamp |-> stamp'[Held(i)']]
                        ELSE seq'[i] = NoSof
      BY Zenon
    <3>1. CASE i = seq_index
      BY <3>1, <2>1, <1>1, <1>3, <1>4 DEF FrameInv, TypeOK
    <3>2. CASE i # seq_index
      <4>1. seq'[i] = seq[i]
        BY <3>2, <1>3, Zenon DEF FrameInv, TypeOK
      <4>2. Held(i) >= 0 => stamp'[Held(i)] = stamp[Held(i)]
        BY <3>2, <2>2, <1>1, <1>4
      <4> QED
        BY <4>1, <4>2, <3>2, <2>2, Zenon DEF FrameInv, RingHolds
    <3> QED
      BY <3>1, <3>2, Zenon
  <2>4. \A d \in todo' : d[1] + Parallel' >= frames'
    <3> SUFFICES ASSUME NEW d \in todo' PROVE d[1] + Parallel >= frames + 1
      BY <1>1, Zenon DEF Parallel
    <3>1. Parallel \in Nat \ {0}
      BY <1>1 DEF Parallel
    <3>2. CASE d \in todo
      <4>1. d[1] \in Nat
        BY <3>2 DEF FrameInv, TypeOK
      <4>2. d[1] + Parallel > frames
        BY <3>2, Zenon DEF FrameSof
      <4> QED
        BY <4>1, <4>2, <3>1, <1>1
    <3>3. CASE d[1] = frames
      BY <3>1, <3>3, <1>1
    <3> QED
      BY <3>2, <3>3, <1>5, Zenon
  <2> QED
    BY <2>3, <2>4, <1>1, Zenon DEF RingHolds, FrameSof
<1>10. ReadInBetween' /\ TscExact' /\ NumberedByFrame'
  BY <1>6, Zenon DEF FrameInv, FrameSof, ReadInBetween, TscExact, NumberedByFrame
<1> QED
  BY <1>7, <1>8, <1>9, <1>10, Zenon DEF FrameInv
\* The first read of the high half starts the clock of tsc_read.
LEMMA ReadHiKeeps == FrameInv /\ ReadHi => FrameInv'
<1> SUFFICES ASSUME FrameInv, ReadHi PROVE FrameInv'
  OBVIOUS
<1> USE FrameTimeAssumption DEF FrameInv, stream, firmware
<1>1. PICK d \in todo :
        reader' = [at |-> "lo", frame |-> d[1], pin |-> d[2],
                   hi |-> tsc.hi, start |-> tsc.lo, lo |-> 0, ticks |-> 0]
  BY Zenon DEF ReadHi
<1>2. d \in (0 .. frames - 1) \X Pins /\ d = <<d[1], d[2]>>
  BY DEF TypeOK
<1>3. reader' \in Reading /\ reader' # Idle
  BY <1>1, <1>2 DEF TypeOK, Time, Reading, Idle
<1>4. TypeOK' /\ StampsGrow' /\ RingHolds'
  BY <1>3, Zenon DEF ReadHi, TypeOK, StampsGrow, RingHolds, Held, Parallel
<1>5. ReadInBetween'
  <2>1. /\ reader'.at # "hi" /\ reader'.frame = d[1] /\ reader'.pin = d[2]
        /\ reader'.hi = tsc.hi /\ reader'.start = tsc.lo /\ reader'.ticks = 0
    BY <1>1, Zenon
  <2>2. tsc' = tsc /\ todo' = todo /\ tsc.lo \in Int
    BY DEF ReadHi, TypeOK, Time
  <2>3. tsc'.lo = reader'.start + reader'.ticks
    BY <2>1, <2>2
  <2> QED
    BY <2>1, <2>2, <2>3, <1>2, Zenon DEF ReadInBetween
<1>6. TscExact' /\ NumberedByFrame'
  BY <1>3, Zenon DEF ReadHi, TscExact, NumberedByFrame
<1> QED
  BY <1>4, <1>5, <1>6, Zenon

\* The low half is read no earlier than the frame's stamp.
LEMMA ReadLoKeeps == FrameInv /\ ReadLo => FrameInv'
<1> SUFFICES ASSUME FrameInv, ReadLo PROVE FrameInv'
  OBVIOUS
<1> USE FrameTimeAssumption DEF FrameInv, stream, firmware
<1>1. reader # Idle /\ reader \in Reading
  <2>1. reader.at = "lo" /\ reader \in {Idle} \cup Reading
    BY Zenon DEF ReadLo, TypeOK
  <2>2. Idle.at # "lo"
    BY DEF Idle
  <2> QED
    BY <2>1, <2>2, Zenon
<1>2. tsc.hi \in Nat /\ tsc.lo \in 0 .. Word - 1 /\ tsc \in Time
  BY Zenon DEF TypeOK, Time
<1>3. /\ reader' \in Reading /\ reader' # Idle
      /\ reader'.frame = reader.frame /\ reader'.pin = reader.pin
      /\ reader'.hi = reader.hi /\ reader'.start = reader.start
      /\ reader'.ticks = reader.ticks /\ reader'.lo = tsc.lo
  BY <1>1, <1>2, Zenon DEF ReadLo, Reading, Idle
<1>4. TypeOK' /\ StampsGrow' /\ RingHolds'
  BY <1>2, <1>3, Zenon DEF ReadLo, TypeOK, StampsGrow, RingHolds, Held, Parallel
<1>5. ReadInBetween'
  <2>1. ~Before(tsc, stamp[reader.frame])
    <3>1. reader.frame \in 0 .. frames - 1
      BY <1>1, Zenon DEF ReadInBetween, TypeOK
    <3> QED
      BY <3>1, <1>2, NotBefore, Zenon DEF StampsGrow, TypeOK
  <2>2. /\ reader.start \in 0 .. Word - 1 /\ reader.ticks \in 0 .. Slack
        /\ reader.hi \in Nat
    BY <1>1, Zenon DEF Reading
  <2>3. \/ tsc.hi = reader.hi /\ tsc.lo = reader.start + reader.ticks
        \/ tsc.hi = reader.hi + 1 /\ tsc.lo + Word = reader.start + reader.ticks
    BY <1>1, Zenon DEF ReadInBetween
  <2>4. \/ tsc.hi = reader.hi /\ reader.start <= tsc.lo
        \/ tsc.hi = reader.hi + 1
    BY <2>2, <2>3, <1>2
  <2>5. /\ truth' = tsc /\ tsc' = tsc /\ todo' = todo /\ stamp' = stamp
        /\ <<reader.frame, reader.pin>> \in todo
    BY <1>1, Zenon DEF ReadLo, ReadInBetween
  <2> QED
    BY <2>1, <2>3, <2>4, <2>5, <1>2, <1>3 DEF ReadInBetween
<1>6. TscExact' /\ NumberedByFrame'
  BY <1>3, Zenon DEF ReadLo, TscExact, NumberedByFrame
<1> QED
  BY <1>4, <1>5, <1>6, Zenon

\* The last read gives the buffer its number and its time.
LEMMA ReadHiAgainKeeps == FrameInv /\ ReadHiAgain => FrameInv'
<1> SUFFICES ASSUME FrameInv, ReadHiAgain PROVE FrameInv'
  OBVIOUS
<1>1. /\ reader.at = "hi" /\ reader # Idle /\ reader \in Reading
      /\ reader' = Idle /\ truth' = truth
  BY DEF FrameInv, TypeOK, ReadHiAgain, Idle
<1> DEFINE d == <<reader.frame, reader.pin>>
<1>2. d \in todo /\ ~Before(truth, stamp[reader.frame])
  BY <1>1, Zenon DEF FrameInv, ReadInBetween
<1>3. reader.frame \in 0 .. frames - 1 /\ reader.frame \in Nat
      /\ stamp[reader.frame] \in Time
  BY <1>2 DEF FrameInv, TypeOK
<1>4. tsc_now' = truth
  BY <1>1, JoinedAtLowRead, Zenon DEF ReadHiAgain
<1>5. get_sof_sequence_by_timestamp(stamp[reader.frame]) = reader.frame
  BY <1>2, NumberFound, Zenon
<1>6. given' = [frame |-> reader.frame, number |-> reader.frame,
                stamp |-> stamp[reader.frame]]
  BY <1>5, Zenon DEF ReadHiAgain
<1>7. TypeOK' /\ StampsGrow' /\ RingHolds'
  <2>1. /\ reader' \in {Idle} \cup Reading /\ tsc_now' \in Time
    BY <1>1, <1>4, Zenon DEF FrameInv, TypeOK
  <2>2. given' \in [frame : Nat, number : Int, stamp : Time]
    <3>1. reader.frame \in Int
      BY <1>3
    <3> QED
      BY <3>1, <1>3, <1>6, Zenon
  <2>3. todo' \subseteq todo
    BY Zenon DEF ReadHiAgain
  <2> QED
    BY <2>1, <2>2, <2>3, <1>1, Zenon
    DEF FrameInv, ReadHiAgain, TypeOK, StampsGrow, RingHolds, Held, Parallel, stream, firmware
<1>8. ReadInBetween' /\ TscExact' /\ NumberedByFrame'
  BY <1>1, <1>2, <1>4, <1>6, Zenon DEF ReadInBetween, TscExact, NumberedByFrame
<1> QED
  BY <1>7, <1>8, Zenon DEF FrameInv

\* Every step keeps the invariant; a stop or a dropped frame only shrinks
\* the data to come.
LEMMA FrameInvStep == FrameInv /\ [Next]_vars => FrameInv'
<1> SUFFICES ASSUME FrameInv, [Next]_vars PROVE FrameInv'
  BY Zenon
<1>1. CASE Stop
  BY <1>1, Zenon DEF Stop, FrameInv, TypeOK, StampsGrow, RingHolds, Held, Parallel,
              ReadInBetween, TscExact, NumberedByFrame, stream
<1>2. CASE Drop
  BY <1>2, Zenon DEF Drop, FrameInv, TypeOK, StampsGrow, RingHolds, Held, Parallel,
              ReadInBetween, TscExact, NumberedByFrame, stream, firmware
<1>3. CASE UNCHANGED vars
  BY <1>3, Zenon DEF vars, FrameInv, TypeOK, StampsGrow, RingHolds, Held, Parallel,
              ReadInBetween, TscExact, NumberedByFrame
<1> QED
  BY <1>1, <1>2, <1>3, TickKeeps, StartKeeps, FrameSofKeeps, ReadHiKeeps,
     ReadLoKeeps, ReadHiAgainKeeps, Zenon DEF Next

-----------------------------------------------------------------------------
\* Whatever the size of the ring and however frames overlap, a buffer gets
\* the number of its own frame from get_sof_sequence_by_timestamp.
THEOREM BuffersNumbered == Spec => []NumberedByFrame
<1>1. FrameInv => NumberedByFrame
  BY Zenon DEF FrameInv
<1> QED
  BY <1>1, FrameInvInit, FrameInvStep, PTL DEF Spec

\* ipu6_buttress_tsc_read returns a value the counter had, for registers of
\* any width, as long as at most half a word of ticks passes between its reads.
THEOREM CounterRead == Spec => []TscExact
<1>1. FrameInv => TscExact
  BY Zenon DEF FrameInv
<1> QED
  BY <1>1, FrameInvInit, FrameInvStep, PTL DEF Spec
=============================================================================
