----------------------------- MODULE FrameTime -----------------------------
(***************************************************************************)
(* What a captured buffer says about its frame: the sequence number, found *)
(* in a small ring that the FRAME_SOF responses fill, and the time, found  *)
(* by reading the time-stamp counter (TSC) through two half-width          *)
(* registers while it runs.                                                *)
(*                                                                         *)
(* Responses are handled one at a time, in the order in which the firmware *)
(* posted them.  The firmware stamps a frame when it starts and reports    *)
(* the data of each output pin later, so frames overlap: the SOF of one or *)
(* more later frames may be handled before the last pin of a frame.  It    *)
(* may also drop the data of a frame.  On a platform without a TSC every   *)
(* stamp is 0.                                                             *)
(*                                                                         *)
(* RingOneShort and CarryForgotten are mistaken variants of the definition *)
(* below them, kept to show that the properties notice such mistakes.      *)
(***************************************************************************)
EXTENDS Integers

CONSTANTS
    Pins,             \* output pins of the stream
    MaxParallelSof,   \* IPU6_ISYS_MAX_PARALLEL_SOF
    Word,             \* values of one half of the counter (2^32)
    Slack,            \* ticks that fit between the first and the last readl
    MaxHi, MaxFrames  \* bounds: high halves and frames of one capture

ASSUME FrameTimeAssumption ==
    /\ MaxParallelSof \in Nat \ {0}
    /\ Word \in Nat /\ Word > 1 /\ Word % 2 = 0
    /\ Slack \in Nat /\ Slack <= Word \div 2
    /\ MaxHi \in Nat /\ MaxFrames \in Nat

VARIABLES
    tsc,        \* the counter, as the two words its registers show
    tsc_on,     \* whether the platform has one; never changes
    sequence, seq, seq_index,  \* of struct ipu6_isys_stream
    streaming,  \* whether a capture runs
    frames,     \* frames the firmware has started in this capture
    stamp,      \* and when each of them started
    todo,       \* data the firmware has still to report: <<frame, pin>>
    reader,     \* the handler of PIN_DATA_READY, inside tsc_read
    tsc_now,    \* what the last complete read returned,
    truth,      \* and the counter when its low half was read
    given       \* number given to the last buffer, its frame and its stamp

vars == <<tsc, tsc_on, sequence, seq, seq_index, streaming, frames, stamp,
          todo, reader, tsc_now, truth, given>>

stream == <<sequence, seq, seq_index>>
firmware == <<streaming, frames, stamp>>

Time == [hi : Nat, lo : 0 .. Word - 1]
Zero == [hi |-> 0, lo |-> 0]
Before(a, b) == a.hi < b.hi \/ (a.hi = b.hi /\ a.lo < b.lo)

Slots == 0 .. MaxParallelSof - 1
NoSof == [sequence |-> 0, timestamp |-> Zero]
Idle == [at |-> "idle"]
NoBuffer == [frame |-> 0, number |-> 0, stamp |-> Zero]

Init ==
    /\ tsc = Zero /\ tsc_on \in BOOLEAN
    /\ sequence = 0 /\ seq = [i \in Slots |-> NoSof] /\ seq_index = 0
    /\ streaming = FALSE /\ frames = 0 /\ stamp = <<>> /\ todo = {}
    /\ reader = Idle /\ tsc_now = Zero /\ truth = Zero
    /\ given = NoBuffer

-----------------------------------------------------------------------------
(* The hardware.                                                           *)

\* The counter ticks; local_irq_save keeps the three reads close together.
Tick ==
    /\ tsc_on
    /\ reader.at # "idle" => reader.ticks < Slack
    /\ \/ tsc.lo + 1 < Word /\ tsc' = [tsc EXCEPT !.lo = @ + 1]
       \/ tsc.lo + 1 = Word /\ tsc.hi < MaxHi /\ tsc' = [hi |-> tsc.hi + 1, lo |-> 0]
    /\ reader' = IF reader.at = "idle" THEN reader
                 ELSE [reader EXCEPT !.ticks = @ + 1]
    /\ UNCHANGED <<tsc_on, stream, firmware, todo, tsc_now, truth, given>>

-----------------------------------------------------------------------------
(* Start and stop of a capture.                                            *)

prepare_stream ==
    /\ sequence' = 0
    /\ seq_index' = 0
    /\ seq' = [i \in Slots |-> NoSof]

Start ==
    /\ ~streaming /\ reader = Idle
    /\ prepare_stream
    /\ streaming' = TRUE /\ frames' = 0 /\ stamp' = <<>>
    /\ given' = NoBuffer
    /\ UNCHANGED <<tsc, tsc_on, todo, reader, tsc_now, truth>>

\* The firmware acknowledges a stop after everything it has to report.
Stop ==
    /\ streaming /\ reader = Idle
    /\ streaming' = FALSE /\ todo' = {}
    /\ UNCHANGED <<tsc, tsc_on, stream, frames, stamp, reader, tsc_now, truth, given>>

-----------------------------------------------------------------------------
(* FRAME_SOF.                                                              *)

\* Frames the firmware keeps open at once: as many as the ring remembers,
\* and one where there is no stamp to look a frame up by.
Parallel == IF tsc_on THEN MaxParallelSof ELSE 1

\* ipu6_isys_csi2_sof_event_by_stream counts the frame.
sof_event_by_stream == sequence' = sequence + 1

\* MISTAKE: the ring never uses its last slot.
RingOneShort(ts) ==
    /\ sof_event_by_stream
    /\ seq' = [seq EXCEPT ![seq_index] = [sequence |-> sequence' - 1, timestamp |-> ts]]
    /\ seq_index' = IF seq_index + 2 < MaxParallelSof THEN seq_index + 1 ELSE 0

\* The ring remembers the number and the stamp of the frame just counted.
sof(ts) ==
    /\ sof_event_by_stream
    /\ seq' = [seq EXCEPT ![seq_index] = [sequence |-> sequence' - 1, timestamp |-> ts]]
    /\ seq_index' = (seq_index + 1) % MaxParallelSof

FrameSof ==
    /\ streaming /\ frames < MaxFrames /\ reader = Idle
    /\ \A d \in todo : d[1] + Parallel > frames
    /\ tsc_on => /\ Before(Zero, tsc)
                 /\ frames > 0 => Before(stamp[frames - 1], tsc)
    /\ sof(tsc)
    /\ stamp' = [f \in 0 .. frames |-> IF f < frames THEN stamp[f] ELSE tsc]
    /\ frames' = frames + 1
    /\ todo' = todo \cup ({frames} \X Pins)
    /\ UNCHANGED <<tsc, tsc_on, streaming, reader, tsc_now, truth, given>>

\* The firmware gives up the data of a frame.
Drop ==
    /\ reader = Idle
    /\ \E d \in todo : todo' = todo \ {d}
    /\ UNCHANGED <<tsc, tsc_on, stream, firmware, reader, tsc_now, truth, given>>

-----------------------------------------------------------------------------
(* PIN_DATA_READY: ipu6_isys_buf_calc_sequence_time.                       *)

\* MISTAKE: the halves are joined as read.
CarryForgotten(hi1, lo, hi2) == [hi |-> hi1, lo |-> lo]

\* ipu6_buttress_tsc_read: the top bit of the low half tells on which side
\* of a carry it was read.
tsc_read(hi1, lo, hi2) ==
    [hi |-> IF hi1 = hi2 \/ lo >= Word \div 2 THEN hi1 ELSE hi2, lo |-> lo]

get_sof_sequence_by_timestamp(time) ==
    LET hits == {i \in Slots : seq[i].timestamp = time}
    IN  CASE time = Zero -> sequence - 1
          [] time # Zero /\ hits # {} ->
               seq[CHOOSE i \in hits : \A j \in hits : i <= j].sequence
          [] OTHER -> 0

ReadHi ==
    /\ reader = Idle
    /\ \E d \in todo : reader' = [at |-> "lo", frame |-> d[1], pin |-> d[2],
                                  hi |-> tsc.hi, start |-> tsc.lo, lo |-> 0, ticks |-> 0]
    /\ UNCHANGED <<tsc, tsc_on, stream, firmware, todo, tsc_now, truth, given>>

ReadLo ==
    /\ reader.at = "lo"
    /\ reader' = [reader EXCEPT !.at = "hi", !.lo = tsc.lo]
    /\ truth' = tsc
    /\ UNCHANGED <<tsc, tsc_on, stream, firmware, todo, tsc_now, given>>

ReadHiAgain ==
    /\ reader.at = "hi"
    /\ tsc_now' = tsc_read(reader.hi, reader.lo, tsc.hi)
    /\ given' = [frame |-> reader.frame,
                 number |-> get_sof_sequence_by_timestamp(stamp[reader.frame]),
                 stamp |-> stamp[reader.frame]]
    /\ todo' = todo \ {<<reader.frame, reader.pin>>}
    /\ reader' = Idle
    /\ UNCHANGED <<tsc, tsc_on, stream, firmware, truth>>

Next == Tick \/ Start \/ Stop \/ FrameSof \/ Drop \/ ReadHi \/ ReadLo \/ ReadHiAgain

Spec == Init /\ [][Next]_vars

-----------------------------------------------------------------------------
\* A buffer carries the number of the frame it was captured from, counted
\* from 0 in every capture, however the frames in flight overlap and
\* whichever of their pins are reported late or not at all
\* (get_sof_sequence_by_timestamp in ipu6-isys-queue.c).
NumberedByFrame == given.number = given.frame

\* The two halves of the counter, read one after the other around a carry,
\* make up the value the counter had when its low half was read
\* (ipu6_buttress_tsc_read in ipu6-buttress.c), so the unsigned age of the
\* buffer's frame that get_sof_ns_delta takes from it never wraps.
TscExact ==
    reader = Idle => tsc_now = truth /\ ~Before(tsc_now, given.stamp)
=============================================================================
