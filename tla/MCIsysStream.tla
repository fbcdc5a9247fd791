---------------------------- MODULE MCIsysStream ----------------------------
(* Instances of IsysStream: buffer b3 belongs to queue q2, the others to   *)
(* queue q1.                                                               *)
EXTENDS IsysStream, TLC

CONSTANTS b3, q1, q2

MCQueueOf == [b \in Buffers |-> IF b = b3 THEN q2 ELSE q1]
MsgSymmetry == Permutations(InitMsgs) \cup Permutations(Msgs \ InitMsgs)
=============================================================================
