------------------------------- MODULE Lists --------------------------------
(***************************************************************************)
(* The few operators of the community module SequencesExt that the stream  *)
(* needs.  SequencesExt also brings in Bags, TLC and the folds, which every*)
(* proof obligation about the stream would have to carry.                  *)
(***************************************************************************)
EXTENDS Integers, Sequences, FiniteSets

ToSet(s) == {s[i] : i \in DOMAIN s}
Last(s) == s[Len(s)]
Front(s) == SubSeq(s, 1, Len(s) - 1)
RemoveAt(s, i) == SubSeq(s, 1, i - 1) \o SubSeq(s, i + 1, Len(s))
Reverse(s) == [i \in 1..Len(s) |-> s[(Len(s) - i) + 1]]

\* The lists that have each member of a finite set once, and one of them.
SetToSeqs(S) ==
    {s \in [1 .. Cardinality(S) -> S] : \A i, j \in DOMAIN s : s[i] = s[j] => i = j}
SetToSeq(S) == CHOOSE s \in SetToSeqs(S) : TRUE
=============================================================================
