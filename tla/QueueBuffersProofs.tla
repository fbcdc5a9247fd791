------------------------- MODULE QueueBuffersProofs -------------------------
(***************************************************************************)
(* What a stream with one queue does with its buffers is safe: a buffer is *)
(* in at most one place, and as long as no reset is due the firmware has   *)
(* only buffers of the active list.  First what the operations on lists do,*)
(* then that each action keeps the invariant Inv, then the theorems.       *)
(***************************************************************************)
EXTENDS QueueBuffers, TLAPS

-----------------------------------------------------------------------------
(* Lists.                                                                  *)

\* The members of a list.
LEMMA Members ==
    ASSUME NEW s, NEW x
    PROVE  x \in ToSet(s) <=> \E i \in DOMAIN s : s[i] = x
BY Zenon DEF ToSet

\* Only the empty list has none.
LEMMA NoMembers ==
    ASSUME NEW s \in Seq(Buffers)
    PROVE  ToSet(s) = {} <=> s = <<>>
<1>1. CASE s = <<>>
  BY <1>1 DEF ToSet
<1>2. CASE s # <<>>
  <2>1. 1 \in DOMAIN s
    BY <1>2
  <2> QED  BY <1>2, <2>1 DEF ToSet
<1> QED  BY <1>1, <1>2

\* Two lists, one behind the other.
LEMMA Joined ==
    ASSUME NEW s, NEW t, List(s), List(t), ToSet(s) \cap ToSet(t) = {}
    PROVE  List(s \o t) /\ ToSet(s \o t) = ToSet(s) \cup ToSet(t)
<1>1. /\ s \in Seq(Buffers) /\ t \in Seq(Buffers)
      /\ Len(s) \in Nat /\ Len(t) \in Nat /\ DOMAIN s = 1..Len(s) /\ DOMAIN t = 1..Len(t)
  BY DEF List
<1>2. /\ s \o t \in Seq(Buffers) /\ DOMAIN (s \o t) = 1 .. Len(s) + Len(t)
      /\ \A i \in 1..Len(s) : (s \o t)[i] = s[i]
      /\ \A i \in 1 .. Len(s) + Len(t) : i \notin 1..Len(s) =>
            i - Len(s) \in 1..Len(t) /\ (s \o t)[i] = t[i - Len(s)]
  BY <1>1
<1>3. ASSUME NEW i \in DOMAIN (s \o t), NEW j \in DOMAIN (s \o t), (s \o t)[i] = (s \o t)[j]
      PROVE  i = j
  <2>1. CASE i \in 1..Len(s) /\ j \in 1..Len(s)
    BY <1>1, <1>2, <1>3, <2>1, Zenon DEF List, NoRepeat
  <2>2. CASE i \notin 1..Len(s) /\ j \notin 1..Len(s)
    BY <1>1, <1>2, <1>3, <2>2, SMT DEF List, NoRepeat
  <2>3. CASE i \in 1..Len(s) /\ j \notin 1..Len(s)
    BY <1>1, <1>2, <1>3, <2>3, Members, Zenon
  <2>4. CASE i \notin 1..Len(s) /\ j \in 1..Len(s)
    BY <1>1, <1>2, <1>3, <2>4, Members, Zenon
  <2> QED  BY <2>1, <2>2, <2>3, <2>4, Zenon
<1>4. ASSUME NEW x
      PROVE  x \in ToSet(s \o t) <=> x \in ToSet(s) \cup ToSet(t)
  <2>1. ASSUME x \in ToSet(s \o t) PROVE x \in ToSet(s) \/ x \in ToSet(t)
    <3>1. PICK i \in DOMAIN (s \o t) : (s \o t)[i] = x
      BY <2>1, Members, Zenon
    <3>2. CASE i \in 1..Len(s)
      BY <1>1, <1>2, <3>1, <3>2, Members, Zenon
    <3>3. CASE i \notin 1..Len(s)
      BY <1>1, <1>2, <3>1, <3>3, Members, Zenon
    <3> QED  BY <3>2, <3>3, Zenon
  <2>2. ASSUME x \in ToSet(s) PROVE x \in ToSet(s \o t)
    <3>1. PICK i \in DOMAIN s : s[i] = x
      BY <2>2, Members, Zenon
    <3>2. i \in DOMAIN (s \o t) /\ (s \o t)[i] = s[i]
      BY <1>1
    <3> QED  BY <3>1, <3>2, Members, Zenon
  <2>3. ASSUME x \in ToSet(t) PROVE x \in ToSet(s \o t)
    <3>1. PICK j \in DOMAIN t : t[j] = x
      BY <2>3, Members, Zenon
    <3>2. j + Len(s) \in DOMAIN (s \o t) /\ (s \o t)[j + Len(s)] = t[j]
      BY <1>1
    <3> QED  BY <3>1, <3>2, Members, Zenon
  <2> QED  BY <2>1, <2>2, <2>3, Zenon
<1> QED  BY <1>2, <1>3, <1>4, Zenon DEF List, NoRepeat

\* A part of a list.
LEMMA Part ==
    ASSUME NEW s, List(s), NEW a \in Nat \ {0}, NEW z \in Nat, z <= Len(s), a <= z + 1
    PROVE  /\ List(SubSeq(s, a, z))
           /\ \A x : x \in ToSet(SubSeq(s, a, z)) <=> \E n \in a..z : s[n] = x
<1>1. s \in Seq(Buffers) /\ Len(s) \in Nat /\ DOMAIN s = 1..Len(s) /\ NoRepeat(s)
  BY DEF List
<1> DEFINE t == SubSeq(s, a, z)
<1>2. /\ t \in Seq(Buffers) /\ DOMAIN t = 1 .. z - a + 1
      /\ \A k \in DOMAIN t : t[k] = s[k + a - 1] /\ k + a - 1 \in a..z
      /\ a..z \subseteq DOMAIN s
  BY <1>1, SMT
<1> HIDE DEF t
<1>3. List(t)
  <2>1. \A k, l \in DOMAIN t : k + a - 1 = l + a - 1 => k = l
    BY <1>2, SMT
  <2>2. ASSUME NEW k \in DOMAIN t, NEW l \in DOMAIN t, t[k] = t[l]
        PROVE  k = l
    <3>1. s[k + a - 1] = s[l + a - 1]
      BY <1>2, <2>2, Zenon
    <3>2. k + a - 1 \in DOMAIN s /\ l + a - 1 \in DOMAIN s
      BY <1>2, Zenon
    <3> QED  BY <1>1, <2>1, <3>1, <3>2, Zenon DEF NoRepeat
  <2> QED  BY <1>2, <2>2, Zenon DEF List, NoRepeat
<1>4. ASSUME NEW n \in a..z PROVE s[n] \in ToSet(t)
  <2>1. n - a + 1 \in DOMAIN t /\ (n - a + 1) + a - 1 = n
    BY <1>2, SMT
  <2> QED  BY <1>2, <2>1, Members, Zenon
<1>5. ASSUME NEW x, x \in ToSet(t) PROVE \E n \in a..z : s[n] = x
  <2>1. PICK k \in DOMAIN t : t[k] = x
    BY <1>5, Members, Zenon
  <2> QED  BY <1>2, <2>1, Zenon
<1> QED  BY <1>3, <1>4, <1>5, Zenon DEF t

\* list_del of the entry at i.
LEMMA Deleted ==
    ASSUME NEW s, List(s), NEW i \in DOMAIN s
    PROVE  List(RemoveAt(s, i)) /\ ToSet(RemoveAt(s, i)) = ToSet(s) \ {s[i]}
<1>1. s \in Seq(Buffers) /\ Len(s) \in Nat /\ DOMAIN s = 1..Len(s) /\ i \in 1..Len(s)
  BY DEF List
<1>2. /\ i - 1 \in Nat /\ i + 1 \in Nat \ {0} /\ i - 1 <= Len(s) /\ 1 <= i - 1 + 1
      /\ i + 1 <= Len(s) + 1 /\ 1 \in Nat \ {0} /\ Len(s) <= Len(s)
      /\ \A n \in 1..Len(s) : n # i <=> n \in 1 .. i - 1 \/ n \in i + 1 .. Len(s)
      /\ \A n \in 1 .. i - 1 : n \in 1..Len(s)
      /\ \A n \in i + 1 .. Len(s) : n \in 1..Len(s)
      /\ \A n \in 1 .. i - 1 : n \notin i + 1 .. Len(s)
  BY <1>1, SMT
<1> DEFINE t == SubSeq(s, 1, i - 1)
           u == SubSeq(s, i + 1, Len(s))
<1>3. /\ List(t) /\ \A x : x \in ToSet(t) <=> \E n \in 1 .. i - 1 : s[n] = x
      /\ List(u) /\ \A x : x \in ToSet(u) <=> \E n \in i + 1 .. Len(s) : s[n] = x
  BY <1>1, <1>2, Part, Zenon
<1>4. RemoveAt(s, i) = t \o u
  BY Zenon DEF RemoveAt
<1> HIDE DEF t, u
<1>5. NoRepeat(s)
  BY Zenon DEF List
<1>6. ToSet(t) \cap ToSet(u) = {}
  <2> SUFFICES ASSUME NEW x \in ToSet(t), x \in ToSet(u) PROVE FALSE
    BY Zenon
  <2>1. PICK m \in 1 .. i - 1 : s[m] = x
    BY <1>3, Zenon
  <2>2. PICK n \in i + 1 .. Len(s) : s[n] = x
    BY <1>3, Zenon
  <2> QED  BY <1>1, <1>2, <1>5, <2>1, <2>2, Zenon DEF NoRepeat
<1>7. List(t \o u) /\ ToSet(t \o u) = ToSet(t) \cup ToSet(u)
  BY <1>3, <1>6, Joined, Zenon
<1>8. ASSUME NEW x PROVE x \in ToSet(t) \cup ToSet(u) <=> x \in ToSet(s) \ {s[i]}
  <2>1. ASSUME x \in ToSet(t) \/ x \in ToSet(u) PROVE x \in ToSet(s) /\ x # s[i]
    <3>1. PICK n \in 1..Len(s) : n # i /\ s[n] = x
      BY <1>2, <1>3, <2>1, Zenon
    <3> QED  BY <1>1, <1>5, <3>1, Members, Zenon DEF NoRepeat
  <2>2. ASSUME x \in ToSet(s) /\ x # s[i] PROVE x \in ToSet(t) \/ x \in ToSet(u)
    <3>1. PICK n \in 1..Len(s) : s[n] = x
      BY <1>1, <2>2, Members, Zenon
    <3>2. n # i
      BY <2>2, <3>1, Zenon
    <3> QED  BY <1>2, <1>3, <3>1, <3>2, Zenon
  <2> QED  BY <2>1, <2>2, Zenon
<1> QED  BY <1>4, <1>7, <1>8, Zenon

\* list_last_entry and list_del.
LEMMA TakeLast ==
    ASSUME NEW s, List(s), s # <<>>
    PROVE  /\ List(Front(s)) /\ Last(s) \in ToSet(s) /\ Last(s) \in Buffers
           /\ ToSet(Front(s)) = ToSet(s) \ {Last(s)}
<1>1. s \in Seq(Buffers) /\ Len(s) \in DOMAIN s
  BY DEF List
<1>2. RemoveAt(s, Len(s)) = Front(s)
  BY <1>1 DEF RemoveAt, Front
<1>3. s[Len(s)] \in Buffers
  BY <1>1
<1>4. List(RemoveAt(s, Len(s))) /\ ToSet(RemoveAt(s, Len(s))) = ToSet(s) \ {s[Len(s)]}
  BY <1>1, Deleted, Zenon
<1> QED  BY <1>1, <1>2, <1>3, <1>4, Members, Zenon DEF Last

\* Putting it all back, the other way round.
LEMMA Reversed ==
    ASSUME NEW s, List(s)
    PROVE  List(Reverse(s)) /\ ToSet(Reverse(s)) = ToSet(s)
<1>1. s \in Seq(Buffers) /\ Len(s) \in Nat /\ DOMAIN s = 1..Len(s)
  BY DEF List
<1> DEFINE at(k) == (Len(s) - k) + 1
<1>2. /\ Reverse(s) \in Seq(Buffers) /\ DOMAIN Reverse(s) = 1..Len(s)
      /\ \A k \in 1..Len(s) : Reverse(s)[k] = s[at(k)]
  BY <1>1 DEF Reverse
<1>3. /\ \A k \in 1..Len(s) : at(k) \in 1..Len(s) /\ at(at(k)) = k
      /\ \A k, l \in 1..Len(s) : at(k) = at(l) => k = l
  BY <1>1
<1> HIDE DEF at
<1>4. List(Reverse(s))
  BY <1>1, <1>2, <1>3, SMT DEF List, NoRepeat
<1>5. \A x : x \in ToSet(Reverse(s)) <=> x \in ToSet(s)
  BY <1>1, <1>2, <1>3, Members, SMT
<1> QED  BY <1>4, <1>5, Zenon

\* The empty list is one.
LEMMA EmptyList == List(<<>>) /\ ToSet(<<>>) = {}
BY DEF List, NoRepeat, ToSet

\* What is on a list is a buffer.
LEMMA InBuffers ==
    ASSUME NEW s, List(s)
    PROVE  ToSet(s) \subseteq Buffers
BY DEF List, ToSet

\* What SetToSeq and SetToSeqs make of a set of buffers (proved at the end).
Listing ==
    \A S \in SUBSET Buffers :
        /\ List(SetToSeq(S)) /\ ToSet(SetToSeq(S)) = S
        /\ \A s \in SetToSeqs(S) : List(s) /\ ToSet(s) = S

-----------------------------------------------------------------------------
(* Queues of buffer sets.                                                  *)

\* What is in a queue.
LEMMA InUs ==
    ASSUME NEW s, NEW x
    PROVE  x \in Us(s) <=> \E i \in DOMAIN s : x \in s[i]
BY SMT DEF Us

\* An empty queue.
LEMMA NoSets == <<>> \in Sets /\ Us(<<>>) = {} /\ Apart(<<>>)
BY DEF Sets, Us, Apart

\* Adding a set, or several,
LEMMA SetsJoined ==
    ASSUME NEW s \in Sets, NEW t \in Sets
    PROVE  /\ s \o t \in Sets /\ Us(s \o t) = Us(s) \cup Us(t)
           /\ Apart(s) /\ Apart(t) /\ Us(s) \cap Us(t) = {} => Apart(s \o t)
<1>1. Len(s) \in Nat /\ Len(t) \in Nat /\ DOMAIN s = 1..Len(s) /\ DOMAIN t = 1..Len(t)
  BY DEF Sets
<1>2. /\ s \o t \in Sets /\ DOMAIN (s \o t) = 1 .. Len(s) + Len(t)
      /\ \A i \in DOMAIN s : i \in DOMAIN (s \o t) /\ (s \o t)[i] = s[i]
      /\ \A i \in DOMAIN t : i + Len(s) \in DOMAIN (s \o t) /\ (s \o t)[i + Len(s)] = t[i]
  BY DEF Sets
<1>3. \A i \in DOMAIN (s \o t) : i \in DOMAIN s \/ \E j \in DOMAIN t : i = j + Len(s)
  <2> SUFFICES ASSUME NEW i \in 1 .. Len(s) + Len(t), i \notin 1..Len(s)
               PROVE  \E j \in 1..Len(t) : i = j + Len(s)
    BY <1>1, <1>2, Zenon
  <2>1. i - Len(s) \in 1..Len(t) /\ i = (i - Len(s)) + Len(s)
    BY <1>1
  <2> QED  BY <2>1, Zenon
<1>4. ASSUME NEW x PROVE x \in Us(s \o t) <=> x \in Us(s) \/ x \in Us(t)
  <2>1. x \in Us(s) => x \in Us(s \o t)
    BY <1>2, InUs, Zenon
  <2>2. ASSUME NEW i \in DOMAIN t, x \in t[i] PROVE x \in Us(s \o t)
    BY <1>2, <2>2, InUs, Zenon
  <2>3. ASSUME NEW i \in DOMAIN (s \o t), x \in (s \o t)[i] PROVE x \in Us(s) \/ x \in Us(t)
    BY <1>2, <1>3, <2>3, InUs, Zenon
  <2> QED  BY <2>1, <2>2, <2>3, InUs, Zenon
<1>5. ASSUME Apart(s), Apart(t), Us(s) \cap Us(t) = {},
             NEW i \in DOMAIN (s \o t), NEW j \in DOMAIN (s \o t), i # j,
             NEW x, x \in (s \o t)[i], x \in (s \o t)[j]
      PROVE  FALSE
  <2>1. CASE i \in DOMAIN s /\ j \in DOMAIN s
    BY <1>2, <1>5, <2>1, Zenon DEF Apart
  <2>2. ASSUME NEW k \in DOMAIN t, NEW l \in DOMAIN t, i = k + Len(s), j = l + Len(s)
        PROVE  FALSE
    <3>1. k # l
      BY <1>5, <2>2, Zenon
    <3>2. x \in t[k] /\ x \in t[l]
      BY <1>2, <1>5, <2>2, Zenon
    <3> QED  BY <1>5, <3>1, <3>2, Zenon DEF Apart
  <2>3. ASSUME i \in DOMAIN s, NEW l \in DOMAIN t, j = l + Len(s) PROVE FALSE
    <3>1. x \in s[i] /\ x \in t[l]
      BY <1>2, <1>5, <2>3, Zenon
    <3> QED  BY <1>5, <2>3, <3>1, InUs, Zenon
  <2>4. ASSUME j \in DOMAIN s, NEW k \in DOMAIN t, i = k + Len(s) PROVE FALSE
    <3>1. x \in s[j] /\ x \in t[k]
      BY <1>2, <1>5, <2>4, Zenon
    <3> QED  BY <1>5, <2>4, <3>1, InUs, Zenon
  <2> QED  BY <1>3, <2>1, <2>2, <2>3, <2>4, Zenon
<1> QED  BY <1>2, <1>4, <1>5, Zenon DEF Apart

\* a set at the end,
LEMMA SetAppended ==
    ASSUME NEW s \in Sets, NEW X \in SUBSET Buffers
    PROVE  /\ Append(s, X) \in Sets /\ Us(Append(s, X)) = Us(s) \cup X
           /\ Apart(s) /\ Us(s) \cap X = {} => Apart(Append(s, X))
<1>1. /\ <<X>> \in Sets /\ Us(<<X>>) = X /\ Apart(<<X>>) /\ Append(s, X) = s \o <<X>>
  BY DEF Sets, Us, Apart
<1> QED  BY <1>1, SetsJoined, Zenon

\* and taking the first away.
LEMMA SetTaken ==
    ASSUME NEW s \in Sets, s # <<>>
    PROVE  /\ Tail(s) \in Sets /\ s[1] \in SUBSET Buffers /\ s[1] \subseteq Us(s)
           /\ Us(Tail(s)) \subseteq Us(s)
           /\ Apart(s) => Apart(Tail(s)) /\ Us(Tail(s)) = Us(s) \ s[1]
<1>1. /\ Tail(s) \in Sets /\ s[1] \in SUBSET Buffers /\ 1 \in DOMAIN s /\ s = <<s[1]>> \o Tail(s)
      /\ \A i \in DOMAIN Tail(s) : i + 1 \in DOMAIN s /\ i + 1 # 1 /\ Tail(s)[i] = s[i + 1]
      /\ \A i, j \in DOMAIN Tail(s) : i + 1 = j + 1 => i = j
      /\ <<s[1]>> \in Sets /\ Us(<<s[1]>>) = s[1]
  BY DEF Sets, Us
<1>2. Us(s) = s[1] \cup Us(Tail(s))
  BY <1>1, SetsJoined, Zenon
<1>3. ASSUME Apart(s) PROVE Apart(Tail(s)) /\ s[1] \cap Us(Tail(s)) = {}
  <2>1. Apart(Tail(s))
    <3> SUFFICES ASSUME NEW i \in DOMAIN Tail(s), NEW j \in DOMAIN Tail(s), i # j
                 PROVE  Tail(s)[i] \cap Tail(s)[j] = {}
      BY Zenon DEF Apart
    <3>1. i + 1 \in DOMAIN s /\ j + 1 \in DOMAIN s /\ i + 1 # j + 1
      BY <1>1, Zenon
    <3>2. s[i + 1] \cap s[j + 1] = {}
      BY <1>3, <3>1, Zenon DEF Apart
    <3> QED  BY <1>1, <3>2, Zenon
  <2>2. ASSUME NEW x, x \in s[1], x \in Us(Tail(s)) PROVE FALSE
    <3>1. PICK i \in DOMAIN Tail(s) : x \in Tail(s)[i]
      BY <2>2, InUs, Zenon
    <3>2. i + 1 \in DOMAIN s /\ i + 1 # 1 /\ x \in s[i + 1]
      BY <1>1, <3>1, Zenon
    <3> QED  BY <1>1, <1>3, <2>2, <3>2, Zenon DEF Apart
  <2> QED  BY <2>1, <2>2, Zenon
<1> QED  BY <1>1, <1>2, <1>3, Zenon

-----------------------------------------------------------------------------
(* Moving buffers between the places.                                      *)

\* The oldest incoming buffer is dropped, taken on the list, or made active.
LEMMA OwnedNext ==
    ASSUME Listing, NEW I, NEW A, NEW L, NEW J, NEW v, Owned(I, A, L, J, v), I # <<>>
    PROVE  /\ Last(I) \in Buffers /\ Last(I) \in ToSet(I)
           /\ Owned(Front(I), A, L, J, v)
           /\ L = {} => Owned(Front(I), A, {Last(I)}, J, v)
           /\ Owned(Front(I), SetToSeq({Last(I)}) \o A, L, J, v)
           /\ ToSet(SetToSeq({Last(I)}) \o A) = {Last(I)} \cup ToSet(A)
<1> DEFINE x == Last(I)
           P == ToSet(I)
           Q == ToSet(A)
<1>1. List(I) /\ List(A) /\ Parts(P, Q, L, J, v)
  BY Zenon DEF Owned
<1>2. List(Front(I)) /\ x \in P /\ x \in Buffers /\ ToSet(Front(I)) = P \ {x}
  BY <1>1, TakeLast, Zenon
<1>3. List(SetToSeq({x})) /\ ToSet(SetToSeq({x})) = {x}
  BY <1>2, Zenon DEF Listing
<1> HIDE DEF x, P, Q
<1>4. /\ Parts(P \ {x}, Q, L, J, v) /\ (L = {} => Parts(P \ {x}, Q, {x}, J, v))
      /\ Parts(P \ {x}, {x} \cup Q, L, J, v) /\ {x} \cap Q = {}
  BY <1>1, <1>2, SMT DEF Parts
<1>5. List(SetToSeq({x}) \o A) /\ ToSet(SetToSeq({x}) \o A) = {x} \cup Q
  BY <1>1, <1>3, <1>4, Joined, Zenon DEF Q
<1> QED  BY <1>1, <1>2, <1>4, <1>5, Zenon DEF Owned, x, P, Q

\* The list in hand is made active.
LEMMA OwnedOpened ==
    ASSUME Listing, NEW I, NEW A, NEW L \in SUBSET Buffers, NEW J, NEW v,
           Owned(I, A, L, J, v)
    PROVE  /\ Owned(I, SetToSeq(L) \o A, {}, J, v)
           /\ ToSet(SetToSeq(L) \o A) = L \cup ToSet(A)
<1>1. List(A) /\ Parts(ToSet(I), ToSet(A), L, J, v) /\ List(I)
  BY Zenon DEF Owned
<1>2. List(SetToSeq(L)) /\ ToSet(SetToSeq(L)) = L
  BY Zenon DEF Listing
<1>3. L \cap ToSet(A) = {} /\ Parts(ToSet(I), L \cup ToSet(A), {}, J, v)
  BY <1>1, SMT DEF Parts
<1>4. List(SetToSeq(L) \o A) /\ ToSet(SetToSeq(L) \o A) = L \cup ToSet(A)
  BY <1>1, <1>2, <1>3, Joined, Zenon
<1> QED  BY <1>1, <1>3, <1>4, Zenon DEF Owned

\* The list in hand is put back behind the incoming buffers; the active ones are
\* put back before them or returned to videobuf2.
LEMMA OwnedBack ==
    ASSUME Listing, NEW I, NEW A, NEW L \in SUBSET Buffers, NEW J, NEW v, NEW w,
           Owned(I, A, L, J, v), \A b \in Buffers : b \in ToSet(A) \/ w[b] = v[b],
           J \subseteq Buffers
    PROVE  /\ (\A b \in Buffers : w[b] = v[b]) =>
                 Owned(Reverse(A) \o (I \o SetToSeq(L)), <<>>, {}, J, w)
           /\ Owned(<<>> \o (I \o SetToSeq(L)), <<>>, {}, J, w)
<1>1. List(A) /\ Parts(ToSet(I), ToSet(A), L, J, v) /\ List(I)
  BY Zenon DEF Owned
<1>2. List(SetToSeq(L)) /\ ToSet(SetToSeq(L)) = L
  BY Zenon DEF Listing
<1>3. List(Reverse(A)) /\ ToSet(Reverse(A)) = ToSet(A)
  BY <1>1, Reversed, Zenon
<1>4. /\ ToSet(I) \cap L = {} /\ ToSet(A) \cap (ToSet(I) \cup L) = {}
  BY <1>1, SMT DEF Parts
<1>5. List(I \o SetToSeq(L)) /\ ToSet(I \o SetToSeq(L)) = ToSet(I) \cup L
  BY <1>1, <1>2, <1>4, Joined, Zenon
<1>6. /\ List(Reverse(A) \o (I \o SetToSeq(L)))
      /\ ToSet(Reverse(A) \o (I \o SetToSeq(L))) = ToSet(A) \cup (ToSet(I) \cup L)
  <2> DEFINE t == I \o SetToSeq(L)
  <2>1. List(t) /\ ToSet(t) = ToSet(I) \cup L /\ ToSet(Reverse(A)) \cap ToSet(t) = {}
    BY <1>3, <1>4, <1>5, Zenon
  <2> HIDE DEF t
  <2>2. List(Reverse(A) \o t) /\ ToSet(Reverse(A) \o t) = ToSet(Reverse(A)) \cup ToSet(t)
    BY <1>3, <2>1, Joined, Zenon
  <2> QED  BY <1>3, <2>1, <2>2, Zenon DEF t
<1>7. I \o SetToSeq(L) \in Seq(Buffers) /\ ToSet(I) \subseteq Buffers
  BY <1>1, <1>5, InBuffers, Zenon DEF List
<1>8. <<>> \o (I \o SetToSeq(L)) = I \o SetToSeq(L)
  BY <1>7
<1>9. Parts(ToSet(I) \cup L, {}, {}, J, w)
  BY <1>1, <1>7, SMT DEF Parts
<1>10. ASSUME \A b \in Buffers : w[b] = v[b]
       PROVE  Parts(ToSet(A) \cup (ToSet(I) \cup L), {}, {}, J, w)
  <2>1. ToSet(A) \subseteq Buffers
    BY <1>1, InBuffers, Zenon
  <2> QED  BY <1>1, <1>7, <1>10, <2>1, SMT DEF Parts
<1> QED  BY <1>5, <1>6, <1>8, <1>9, <1>10, EmptyList, Zenon DEF Owned

\* All of them are returned.
LEMMA OwnedReturned ==
    ASSUME NEW J, NEW w, \A b \in J : w[b] = "active"
    PROVE  Owned(<<>>, <<>>, {}, J, w)
<1>1. Parts({}, {}, {}, J, w)
  BY SMT DEF Parts
<1> QED  BY <1>1, EmptyList, Zenon DEF Owned

\* The interrupt handler takes one off the active list ...
LEMMA OwnedTaken ==
    ASSUME NEW I, NEW A, NEW L, NEW v, Owned(I, A, L, {}, v), NEW i \in DOMAIN A
    PROVE  /\ Owned(I, RemoveAt(A, i), L, {A[i]}, v)
           /\ ToSet(RemoveAt(A, i)) = ToSet(A) \ {A[i]}
<1>1. List(A) /\ Parts(ToSet(I), ToSet(A), L, {}, v) /\ List(I) /\ A[i] \in ToSet(A)
  BY Members, Zenon DEF Owned
<1>2. List(RemoveAt(A, i)) /\ ToSet(RemoveAt(A, i)) = ToSet(A) \ {A[i]}
  BY <1>1, Deleted, Zenon
<1>3. Parts(ToSet(I), ToSet(A) \ {A[i]}, L, {A[i]}, v)
  BY <1>1, SMT DEF Parts
<1> QED  BY <1>1, <1>2, <1>3, Zenon DEF Owned

\* ... and completes it.
LEMMA OwnedDone ==
    ASSUME NEW I, NEW A, NEW L \in SUBSET Buffers, NEW J, NEW v, NEW w,
           Owned(I, A, L, J, v), \A b \in Buffers : b \in J \/ w[b] = v[b]
    PROVE  Owned(I, A, L, {}, w)
<1>1. List(A) /\ Parts(ToSet(I), ToSet(A), L, J, v) /\ List(I)
  BY Zenon DEF Owned
<1>2. ToSet(I) \subseteq Buffers /\ ToSet(A) \subseteq Buffers
  BY <1>1, InBuffers, Zenon
<1>3. Parts(ToSet(I), ToSet(A), L, {}, w)
  BY <1>1, <1>2, SMT DEF Parts
<1> QED  BY <1>1, <1>3, Zenon DEF Owned

\* videobuf2 gives buffers to the driver.
LEMMA OwnedGiven ==
    ASSUME NEW s, NEW I, NEW A, NEW L \in SUBSET Buffers, NEW J \in SUBSET Buffers,
           NEW v, NEW w, Owned(I, A, L, J, v), List(s),
           \A b \in ToSet(s) : v[b] # "active" /\ w[b] = "active",
           \A b \in Buffers : b \in ToSet(s) \/ w[b] = v[b]
    PROVE  Owned(s \o I, A, L, J, w)
<1>1. List(A) /\ Parts(ToSet(I), ToSet(A), L, J, v) /\ List(I)
  BY Zenon DEF Owned
<1>2. ToSet(I) \subseteq Buffers /\ ToSet(A) \subseteq Buffers
  BY <1>1, InBuffers, Zenon
<1>3. ToSet(s) \cap ToSet(I) = {} /\ Parts(ToSet(s) \cup ToSet(I), ToSet(A), L, J, w)
  BY <1>1, <1>2, SMT DEF Parts
<1>4. List(s \o I) /\ ToSet(s \o I) = ToSet(s) \cup ToSet(I)
  BY <1>1, <1>3, Joined, Zenon
<1> QED  BY <1>1, <1>3, <1>4, Zenon DEF Owned

\* videobuf2 changes the state of its own buffers.
LEMMA OwnedState ==
    ASSUME NEW I, NEW A, NEW L \in SUBSET Buffers, NEW J \in SUBSET Buffers, NEW v, NEW w,
           Owned(I, A, L, J, v), \A b \in Buffers : v[b] = "active" => w[b] = "active"
    PROVE  Owned(I, A, L, J, w)
<1>1. List(A) /\ Parts(ToSet(I), ToSet(A), L, J, v) /\ List(I)
  BY Zenon DEF Owned
<1>2. ToSet(I) \subseteq Buffers /\ ToSet(A) \subseteq Buffers
  BY <1>1, InBuffers, Zenon
<1>3. Parts(ToSet(I), ToSet(A), L, J, w)
  BY <1>1, <1>2, SMT DEF Parts
<1> QED  BY <1>1, <1>3, Zenon DEF Owned

-----------------------------------------------------------------------------
(* Steps of the thread.                                                    *)

\* The firmware has buffers of the queue.
LEMMA GivenBuffers ==
    ASSUME TypeInv
    PROVE  Given \subseteq Buffers /\ Ready \subseteq Buffers
<1>1. ASSUME NEW s \in Sets PROVE Us(s) \subseteq Buffers
  BY SMT DEF Sets, Us
<1> QED  BY <1>1, Zenon DEF TypeInv, Given, Ready

\* From one place of the thread to another of the same kind.
Plain(a, b) ==
    /\ a \notin {"setup", "unwind", "unwind_return"}
    /\ b \notin {"setup", "start_streaming", "stop_put", "unwind", "unwind_return",
                 "capture_loop"} \cup Sending
    /\ a \in Opening \cup {"requeue"} => b \in Opening \cup {"requeue"}
    /\ a \in Starting <=> b \in Starting

\* A command is sent, with new buffers or none.
LEMMA Sent ==
    ASSUME TypeInv, NEW X \in SUBSET Buffers,
           cmds' \in {cmds, Append(cmds, X)}, resps' = resps, held' = held
    PROVE  /\ cmds' \in Sets /\ Ready' = Ready
           /\ Given \subseteq Given' /\ Given' \subseteq Given \cup X
           /\ X \cap Given = {} /\ X \cap Ready = {} /\ Flight(cmds, held, resps)
                 => Flight(cmds, held, resps)'
<1>1. cmds \in Sets /\ resps \in Sets /\ held \in Sets
  BY Zenon DEF TypeInv
<1>2. CASE cmds' = cmds
  BY <1>1, <1>2, Zenon DEF Given, Ready
<1>3. CASE cmds' = Append(cmds, X)
  <2>1. /\ cmds' \in Sets /\ Us(cmds') = Us(cmds) \cup X
        /\ Apart(cmds) /\ Us(cmds) \cap X = {} => Apart(cmds')
    BY <1>1, <1>3, SetAppended, Zenon
  <2> DEFINE S == Us(cmds)
             H == Us(held)
             R == Us(resps)
  <2>2. Given = S \cup H /\ Given' = (S \cup X) \cup H /\ Ready = R /\ Ready' = R
    BY <2>1, Zenon DEF Given, Ready
  <2>3. ASSUME X \cap (S \cup H) = {}, X \cap R = {}, Flight(cmds, held, resps)
        PROVE  Flight(cmds, held, resps)'
    <3>1. /\ Apart(cmds) /\ Apart(held) /\ Apart(resps)
          /\ S \cap H = {} /\ S \cap R = {} /\ H \cap R = {}
      BY <2>3, Zenon DEF Flight
    <3> HIDE DEF S, H, R
    <3>2. S \cap X = {} /\ (S \cup X) \cap H = {} /\ (S \cup X) \cap R = {}
      BY <2>3, <3>1, SMT
    <3> QED  BY <2>1, <3>1, <3>2, Zenon DEF Flight, S, H, R
  <2> HIDE DEF S, H, R
  <2>4. S \cup H \subseteq (S \cup X) \cup H /\ (S \cup X) \cup H \subseteq (S \cup H) \cup X
    BY Zenon
  <2> QED  BY <2>1, <2>2, <2>3, <2>4, Zenon
<1> QED  BY <1>2, <1>3, Zenon

\* A step without buffers.
LEMMA PassKeeps ==
    ASSUME Inv, Pass
    PROVE  Inv'
<1>1. /\ TypeInv /\ PlaceInv /\ OwnerInv /\ KnownInv
  BY Zenon DEF Inv
<1>2. /\ UNCHANGED <<vb, started, incoming, active, joined, streaming, bl, frame, ref_count,
                     need_reset, resps, isr, held>>
      /\ cmds' \in {cmds, Append(cmds, {})} /\ (pc = "idle" => started)
  BY Zenon DEF Pass, listVars, streamVars, callVars, isysVars
<1>3. Plain(pc, pc')
  BY SMT DEF Pass, Passes, Plain, Opening, Starting, Sending
<1>4. Holds /\ Holds' /\ started
  BY <1>1, <1>2, <1>3, Zenon DEF PlaceInv, RefInv, Holds, Plain
<1>5. PlaceInv'
  <2>1. RefInv'
    BY <1>1, <1>2, <1>4, Zenon DEF PlaceInv, RefInv
  <2>2. JoinInv'
    BY <1>1, <1>2, <1>3, Zenon DEF PlaceInv, JoinInv, Plain, Sending
  <2>3. ListInv'
    BY <1>1, <1>2, <1>3, <1>4, Zenon DEF PlaceInv, ListInv, Plain
  <2> QED  BY <2>1, <2>2, <2>3, Zenon DEF PlaceInv
<1>6. /\ cmds' \in Sets /\ Given' = Given /\ Ready' = Ready
      /\ Flight(cmds, held, resps) => Flight(cmds, held, resps)'
  <2>1. {} \in SUBSET Buffers /\ {} \cap Given = {} /\ {} \cap Ready = {} /\ Given \cup {} = Given
    BY Zenon
  <2> QED  BY <1>1, <1>2, <2>1, Sent, Zenon
<1>7. TypeInv' /\ OwnerInv'
  BY <1>1, <1>2, <1>6, Zenon DEF TypeInv, OwnerInv
<1>8. KnownInv'
  <2>1. pc # "unwind" /\ pc' \notin Sending
    BY <1>3, Zenon DEF Plain
  <2> QED  BY <1>1, <1>2, <1>6, <2>1, Zenon DEF KnownInv, Tracked, Within
<1> QED  BY <1>5, <1>7, <1>8, Zenon DEF Inv

\* The buffers of a message are sent.
LEMMA SendKeeps ==
    ASSUME Inv, Send
    PROVE  Inv'
<1>1. /\ TypeInv /\ PlaceInv /\ OwnerInv /\ KnownInv
  BY Zenon DEF Inv
<1>2. /\ UNCHANGED <<vb, started, incoming, active, joined, streaming, bl, ref_count,
                     need_reset, resps, isr, held>>
      /\ cmds' \in {cmds, Append(cmds, frame)} /\ frame' = {}
  BY Zenon DEF Send, listVars, streamVars, isysVars
<1>3. pc \in Sending /\ (Plain(pc, pc') \/ (pc = "loop_capture" /\ pc' = "capture_loop"))
  BY SMT DEF Send, Plain, Opening, Starting, Sending
<1>4. PlaceInv'
  BY <1>1, <1>2, <1>3, SMT
     DEF PlaceInv, RefInv, JoinInv, ListInv, Holds, Plain, Sending, Starting, Opening
<1>5. frame \subseteq Buffers /\ pc # "unwind" /\ pc' # "unwind" /\ pc' \notin Sending
  BY <1>1, <1>3, SMT DEF TypeInv, Plain, Sending
<1>6. /\ cmds' \in Sets /\ Given' \subseteq Given \cup frame /\ Ready' = Ready
      /\ frame \cap Given = {} /\ frame \cap Ready = {} /\ Flight(cmds, held, resps)
            => Flight(cmds, held, resps)'
  BY <1>1, <1>2, <1>5, Sent, Zenon
<1>7. TypeInv' /\ OwnerInv'
  BY <1>1, <1>2, <1>6, Zenon DEF TypeInv, OwnerInv
<1>8. ASSUME Tracked PROVE Tracked'
  <2>1. /\ Flight(cmds, held, resps) /\ Pins(resps, isr)
        /\ Within(pc, frame, Given, Ready, ToSet(active), isr, vb)
    BY <1>8, Zenon DEF Tracked
  <2>2. /\ frame \subseteq ToSet(active) /\ frame \cap Given = {} /\ frame \cap Ready = {}
        /\ Given \subseteq ToSet(active) /\ Ready \subseteq ToSet(active) \cup isr
    BY <1>3, <1>5, <2>1, Zenon DEF Within
  <2>3. \A x \in ToSet(active) : vb[x] = "active"
    BY <1>1, Zenon DEF OwnerInv, Owned, Parts
  <2>4. Within(pc', {}, Given', Ready, ToSet(active), isr, vb)
    BY <1>5, <1>6, <2>2, <2>3, SMT DEF Within
  <2> QED  BY <1>2, <1>6, <2>1, <2>2, <2>4, Zenon DEF Tracked
<1> QED  BY <1>1, <1>2, <1>4, <1>7, <1>8, Zenon DEF Inv, KnownInv

\* The oldest incoming buffer is made active.
LEMMA LoadKeeps ==
    ASSUME Inv, Listing, Load
    PROVE  Inv'
<1>1. /\ TypeInv /\ PlaceInv /\ OwnerInv /\ KnownInv
  BY Zenon DEF Inv
<1> DEFINE x == Last(incoming)
<1>2. /\ UNCHANGED <<vb, started, joined, streaming, bl, ref_count, need_reset, cmds, resps,
                     isr, held>>
      /\ incoming # <<>> /\ incoming' = Front(incoming)
      /\ frame' = {x} /\ active' = SetToSeq({x}) \o active
  BY Zenon DEF Load, streamVars, isysVars, linkVars
<1>3. \/ pc = "buf_queue" /\ pc' = "capture"
      \/ pc = "capture_loop" /\ pc' = "loop_capture"
  BY SMT DEF Load
<1>4. Owned(incoming, active, bl, isr, vb)
  BY <1>1, Zenon DEF OwnerInv
<1>5. /\ x \in Buffers /\ x \in ToSet(incoming)
      /\ Owned(Front(incoming), SetToSeq({x}) \o active, bl, isr, vb)
      /\ ToSet(SetToSeq({x}) \o active) = {x} \cup ToSet(active)
  BY <1>2, <1>4, OwnedNext, Zenon
<1> HIDE DEF x
<1>6. TypeInv' /\ OwnerInv'
  BY <1>1, <1>2, <1>5, Zenon DEF TypeInv, OwnerInv
<1>7. PlaceInv'
  BY <1>1, <1>2, <1>3, SMT DEF PlaceInv, RefInv, JoinInv, ListInv, Holds, Starting, Opening
<1>8. Given' = Given /\ Ready' = Ready
  BY <1>2, Zenon DEF Given, Ready
<1>9. ASSUME Tracked PROVE Tracked'
  <2>1. /\ Flight(cmds, held, resps) /\ Pins(resps, isr)
        /\ Within(pc, frame, Given, Ready, ToSet(active), isr, vb)
    BY <1>9, Zenon DEF Tracked
  <2>2. x \notin ToSet(active) /\ x \notin isr /\ pc # "unwind"
    BY <1>3, <1>4, <1>5, SMT DEF Owned, Parts
  <2>3. Within(pc', {x}, Given, Ready, {x} \cup ToSet(active), isr, vb)
    BY <2>1, <2>2, SMT DEF Within
  <2> QED  BY <1>2, <1>5, <1>8, <2>1, <2>3, Zenon DEF Tracked
<1> QED  BY <1>1, <1>2, <1>6, <1>7, <1>9, Zenon DEF Inv, KnownInv

\* It is dropped, and the start perhaps given up.
LEMMA DropKeeps ==
    ASSUME Inv, Listing, Drop
    PROVE  Inv'
<1>1. /\ TypeInv /\ PlaceInv /\ OwnerInv /\ KnownInv
  BY Zenon DEF Inv
<1>2. /\ UNCHANGED <<vb, started, active, streaming, bl, frame, ref_count, need_reset, cmds,
                     resps, isr, held>>
      /\ incoming # <<>> /\ incoming' = Front(incoming)
      /\ \/ pc = "buf_queue" /\ pc' = "idle" /\ joined' = joined
         \/ pc = "capture_loop" /\ pc' = "unwind" /\ joined' = FALSE
  BY Zenon DEF Drop, callVars, isysVars, linkVars
<1>3. TypeInv' /\ OwnerInv'
  <2>1. Owned(incoming, active, bl, isr, vb)
    BY <1>1, Zenon DEF OwnerInv
  <2>2. Owned(Front(incoming), active, bl, isr, vb)
    BY <1>2, <2>1, OwnedNext, Zenon
  <2> QED  BY <1>1, <1>2, <2>2, Zenon DEF TypeInv, OwnerInv
<1>4. PlaceInv'
  BY <1>1, <1>2, SMT DEF PlaceInv, RefInv, JoinInv, ListInv, Holds, Starting, Opening
<1>5. Given' = Given /\ Ready' = Ready
  BY <1>2, Zenon DEF Given, Ready
<1>6. ASSUME Tracked PROVE Tracked'
  <2>1. /\ Flight(cmds, held, resps) /\ Pins(resps, isr)
        /\ Within(pc, frame, Given, Ready, ToSet(active), isr, vb)
    BY <1>6, Zenon DEF Tracked
  <2>2. Within(pc', frame, Given, Ready, ToSet(active), isr, vb)
    BY <1>2, <2>1, SMT DEF Within, Sending
  <2> QED  BY <1>2, <1>5, <2>1, <2>2, Zenon DEF Tracked
<1> QED  BY <1>1, <1>2, <1>3, <1>4, <1>6, Zenon DEF Inv, KnownInv

\* start_streaming takes the first buffer, as videobuf2 gave it some.
LEMMA StartStreamingKeeps ==
    ASSUME Inv, Listing, StartStreaming
    PROVE  Inv'
<1>1. /\ TypeInv /\ PlaceInv /\ OwnerInv /\ KnownInv
  BY Zenon DEF Inv
<1> DEFINE x == Last(incoming)
<1>2. /\ UNCHANGED <<vb, started, active, streaming, frame, ref_count, need_reset, cmds, resps,
                     isr, held>>
      /\ pc = "start_streaming" /\ pc' = "open" /\ joined' = TRUE
      /\ incoming # <<>> /\ incoming' = Front(incoming) /\ bl' = {x}
  BY Zenon DEF StartStreaming, isysVars, linkVars
<1>3. bl = {}
  BY <1>1, <1>2, SMT DEF PlaceInv, ListInv, Opening
<1>4. x \in Buffers /\ OwnerInv'
  <2>1. Owned(incoming, active, bl, isr, vb)
    BY <1>1, Zenon DEF OwnerInv
  <2>2. x \in Buffers /\ Owned(Front(incoming), active, {x}, isr, vb)
    BY <1>2, <1>3, <2>1, OwnedNext, Zenon
  <2> QED  BY <1>2, <2>2, Zenon DEF OwnerInv
<1> HIDE DEF x
<1>5. TypeInv'
  BY <1>1, <1>2, <1>4, Zenon DEF TypeInv
<1>6. PlaceInv'
  BY <1>1, <1>2, SMT DEF PlaceInv, RefInv, JoinInv, ListInv, Holds, Starting, Opening
<1>7. Given' = Given /\ Ready' = Ready
  BY <1>2, Zenon DEF Given, Ready
<1>8. ASSUME Tracked PROVE Tracked'
  <2>1. /\ Flight(cmds, held, resps) /\ Pins(resps, isr)
        /\ Within(pc, frame, Given, Ready, ToSet(active), isr, vb)
    BY <1>8, Zenon DEF Tracked
  <2>2. Within(pc', frame, Given, Ready, ToSet(active), isr, vb)
    BY <1>2, <2>1, SMT DEF Within, Sending
  <2> QED  BY <1>2, <1>7, <2>1, <2>2, Zenon DEF Tracked
<1> QED  BY <1>1, <1>2, <1>4, <1>5, <1>6, <1>8, Zenon DEF Inv, KnownInv

\* start_stream_firmware puts it on the active list once the stream is open.
LEMMA OpenCompleteKeeps ==
    ASSUME Inv, Listing, OpenComplete
    PROVE  Inv'
<1>1. /\ TypeInv /\ PlaceInv /\ OwnerInv /\ KnownInv
  BY Zenon DEF Inv
<1>2. /\ UNCHANGED <<vb, started, incoming, joined, streaming, ref_count, need_reset, cmds,
                     resps, isr, held>>
      /\ pc = "open_check" /\ pc' = "start"
      /\ active' = SetToSeq(bl) \o active /\ frame' = bl /\ bl' = {}
  BY Zenon DEF OpenComplete, streamVars, isysVars, linkVars
<1>3. bl \in SUBSET Buffers
  BY <1>1, Zenon DEF TypeInv
<1>4. Owned(incoming, active, bl, isr, vb)
  BY <1>1, Zenon DEF OwnerInv
<1>5. /\ Owned(incoming, SetToSeq(bl) \o active, {}, isr, vb)
      /\ ToSet(SetToSeq(bl) \o active) = bl \cup ToSet(active)
  BY <1>3, <1>4, OwnedOpened, Zenon
<1>6. TypeInv' /\ OwnerInv'
  BY <1>1, <1>2, <1>5, Zenon DEF TypeInv, OwnerInv
<1>7. PlaceInv'
  BY <1>1, <1>2, SMT DEF PlaceInv, RefInv, JoinInv, ListInv, Holds, Starting, Opening
<1>8. Given' = Given /\ Ready' = Ready
  BY <1>2, Zenon DEF Given, Ready
<1>9. ASSUME Tracked PROVE Tracked'
  <2>1. /\ Flight(cmds, held, resps) /\ Pins(resps, isr)
        /\ Within("open_check", frame, Given, Ready, ToSet(active), isr, vb)
    BY <1>2, <1>9, Zenon DEF Tracked
  <2>2. bl \cap ToSet(active) = {} /\ bl \cap isr = {}
    BY <1>4, SMT DEF Owned, Parts
  <2>3. Within("start", bl, Given, Ready, bl \cup ToSet(active), isr, vb)
    BY <2>1, <2>2, SMT DEF Within
  <2> QED  BY <1>2, <1>5, <1>8, <2>1, <2>3, Zenon DEF Tracked
<1> QED  BY <1>1, <1>2, <1>6, <1>7, <1>9, Zenon DEF Inv, KnownInv

\* The stream is started, or stopped.
LEMMA StreamingSteps ==
    ASSUME Inv, Started \/ StopEnd
    PROVE  Inv'
<1>1. /\ TypeInv /\ PlaceInv /\ OwnerInv /\ KnownInv
  BY Zenon DEF Inv
<1>2. /\ UNCHANGED <<vb, started, incoming, active, bl, frame, ref_count, need_reset, cmds,
                     resps, isr, held>>
      /\ \/ pc = "start_check" /\ pc' = "capture_loop" /\ joined' = joined /\ streaming'
         \/ pc = "stop_end" /\ pc' = "stop_cleanup" /\ joined' = FALSE
  BY Zenon DEF Started, StopEnd, listVars, callVars, isysVars, linkVars
<1>3. TypeInv' /\ OwnerInv' /\ Given' = Given /\ Ready' = Ready
  BY <1>1, <1>2, Zenon DEF TypeInv, OwnerInv, Given, Ready
<1>4. PlaceInv'
  BY <1>1, <1>2, SMT DEF PlaceInv, RefInv, JoinInv, ListInv, Holds, Starting, Opening
<1>5. ASSUME Tracked PROVE Tracked'
  <2>1. /\ Flight(cmds, held, resps) /\ Pins(resps, isr)
        /\ Within(pc, frame, Given, Ready, ToSet(active), isr, vb)
    BY <1>5, Zenon DEF Tracked
  <2>2. Within(pc', frame, Given, Ready, ToSet(active), isr, vb)
    BY <1>2, <2>1, SMT DEF Within, Sending
  <2> QED  BY <1>2, <1>3, <2>1, <2>2, Zenon DEF Tracked
<1> QED  BY <1>1, <1>2, <1>3, <1>4, <1>5, Zenon DEF Inv, KnownInv

\* out_requeue: the driver keeps or returns what the firmware may still have.
LEMMA RequeueKeeps ==
    ASSUME Inv, Listing, Requeue
    PROVE  Inv'
<1>1. /\ TypeInv /\ PlaceInv /\ OwnerInv /\ KnownInv
  BY Zenon DEF Inv
<1>2. /\ UNCHANGED <<started, streaming, frame, ref_count, need_reset, cmds, resps, isr, held>>
      /\ pc = "requeue" /\ pc' = "unwind" /\ joined' = FALSE /\ active' = <<>> /\ bl' = {}
  BY Zenon DEF Requeue, isysVars, linkVars
<1>3. PICK kept \in BOOLEAN :
         /\ Done(IF kept THEN {} ELSE ToSet(active), "queued")
         /\ incoming' = (IF kept THEN Reverse(active) ELSE <<>>) \o (incoming \o SetToSeq(bl))
  BY Zenon DEF Requeue
<1>4. bl \in SUBSET Buffers /\ isr \subseteq Buffers
  BY <1>1, Zenon DEF TypeInv
<1>5. /\ DOMAIN vb' = Buffers
      /\ \A b \in Buffers : b \in ToSet(active) \/ vb'[b] = vb[b]
      /\ kept => \A b \in Buffers : vb'[b] = vb[b]
      /\ \A b \in Buffers : vb[b] = "active" => vb'[b] \in {"active", "queued"}
  <2>1. CASE kept
    <3>1. Done({}, "queued")
      BY <1>3, <2>1, Zenon
    <3> QED  BY <2>1, <3>1, SMT DEF Done
  <2>2. CASE ~kept
    <3>1. Done(ToSet(active), "queued")
      BY <1>3, <2>2, Zenon
    <3> QED  BY <2>2, <3>1, SMT DEF Done
  <2> QED  BY <2>1, <2>2, Zenon
<1>6. OwnerInv'
  <2>1. Owned(incoming, active, bl, isr, vb)
    BY <1>1, Zenon DEF OwnerInv
  <2>2. CASE kept
    <3>1. Owned(Reverse(active) \o (incoming \o SetToSeq(bl)), <<>>, {}, isr, vb')
      BY <1>4, <1>5, <2>1, <2>2, OwnedBack, Zenon
    <3> QED  BY <1>2, <1>3, <2>2, <3>1, Zenon DEF OwnerInv
  <2>3. CASE ~kept
    <3>1. Owned(<<>> \o (incoming \o SetToSeq(bl)), <<>>, {}, isr, vb')
      BY <1>4, <1>5, <2>1, OwnedBack, Zenon
    <3> QED  BY <1>2, <1>3, <2>3, <3>1, Zenon DEF OwnerInv
  <2> QED  BY <2>2, <2>3, Zenon
<1>7. TypeInv'
  BY <1>1, <1>2, <1>5, Zenon DEF TypeInv
<1>8. PlaceInv'
  BY <1>1, <1>2, SMT DEF PlaceInv, RefInv, JoinInv, ListInv, Holds, Starting, Opening
<1>9. Given' = Given /\ Ready' = Ready
  BY <1>2, Zenon DEF Given, Ready
<1>10. ASSUME Tracked PROVE Tracked'
  <2>1. /\ Flight(cmds, held, resps) /\ Pins(resps, isr)
        /\ Given \subseteq ToSet(active)
    BY <1>2, <1>10, SMT DEF Tracked, Within
  <2>2. \A b \in Given : vb'[b] \in {"active", "queued"}
    <3>1. /\ ToSet(active) \subseteq Buffers
          /\ \A b \in ToSet(active) : vb[b] = "active"
      BY <1>1, InBuffers, Zenon DEF OwnerInv, Owned, Parts
    <3> QED  BY <1>5, <2>1, <3>1, Zenon
  <2>3. Within("unwind", frame, Given, Ready, {}, isr, vb')
    BY <2>2, SMT DEF Within, Sending
  <2> QED  BY <1>2, <1>9, <2>1, <2>3, EmptyList, Zenon DEF Tracked
<1> QED  BY <1>1, <1>2, <1>6, <1>7, <1>8, <1>10, Zenon DEF Inv, KnownInv

-----------------------------------------------------------------------------
(* Opening and closing the firmware.                                       *)

\* Without a firmware nothing is under way.
LEMMA Closed ==
    ASSUME cmds' = <<>>, resps' = <<>>, held' = <<>>, isr' = {}, pc' \notin Sending
    PROVE  cmds' \in Sets /\ resps' \in Sets /\ held' \in Sets /\ KnownInv'
<1>1. <<>> \in Sets /\ Us(<<>>) = {} /\ Apart(<<>>)
  BY NoSets, Zenon
<1>2. Given' = {} /\ Ready' = {}
  BY <1>1, Zenon DEF Given, Ready
<1>3. Flight(<<>>, <<>>, <<>>)
  BY <1>1, Zenon DEF Flight
<1>4. Pins(<<>>, {})
  BY DEF Pins
<1>5. \A A, v : Within(pc', frame', {}, {}, A, {}, v)
  BY SMT DEF Within
<1> QED  BY <1>1, <1>2, <1>3, <1>4, <1>5, Zenon DEF KnownInv, Tracked

\* ipu6_isys_fw_get by the only queue opens the firmware.
LEMMA SetupKeeps ==
    ASSUME Inv, Setup
    PROVE  Inv'
<1>1. TypeInv /\ PlaceInv /\ OwnerInv
  BY Zenon DEF Inv
<1>2. /\ UNCHANGED <<vb, started, incoming, active, joined, streaming, bl, frame, isr>>
      /\ pc = "setup" /\ pc' = "start_streaming" /\ FwGet
  BY Zenon DEF Setup, listVars, streamVars, callVars
<1>3. ~Holds /\ ref_count = 0 /\ isr = {} /\ Holds' /\ pc' \notin Sending
  BY <1>1, <1>2, SMT DEF PlaceInv, RefInv, Holds, Sending
<1>4. ref_count' = 1 /\ cmds' = <<>> /\ resps' = <<>> /\ held' = <<>> /\ isr' = {}
  BY <1>2, <1>3, SMT DEF FwGet
<1>5. cmds' \in Sets /\ resps' \in Sets /\ held' \in Sets /\ KnownInv'
  BY <1>3, <1>4, Closed, Zenon
<1>6. TypeInv' /\ OwnerInv'
  BY <1>1, <1>2, <1>5, Zenon DEF TypeInv, OwnerInv
<1>7. PlaceInv'
  BY <1>1, <1>2, <1>3, <1>4, SMT DEF PlaceInv, RefInv, JoinInv, ListInv, Starting, Opening
<1> QED  BY <1>5, <1>6, <1>7, Zenon DEF Inv

\* A start that fails returns all buffers: there is no firmware.
LEMMA FailSteps ==
    ASSUME Inv, SetupFails \/ UnwindReturn
    PROVE  Inv'
<1>1. TypeInv /\ PlaceInv /\ OwnerInv
  BY Zenon DEF Inv
<1>2. /\ UNCHANGED <<joined, streaming, bl, frame, ref_count, cmds, resps, isr, held>>
      /\ (pc = "setup" \/ pc = "unwind_return") /\ pc' = "idle" /\ started' = FALSE
      /\ incoming' = <<>> /\ active' = <<>> /\ DOMAIN vb' = Buffers
  BY Zenon DEF SetupFails, UnwindReturn, ReturnBuffers, Done, streamVars, callVars, linkVars
<1>3. /\ ~Holds /\ cmds = <<>> /\ resps = <<>> /\ held = <<>> /\ isr = {} /\ ~Holds'
      /\ bl = {} /\ pc' \notin Sending
  BY <1>1, <1>2, SMT DEF PlaceInv, RefInv, ListInv, Holds, Opening, Sending
<1>4. KnownInv'
  BY <1>2, <1>3, Closed, Zenon
<1>5. OwnerInv'
  <2>1. \A b \in {} : vb'[b] = "active"
    BY Zenon
  <2>2. Owned(<<>>, <<>>, {}, {}, vb')
    BY <2>1, OwnedReturned, Zenon
  <2> QED  BY <1>2, <1>3, <2>2, Zenon DEF OwnerInv
<1>6. TypeInv'
  BY <1>1, <1>2, Zenon DEF TypeInv
<1>7. PlaceInv'
  BY <1>1, <1>2, <1>3, SMT DEF PlaceInv, RefInv, JoinInv, ListInv, Starting, Opening
<1> QED  BY <1>4, <1>5, <1>6, <1>7, Zenon DEF Inv

\* ipu6_isys_fw_put by the only queue closes the firmware.
LEMMA PutKeeps ==
    ASSUME PlaceInv, Holds, FwPut, isr' = isr
    PROVE  /\ ref_count' = 0 /\ cmds' = <<>> /\ resps' = <<>> /\ held' = <<>>
           /\ isr = {} /\ isr' = {}
<1>1. ref_count = 1
  BY Zenon DEF PlaceInv, RefInv
<1> QED  BY <1>1, SMT DEF FwPut

\* So does a failed start_streaming ...
LEMMA UnwindKeeps ==
    ASSUME Inv, Unwind
    PROVE  Inv'
<1>1. TypeInv /\ PlaceInv /\ OwnerInv
  BY Zenon DEF Inv
<1>2. /\ UNCHANGED <<vb, started, incoming, active, joined, streaming, bl, frame, isr>>
      /\ pc = "unwind" /\ pc' = "unwind_return" /\ FwPut
  BY Zenon DEF Unwind, listVars, streamVars, callVars
<1>3. Holds /\ ~Holds' /\ pc' \notin Sending
  BY <1>1, <1>2, SMT DEF PlaceInv, RefInv, Holds, Sending
<1>4. ref_count' = 0 /\ cmds' = <<>> /\ resps' = <<>> /\ held' = <<>> /\ isr' = {}
  BY <1>1, <1>2, <1>3, PutKeeps, Zenon
<1>5. cmds' \in Sets /\ resps' \in Sets /\ held' \in Sets /\ KnownInv'
  BY <1>3, <1>4, Closed, Zenon
<1>6. TypeInv' /\ OwnerInv'
  BY <1>1, <1>2, <1>5, Zenon DEF TypeInv, OwnerInv
<1>7. PlaceInv'
  BY <1>1, <1>2, <1>3, <1>4, SMT DEF PlaceInv, RefInv, JoinInv, ListInv, Starting, Opening
<1> QED  BY <1>5, <1>6, <1>7, Zenon DEF Inv

\* ... and stop_streaming, which returns what is left before that and asks for a
\* reset if the firmware may still have some of it.
LEMMA StopReturnKeeps ==
    ASSUME Inv, StopReturn
    PROVE  Inv'
<1>1. /\ TypeInv /\ PlaceInv /\ OwnerInv /\ KnownInv
  BY Zenon DEF Inv
<1>2. /\ UNCHANGED <<started, joined, streaming, bl, frame, ref_count, cmds, resps, isr, held>>
      /\ pc = "stop_return" /\ pc' = "stop_put"
      /\ incoming' = <<>> /\ active' = <<>> /\ DOMAIN vb' = Buffers
      /\ need_reset' = (need_reset \/ active # <<>>)
      /\ \A b \in Buffers : b \in ToSet(incoming) \cup ToSet(active) \/ vb'[b] = vb[b]
  BY Zenon DEF StopReturn, ReturnBuffers, Done, streamVars, callVars, linkVars
<1>3. bl = {} /\ isr \subseteq Buffers
  BY <1>1, <1>2, SMT DEF PlaceInv, ListInv, Opening, TypeInv
<1>4. OwnerInv'
  <2>1. \A b \in isr : vb'[b] = "active"
    BY <1>1, <1>2, <1>3, SMT DEF OwnerInv, Owned, Parts
  <2>2. Owned(<<>>, <<>>, {}, isr, vb')
    BY <2>1, OwnedReturned, Zenon
  <2> QED  BY <1>2, <1>3, <2>2, Zenon DEF OwnerInv
<1>5. TypeInv'
  BY <1>1, <1>2, Zenon DEF TypeInv
<1>6. PlaceInv'
  BY <1>1, <1>2, SMT DEF PlaceInv, RefInv, JoinInv, ListInv, Holds, Starting, Opening
<1>7. Given' = Given /\ Ready' = Ready
  BY <1>2, Zenon DEF Given, Ready
<1>8. ASSUME ~need_reset' PROVE Tracked'
  <2>1. Tracked /\ active = <<>>
    BY <1>1, <1>2, <1>8, Zenon DEF KnownInv
  <2>2. /\ Flight(cmds, held, resps) /\ Pins(resps, isr)
        /\ Within("stop_return", frame, Given, Ready, {}, isr, vb)
    BY <1>2, <2>1, EmptyList, Zenon DEF Tracked
  <2>3. Within("stop_put", frame, Given, Ready, {}, isr, vb')
    BY <2>2, SMT DEF Within, Sending
  <2> QED  BY <1>2, <1>7, <2>2, <2>3, EmptyList, Zenon DEF Tracked
<1> QED  BY <1>4, <1>5, <1>6, <1>8, Zenon DEF Inv, KnownInv

\* videobuf2 then has all buffers.
LEMMA StopPutKeeps ==
    ASSUME Inv, StopPut
    PROVE  Inv'
<1>1. TypeInv /\ PlaceInv /\ OwnerInv
  BY Zenon DEF Inv
<1>2. /\ UNCHANGED <<incoming, active, joined, streaming, bl, frame, isr>>
      /\ pc = "stop_put" /\ pc' = "idle" /\ FwPut /\ started' = FALSE /\ DOMAIN vb' = Buffers
  BY Zenon DEF StopPut, listVars, streamVars, callVars
<1>3. /\ Holds /\ ~Holds' /\ pc' \notin Sending
      /\ incoming = <<>> /\ active = <<>> /\ bl = {}
  BY <1>1, <1>2, SMT DEF PlaceInv, RefInv, ListInv, Holds, Sending, Opening
<1>4. ref_count' = 0 /\ cmds' = <<>> /\ resps' = <<>> /\ held' = <<>> /\ isr' = {}
  BY <1>1, <1>2, <1>3, PutKeeps, Zenon
<1>5. cmds' \in Sets /\ resps' \in Sets /\ held' \in Sets /\ KnownInv'
  BY <1>3, <1>4, Closed, Zenon
<1>6. TypeInv'
  BY <1>1, <1>2, <1>5, Zenon DEF TypeInv
<1>7. OwnerInv'
  <2>1. \A b \in {} : vb'[b] = "active"
    BY Zenon
  <2>2. Owned(<<>>, <<>>, {}, {}, vb')
    BY <2>1, OwnedReturned, Zenon
  <2> QED  BY <1>2, <1>3, <1>4, <2>2, Zenon DEF OwnerInv
<1>8. PlaceInv'
  BY <1>1, <1>2, <1>3, <1>4, SMT DEF PlaceInv, RefInv, JoinInv, ListInv, Starting, Opening
<1> QED  BY <1>5, <1>6, <1>7, <1>8, Zenon DEF Inv

-----------------------------------------------------------------------------
(* The user's steps.                                                       *)

\* Queueing a buffer early, and dequeueing one.
LEMMA UserSteps ==
    ASSUME Inv, NEW b \in Buffers, QBufEarly(b) \/ DQBuf(b)
    PROVE  Inv'
<1>1. /\ TypeInv /\ PlaceInv /\ OwnerInv /\ KnownInv
  BY Zenon DEF Inv
<1>2. UNCHANGED <<pc, started, incoming, active, joined, streaming, bl, frame, ref_count,
                  need_reset, cmds, resps, isr, held>>
  BY Zenon DEF QBufEarly, DQBuf, listVars, streamVars, callVars, isysVars, linkVars
<1>3. /\ DOMAIN vb' = Buffers /\ vb[b] # "active"
      /\ \A x \in Buffers : x # b => vb'[x] = vb[x]
      /\ vb'[b] = "queued" \/ vb[b] \notin {"active", "queued"}
  <2>1. \E s : vb' = [vb EXCEPT ![b] = s] /\ (s = "queued" \/ vb[b] \in {"done", "error"})
    BY Zenon DEF QBufEarly, DQBuf
  <2>2. vb[b] \in {"dequeued", "done", "error"}
    BY SMT DEF QBufEarly, DQBuf
  <2> QED  BY <1>1, <2>1, <2>2, SMT DEF TypeInv
<1>4. TypeInv' /\ PlaceInv' /\ Given' = Given /\ Ready' = Ready
  BY <1>1, <1>2, <1>3, Zenon
     DEF TypeInv, PlaceInv, RefInv, JoinInv, ListInv, Holds, Given, Ready
<1>5. OwnerInv'
  <2>1. Owned(incoming, active, bl, isr, vb) /\ bl \in SUBSET Buffers /\ isr \in SUBSET Buffers
    BY <1>1, Zenon DEF OwnerInv, TypeInv
  <2>2. \A x \in Buffers : vb[x] = "active" => vb'[x] = "active"
    BY <1>3, Zenon
  <2>3. Owned(incoming, active, bl, isr, vb')
    BY <2>1, <2>2, OwnedState, Zenon
  <2> QED  BY <1>2, <2>3, Zenon DEF OwnerInv
<1>6. ASSUME Tracked PROVE Tracked'
  <2>1. /\ Flight(cmds, held, resps) /\ Pins(resps, isr)
        /\ Within(pc, frame, Given, Ready, ToSet(active), isr, vb)
    BY <1>6, Zenon DEF Tracked
  <2>2. Given \subseteq Buffers
    BY <1>1, GivenBuffers, Zenon
  <2>3. Within(pc, frame, Given, Ready, ToSet(active), isr, vb')
    BY <1>3, <2>1, <2>2, SMT DEF Within
  <2> QED  BY <1>2, <1>4, <2>1, <2>3, Zenon DEF Tracked
<1> QED  BY <1>1, <1>2, <1>4, <1>5, <1>6, Zenon DEF Inv, KnownInv

\* Queueing one while streaming.
LEMMA QBufKeeps ==
    ASSUME Inv, Listing, NEW b \in Buffers, QBuf(b)
    PROVE  Inv'
<1>1. /\ TypeInv /\ PlaceInv /\ OwnerInv /\ KnownInv
  BY Zenon DEF Inv
<1>2. /\ UNCHANGED <<started, active, joined, streaming, bl, frame, ref_count, need_reset,
                     cmds, resps, isr, held>>
      /\ pc = "idle" /\ pc' = "buf_queue" /\ started
      /\ incoming' = SetToSeq({b}) \o incoming /\ vb[b] = "dequeued"
      /\ DOMAIN vb' = Buffers /\ vb'[b] = "active" /\ \A x \in Buffers : x # b => vb'[x] = vb[x]
  BY <1>1, Zenon DEF QBuf, TypeInv, streamVars, callVars, isysVars, linkVars
<1>3. TypeInv'
  BY <1>1, <1>2, Zenon DEF TypeInv
<1>4. PlaceInv'
  BY <1>1, <1>2, SMT DEF PlaceInv, RefInv, JoinInv, ListInv, Holds, Starting, Opening
<1>5. OwnerInv'
  <2>1. Owned(incoming, active, bl, isr, vb) /\ bl \in SUBSET Buffers /\ isr \in SUBSET Buffers
    BY <1>1, Zenon DEF OwnerInv, TypeInv
  <2>2. List(SetToSeq({b})) /\ ToSet(SetToSeq({b})) = {b}
    <3>1. {b} \in SUBSET Buffers
      BY Zenon
    <3> QED  BY <3>1, Zenon DEF Listing
  <2>3. /\ \A x \in {b} : vb[x] # "active" /\ vb'[x] = "active"
        /\ \A x \in Buffers : x \in {b} \/ vb'[x] = vb[x]
    BY <1>2, SMT
  <2>4. Owned(SetToSeq({b}) \o incoming, active, bl, isr, vb')
    BY <2>1, <2>2, <2>3, OwnedGiven, Zenon
  <2> QED  BY <1>2, <2>4, Zenon DEF OwnerInv
<1>6. Given' = Given /\ Ready' = Ready
  BY <1>2, Zenon DEF Given, Ready
<1>7. ASSUME Tracked PROVE Tracked'
  <2>1. /\ Flight(cmds, held, resps) /\ Pins(resps, isr)
        /\ Within(pc, frame, Given, Ready, ToSet(active), isr, vb)
    BY <1>7, Zenon DEF Tracked
  <2>2. Given \subseteq Buffers
    BY <1>1, GivenBuffers, Zenon
  <2>3. Within(pc', frame, Given, Ready, ToSet(active), isr, vb')
    BY <1>2, <2>1, <2>2, SMT DEF Within, Sending
  <2> QED  BY <1>2, <1>6, <2>1, <2>3, Zenon DEF Tracked
<1> QED  BY <1>1, <1>2, <1>3, <1>4, <1>5, <1>7, Zenon DEF Inv, KnownInv

\* STREAMOFF before STREAMON.
LEMMA StreamOffEarlyKeeps ==
    ASSUME Inv, StreamOffEarly
    PROVE  Inv'
<1>1. TypeInv /\ PlaceInv
  BY Zenon DEF Inv
<1>2. /\ UNCHANGED <<pc, started, incoming, active, joined, streaming, bl, frame, ref_count,
                     cmds, resps, isr, held>>
      /\ pc = "idle" /\ ~started /\ DOMAIN vb' = Buffers
  BY Zenon DEF StreamOffEarly, listVars, streamVars, callVars, isysVars, linkVars
<1>3. /\ cmds = <<>> /\ resps = <<>> /\ held = <<>> /\ isr = {} /\ bl = {}
      /\ incoming = <<>> /\ active = <<>> /\ pc \notin Sending
  BY <1>1, <1>2, SMT DEF PlaceInv, RefInv, ListInv, Holds, Opening, Sending
<1>4. TypeInv' /\ PlaceInv'
  BY <1>1, <1>2, Zenon DEF TypeInv, PlaceInv, RefInv, JoinInv, ListInv, Holds
<1>5. KnownInv'
  BY <1>2, <1>3, Closed, Zenon
<1>6. OwnerInv'
  <2>1. \A b \in {} : vb'[b] = "active"
    BY Zenon
  <2>2. Owned(<<>>, <<>>, {}, {}, vb')
    BY <2>1, OwnedReturned, Zenon
  <2> QED  BY <1>2, <1>3, <2>2, Zenon DEF OwnerInv
<1> QED  BY <1>4, <1>5, <1>6, Zenon DEF Inv

\* STREAMON gives the driver all that is queued.
LEMMA StreamOnKeeps ==
    ASSUME Inv, Listing, StreamOn
    PROVE  Inv'
<1>1. TypeInv /\ PlaceInv /\ OwnerInv
  BY Zenon DEF Inv
<1> DEFINE given == {b \in Buffers : vb[b] = "queued"}
<1>2. /\ UNCHANGED <<active, joined, streaming, bl, frame, ref_count, cmds, resps, isr, held>>
      /\ pc = "idle" /\ ~started /\ pc' = "setup" /\ started' = TRUE
      /\ DOMAIN vb' = Buffers /\ given # {}
      /\ \A b \in Buffers : vb'[b] = IF b \in given THEN "active" ELSE vb[b]
  BY Zenon DEF StreamOn, streamVars, callVars, isysVars, linkVars
<1>3. PICK s \in SetToSeqs(given) : incoming' = Reverse(s) \o incoming
  BY Zenon DEF StreamOn
<1>4. /\ cmds = <<>> /\ resps = <<>> /\ held = <<>> /\ isr = {} /\ bl = {} /\ ~Holds
      /\ pc' \notin Sending /\ ~Holds'
  BY <1>1, <1>2, SMT DEF PlaceInv, RefInv, ListInv, Holds, Opening, Sending
<1>5. List(Reverse(s)) /\ ToSet(Reverse(s)) = given /\ given \subseteq Buffers
  <2>1. given \in SUBSET Buffers
    BY Zenon
  <2>2. List(s) /\ ToSet(s) = given
    BY <2>1, Zenon DEF Listing
  <2> QED  BY <2>1, <2>2, Reversed, Zenon
<1>6. Owned(incoming, active, bl, isr, vb) /\ bl \in SUBSET Buffers /\ isr \in SUBSET Buffers
  BY <1>1, Zenon DEF OwnerInv, TypeInv
<1>7. /\ \A b \in given : vb[b] # "active" /\ vb'[b] = "active"
      /\ \A b \in Buffers : b \in given \/ vb'[b] = vb[b]
  BY <1>2, <1>5, SMT
<1> HIDE DEF given
<1>8. Owned(Reverse(s) \o incoming, active, bl, isr, vb')
  BY <1>5, <1>6, <1>7, OwnedGiven, Zenon
<1>9. OwnerInv'
  BY <1>2, <1>3, <1>8, Zenon DEF OwnerInv
<1>10. incoming' # <<>>
  <2>1. List(incoming) /\ List(Reverse(s)) /\ Reverse(s) # <<>>
    BY <1>2, <1>5, <1>6, EmptyList, Zenon DEF Owned
  <2> QED  BY <1>3, <2>1, SMT DEF List
<1>11. TypeInv'
  BY <1>1, <1>2, Zenon DEF TypeInv
<1>12. PlaceInv'
  BY <1>1, <1>2, <1>4, <1>10, SMT DEF PlaceInv, RefInv, JoinInv, ListInv, Starting, Opening
<1>13. KnownInv'
  BY <1>2, <1>4, Closed, Zenon
<1> QED  BY <1>9, <1>11, <1>12, <1>13, Zenon DEF Inv

-----------------------------------------------------------------------------
(* The interrupt handler.                                                  *)

\* A response is taken off the ring.
LEMMA Popped ==
    ASSUME TypeInv, resps # <<>>, resps' = Tail(resps), cmds' = cmds, held' = held
    PROVE  /\ resps' \in Sets /\ Given' = Given /\ Ready' \subseteq Ready
           /\ Head(resps) = resps[1] /\ 1 \in DOMAIN resps
           /\ resps[1] \in SUBSET Buffers /\ resps[1] \subseteq Ready
           /\ Flight(cmds, held, resps) =>
                Flight(cmds, held, resps)' /\ Ready' = Ready \ resps[1]
           /\ \A t : Pins(resps, t) => Pins(resps', {})
<1>1. cmds \in Sets /\ resps \in Sets /\ held \in Sets
  BY Zenon DEF TypeInv
<1>2. /\ Head(resps) = resps[1] /\ 1 \in DOMAIN resps
      /\ \A i \in DOMAIN resps' : i + 1 \in DOMAIN resps /\ resps'[i] = resps[i + 1]
  BY <1>1 DEF Sets
<1> DEFINE S == Us(cmds)
           H == Us(held)
           R == Us(resps)
           X == resps[1]
<1>3. /\ resps' \in Sets /\ X \in SUBSET Buffers /\ X \subseteq R /\ Us(resps') \subseteq R
      /\ Apart(resps) => Apart(resps') /\ Us(resps') = R \ X
  BY <1>1, SetTaken, Zenon
<1>4. Given' = Given /\ Ready' = Us(resps') /\ Ready = R
  BY Zenon DEF Given, Ready
<1>5. ASSUME Flight(cmds, held, resps)
      PROVE  Flight(cmds, held, resps)' /\ Ready' = R \ X
  <2>1. /\ Apart(cmds) /\ Apart(held) /\ Apart(resps)
        /\ S \cap H = {} /\ S \cap R = {} /\ H \cap R = {}
    BY <1>5, Zenon DEF Flight
  <2>2. Apart(resps') /\ Us(resps') = R \ X
    BY <1>3, <2>1, Zenon
  <2> HIDE DEF S, H, R, X
  <2>3. S \cap (R \ X) = {} /\ H \cap (R \ X) = {}
    BY <2>1, Zenon
  <2> QED  BY <1>4, <2>1, <2>2, <2>3, Zenon DEF Flight, S, H, R, X
<1>6. ASSUME NEW t, Pins(resps, t) PROVE Pins(resps', {})
  <2>1. ASSUME NEW i \in DOMAIN resps', resps'[i] # {} PROVE \E b : resps'[i] = {b}
    <3>1. i + 1 \in DOMAIN resps /\ resps'[i] = resps[i + 1]
      BY <1>2, <2>1, Zenon
    <3>2. \A k \in DOMAIN resps : resps[k] # {} => \E b : resps[k] = {b}
      BY <1>6, Zenon DEF Pins
    <3> QED  BY <2>1, <3>1, <3>2, Zenon
  <2> QED  BY <2>1, Zenon DEF Pins
<1> QED  BY <1>2, <1>3, <1>4, <1>5, <1>6, Zenon

\* Dropping a response leaves the buffers alone.
LEMMA IsrDropKeeps ==
    ASSUME Inv, IsrDrop
    PROVE  Inv'
<1>1. TypeInv /\ PlaceInv /\ OwnerInv /\ KnownInv
  BY Zenon DEF Inv
<1>2. /\ resps # <<>> /\ isr = {} /\ resps' = Tail(resps)
      /\ UNCHANGED <<vb, pc, started, incoming, active, joined, streaming, bl, frame,
                     ref_count, need_reset, cmds, isr, held>>
  BY Zenon DEF IsrDrop, listVars, streamVars, callVars, isysVars
<1>3. /\ resps' \in Sets /\ Given' = Given /\ Ready' \subseteq Ready
      /\ Flight(cmds, held, resps) => Flight(cmds, held, resps)'
      /\ \A t : Pins(resps, t) => Pins(resps', {})
  BY <1>1, <1>2, Popped, Zenon
<1>4. TypeInv' /\ OwnerInv'
  BY <1>1, <1>2, <1>3, Zenon DEF TypeInv, OwnerInv
<1>5. PlaceInv'
  <2>1. Holds /\ Holds'
    BY <1>1, <1>2, Zenon DEF PlaceInv, RefInv, Holds
  <2> QED  BY <1>1, <1>2, <2>1, Zenon DEF PlaceInv, RefInv, JoinInv, ListInv
<1>6. ASSUME Tracked PROVE Tracked'
  <2>1. /\ Flight(cmds, held, resps) /\ Pins(resps, isr)
        /\ Within(pc, frame, Given, Ready, ToSet(active), isr, vb)
    BY <1>6, Zenon DEF Tracked
  <2>2. Within(pc, frame, Given, Ready', ToSet(active), isr, vb)
    BY <1>3, <2>1, SMT DEF Within
  <2> QED  BY <1>2, <1>3, <2>1, <2>2, Zenon DEF Tracked
<1> QED  BY <1>1, <1>2, <1>4, <1>5, <1>6, Zenon DEF Inv, KnownInv

\* A buffer leaves the active list.
LEMMA ActiveTaken ==
    ASSUME OwnerInv, isr = {}, NEW i \in DOMAIN active
    PROVE  /\ Owned(incoming, RemoveAt(active, i), bl, {active[i]}, vb)
           /\ ToSet(RemoveAt(active, i)) = ToSet(active) \ {active[i]}
<1>1. Owned(incoming, active, bl, {}, vb)
  BY Zenon DEF OwnerInv
<1> QED  BY <1>1, OwnedTaken, Zenon

\* The buffer of a response is taken off the active list.
LEMMA IsrPinReadyKeeps ==
    ASSUME Inv, IsrPinReady
    PROVE  Inv'
<1>1. TypeInv /\ PlaceInv /\ OwnerInv /\ KnownInv
  BY Zenon DEF Inv
<1>2. /\ UNCHANGED <<vb, pc, started, incoming, joined, streaming, bl, frame, ref_count,
                     need_reset, cmds, resps, held>>
      /\ resps # <<>> /\ isr = {}
  BY Zenon DEF IsrPinReady, streamVars, callVars, isysVars
<1>3. PICK i \in DOMAIN active :
         active[i] \in Head(resps) /\ active' = RemoveAt(active, i) /\ isr' = {active[i]}
  BY Zenon DEF IsrPinReady
<1> DEFINE b == active[i]
<1>4. b \in resps[1] /\ b \in Buffers /\ b \in Ready /\ 1 \in DOMAIN resps
  <2>1. resps \in Sets /\ resps # <<>>
    BY <1>1, <1>2, Zenon DEF TypeInv
  <2>2. 1 \in DOMAIN resps /\ Head(resps) = resps[1]
    BY <2>1 DEF Sets
  <2>3. resps[1] \in SUBSET Buffers /\ resps[1] \subseteq Us(resps)
    BY <2>1, SetTaken, Zenon
  <2> QED  BY <1>3, <2>2, <2>3, Zenon DEF Ready
<1>5. Owned(incoming, active', bl, isr', vb) /\ ToSet(active') = ToSet(active) \ {b}
  BY <1>1, <1>2, <1>3, ActiveTaken, Zenon
<1>6. OwnerInv' /\ TypeInv'
  BY <1>1, <1>2, <1>3, <1>4, <1>5, Zenon DEF OwnerInv, TypeInv
<1>7. PlaceInv'
  <2>1. Holds /\ Holds' /\ started
    BY <1>1, <1>2, Zenon DEF PlaceInv, RefInv, Holds
  <2>2. active # <<>>
    BY <1>3, Members, EmptyList, Zenon
  <2> QED  BY <1>1, <1>2, <2>1, <2>2, Zenon DEF PlaceInv, RefInv, JoinInv, ListInv
<1>8. Given' = Given /\ Ready' = Ready
  BY <1>2, Zenon DEF Given, Ready
<1>9. ASSUME Tracked PROVE Tracked'
  <2>1. /\ Flight(cmds, held, resps) /\ Pins(resps, isr)
        /\ Within(pc, frame, Given, Ready, ToSet(active), isr, vb)
    BY <1>9, Zenon DEF Tracked
  <2>2. Given \cap Ready = {}
    BY <2>1, SMT DEF Flight, Given, Ready
  <2>3. resps[1] = {b}
    <3>1. PICK x : resps[1] = {x}
      BY <1>4, <2>1, Zenon DEF Pins
    <3> QED  BY <1>4, <3>1, Zenon
  <2>4. Pins(resps, {b})
    BY <1>2, <2>1, <2>3, Zenon DEF Pins
  <2>5. Within(pc, frame, Given, Ready, ToSet(active) \ {b}, {b}, vb)
    BY <1>2, <1>4, <2>1, <2>2, SMT DEF Within
  <2> QED  BY <1>2, <1>3, <1>5, <1>8, <2>1, <2>4, <2>5, Zenon DEF Tracked
<1> QED  BY <1>1, <1>2, <1>6, <1>7, <1>9, Zenon DEF Inv, KnownInv

\* It is then completed.
LEMMA IsrBufDoneKeeps ==
    ASSUME Inv, IsrBufDone
    PROVE  Inv'
<1>1. TypeInv /\ PlaceInv /\ OwnerInv /\ KnownInv
  BY Zenon DEF Inv
<1>2. /\ UNCHANGED <<pc, started, incoming, active, joined, streaming, bl, frame,
                     ref_count, need_reset, cmds, held>>
      /\ isr # {} /\ isr' = {} /\ resps' = Tail(resps) /\ DOMAIN vb' = Buffers
      /\ \A b \in Buffers : b \in isr \/ vb'[b] = vb[b]
  BY Zenon DEF IsrBufDone, Done, listVars, streamVars, callVars, isysVars
<1>3. resps # <<>> /\ Holds /\ Holds'
  BY <1>1, <1>2, Zenon DEF PlaceInv, RefInv, Holds
<1>4. /\ resps' \in Sets /\ Given' = Given /\ resps[1] \subseteq Ready
      /\ Flight(cmds, held, resps) => Flight(cmds, held, resps)' /\ Ready' = Ready \ resps[1]
      /\ \A t : Pins(resps, t) => Pins(resps', {})
  BY <1>1, <1>2, <1>3, Popped, Zenon
<1>5. OwnerInv'
  <2>1. Owned(incoming, active, bl, isr, vb) /\ bl \in SUBSET Buffers
    BY <1>1, Zenon DEF OwnerInv, TypeInv
  <2>2. \A b \in Buffers : b \in isr \/ vb'[b] = vb[b]
    BY <1>2, Zenon
  <2>3. Owned(incoming, active, bl, {}, vb')
    BY <2>1, <2>2, OwnedDone, Zenon
  <2> QED  BY <1>2, <2>3, Zenon DEF OwnerInv
<1>6. TypeInv' /\ PlaceInv'
  BY <1>1, <1>2, <1>3, <1>4, Zenon DEF TypeInv, PlaceInv, RefInv, JoinInv, ListInv
<1>7. ASSUME Tracked PROVE Tracked'
  <2>1. /\ Flight(cmds, held, resps) /\ Pins(resps, isr)
        /\ Within(pc, frame, Given, Ready, ToSet(active), isr, vb)
    BY <1>7, Zenon DEF Tracked
  <2>2. resps[1] = isr /\ Ready' = Ready \ isr /\ isr \subseteq Ready
    BY <1>2, <1>4, <2>1, Zenon DEF Pins
  <2>3. Given \cap Ready = {} /\ Given \subseteq Buffers
    BY <1>1, <2>1, GivenBuffers, SMT DEF Flight, Given, Ready
  <2>4. Within(pc, frame, Given, Ready', ToSet(active), {}, vb')
    BY <1>2, <2>1, <2>2, <2>3, SMT DEF Within
  <2>5. Pins(resps', {}) /\ Flight(cmds, held, resps)'
    BY <1>4, <2>1, Zenon
  <2> QED  BY <1>2, <1>4, <2>4, <2>5, Zenon DEF Tracked
<1> QED  BY <1>1, <1>2, <1>5, <1>6, <1>7, Zenon DEF Inv, KnownInv

-----------------------------------------------------------------------------
(* The firmware.                                                           *)

\* What the firmware does leaves the driver alone.
FwOnly ==
    UNCHANGED <<vb, pc, started, incoming, active, joined, streaming, bl, frame,
                ref_count, need_reset, isr>>

\* A step of the firmware that only moves buffers along.
LEMMA FwKeeps ==
    ASSUME Inv, FwOnly, cmds' \in Sets, resps' \in Sets, held' \in Sets,
           cmds # <<>> \/ held # <<>>, resps # <<>> => resps' # <<>>,
           Given' \cup Ready' \subseteq Given \cup Ready, Given' \subseteq Given,
           Flight(cmds, held, resps) => Flight(cmds, held, resps)',
           Pins(resps, isr) => Pins(resps', isr)
    PROVE  Inv'
<1>1. TypeInv /\ PlaceInv /\ OwnerInv /\ KnownInv
  BY Zenon DEF Inv
<1>2. UNCHANGED <<vb, pc, started, incoming, active, joined, streaming, bl, frame,
                  ref_count, need_reset, isr>>
  BY Zenon DEF FwOnly
<1>3. TypeInv' /\ OwnerInv'
  BY <1>1, <1>2, Zenon DEF TypeInv, OwnerInv
<1>4. PlaceInv'
  <2>1. Holds /\ Holds'
    BY <1>1, <1>2, Zenon DEF PlaceInv, RefInv, Holds
  <2> QED  BY <1>1, <1>2, <2>1, Zenon DEF PlaceInv, RefInv, JoinInv, ListInv
<1>5. ASSUME Tracked PROVE Tracked'
  <2>1. /\ Flight(cmds, held, resps) /\ Pins(resps, isr)
        /\ Within(pc, frame, Given, Ready, ToSet(active), isr, vb)
    BY <1>5, Zenon DEF Tracked
  <2>2. Within(pc, frame, Given', Ready', ToSet(active), isr, vb)
    BY <2>1, SMT DEF Within
  <2>3. Flight(cmds, held, resps)' /\ Pins(resps', isr)
    BY <2>1, Zenon
  <2> QED  BY <1>2, <2>2, <2>3, Zenon DEF Tracked
<1> QED  BY <1>1, <1>2, <1>3, <1>4, <1>5, Zenon DEF Inv, KnownInv

\* Responses are added.
LEMMA PinsJoined ==
    ASSUME NEW s \in Sets, NEW t \in Sets, NEW j, Pins(s, j), Pins(t, {})
    PROVE  Pins(s \o t, j)
<1>1. ASSUME NEW i \in DOMAIN (s \o t)
      PROVE  \/ i \in DOMAIN s /\ (s \o t)[i] = s[i]
             \/ i - Len(s) \in DOMAIN t /\ (s \o t)[i] = t[i - Len(s)]
  BY DEF Sets
<1>2. s # <<>> => s \o t # <<>> /\ (s \o t)[1] = s[1]
  BY DEF Sets
<1>3. ASSUME NEW i \in DOMAIN (s \o t), (s \o t)[i] # {}
      PROVE  \E b : (s \o t)[i] = {b}
  <2>1. CASE i \in DOMAIN s /\ (s \o t)[i] = s[i]
    <3>1. s[i] # {} => \E b : s[i] = {b}
      BY <2>1, Zenon DEF Pins
    <3> QED  BY <1>3, <2>1, <3>1, Zenon
  <2>2. CASE i - Len(s) \in DOMAIN t /\ (s \o t)[i] = t[i - Len(s)]
    <3>1. t[i - Len(s)] # {} => \E b : t[i - Len(s)] = {b}
      BY <2>2, Zenon DEF Pins
    <3> QED  BY <1>3, <2>2, <3>1, Zenon
  <2> QED  BY <1>1, <1>3, <2>1, <2>2, Zenon
<1>4. j # {} => s # <<>> /\ s[1] = j
  BY Zenon DEF Pins
<1> QED  BY <1>2, <1>3, <1>4, Zenon DEF Pins

\* A command is answered; its buffers are kept, or it drops them all.
LEMMA FwCommandKeeps ==
    ASSUME Inv, FwCommand
    PROVE  Inv'
<1>1. cmds \in Sets /\ resps \in Sets /\ held \in Sets
  BY Zenon DEF Inv, TypeInv
<1>2. /\ FwOnly /\ cmds # <<>> /\ cmds' = Tail(cmds) /\ resps' = Append(resps, {})
      /\ held' \in {<<>>, held, Append(held, Head(cmds))}
  BY Zenon DEF FwCommand, FwOnly, listVars, streamVars, callVars, isysVars
<1> DEFINE X == cmds[1]
           S == Us(cmds)
           H == Us(held)
           R == Us(resps)
<1>3. Head(cmds) = X /\ resps' # <<>> /\ resps' = resps \o <<{}>> /\ <<{}>> \in Sets
  <2>1. cmds \in Seq(SUBSET Buffers) /\ resps \in Seq(SUBSET Buffers) /\ {} \in SUBSET Buffers
    BY <1>1, Zenon DEF Sets
  <2>2. Head(cmds) = X
    BY <1>2, <2>1
  <2>3. resps' # <<>> /\ resps' = resps \o <<{}>>
    <3>1. \A y \in SUBSET Buffers : Append(resps, y) # <<>> /\ Append(resps, y) = resps \o <<y>>
      BY <2>1
    <3> QED  BY <1>2, <2>1, <3>1, Zenon
  <2>4. <<{}>> \in Sets
    BY <2>1 DEF Sets
  <2> QED  BY <2>2, <2>3, <2>4, Zenon
<1>4. /\ cmds' \in Sets /\ X \in SUBSET Buffers /\ X \subseteq S
      /\ Us(cmds') \subseteq S
      /\ Apart(cmds) => Apart(cmds') /\ Us(cmds') = S \ X
  BY <1>1, <1>2, SetTaken, Zenon
<1>5. /\ resps' \in Sets /\ Us(resps') = R /\ (Apart(resps) => Apart(resps'))
  <2>1. {} \in SUBSET Buffers /\ R \cap {} = {} /\ R \cup {} = R
    BY Zenon
  <2>2. /\ Append(resps, {}) \in Sets /\ Us(Append(resps, {})) = R \cup {}
        /\ Apart(resps) /\ R \cap {} = {} => Apart(Append(resps, {}))
    BY <1>1, <2>1, SetAppended, Zenon
  <2> QED  BY <1>2, <2>1, <2>2, Zenon
<1>6. /\ held' \in Sets /\ Us(held') \subseteq H \cup X
      /\ Apart(held) /\ H \cap X = {} => Apart(held')
  <2>1. CASE held' = <<>>
    BY <2>1, NoSets, Zenon
  <2>2. CASE held' = Append(held, X)
    BY <1>1, <1>4, <2>2, SetAppended, Zenon
  <2> QED  BY <1>1, <1>2, <1>3, <2>1, <2>2, Zenon
<1>7. Given = S \cup H /\ Given' = Us(cmds') \cup Us(held') /\ Ready = R /\ Ready' = R
  BY <1>5, Zenon DEF Given, Ready
<1>8. ASSUME Flight(cmds, held, resps)
      PROVE  Flight(cmds, held, resps)'
  <2>1. /\ Apart(cmds) /\ Apart(held) /\ Apart(resps)
        /\ S \cap H = {} /\ S \cap R = {} /\ H \cap R = {}
    BY <1>8, Zenon DEF Flight
  <2> DEFINE H2 == Us(held')
  <2>2. H2 \subseteq H \cup X /\ X \subseteq S
    BY <1>4, <1>6, Zenon
  <2> HIDE DEF S, H, R, X, H2
  <2>3. H \cap X = {} /\ (S \ X) \cap H2 = {} /\ (S \ X) \cap R = {} /\ H2 \cap R = {}
    BY <2>1, <2>2, SMT
  <2>4. Apart(cmds') /\ Us(cmds') = S \ X /\ Apart(resps') /\ Us(resps') = R
    BY <1>4, <1>5, <2>1, Zenon DEF S, R
  <2>5. Apart(held')
    BY <1>6, <2>1, <2>3, Zenon
  <2> QED  BY <2>3, <2>4, <2>5, Zenon DEF Flight, H2
<1>9. Given' \subseteq Given /\ Given' \cup Ready' \subseteq Given \cup Ready
  <2>1. X \subseteq S /\ Us(cmds') \subseteq S /\ Us(held') \subseteq H \cup X
    BY <1>4, <1>6, Zenon
  <2> HIDE DEF S, H, R, X
  <2> QED  BY <1>7, <2>1, SMT
<1>10. ASSUME Pins(resps, isr) PROVE Pins(resps', isr)
  <2>1. Pins(<<{}>>, {})
    BY DEF Pins
  <2> QED  BY <1>1, <1>3, <1>10, <2>1, PinsJoined, Zenon
<1> QED  BY <1>2, <1>3, <1>4, <1>5, <1>6, <1>8, <1>9, <1>10, FwKeeps, Zenon

\* The responses that announce a list of buffers.
LEMMA Announced ==
    ASSUME NEW s, List(s), NEW t, t = [i \in DOMAIN s |-> {s[i]}]
    PROVE  t \in Sets /\ Us(t) = ToSet(s) /\ Apart(t) /\ Pins(t, {})
<1>1. s \in Seq(Buffers) /\ Len(s) \in Nat /\ DOMAIN s = 1..Len(s) /\ NoRepeat(s)
  BY DEF List
<1>2. DOMAIN t = DOMAIN s /\ \A i \in DOMAIN s : t[i] = {s[i]}
  BY Zenon
<1>3. t \in Sets
  BY <1>1 DEF Sets
<1>4. ASSUME NEW x PROVE x \in Us(t) <=> x \in ToSet(s)
  <2>1. x \in Us(t) <=> \E i \in DOMAIN t : x \in t[i]
    BY InUs, Zenon
  <2>2. x \in ToSet(s) <=> \E i \in DOMAIN s : s[i] = x
    BY Members, Zenon
  <2>3. \A i \in DOMAIN s : x \in t[i] <=> s[i] = x
    BY <1>2, SMT
  <2> QED  BY <1>2, <2>1, <2>2, <2>3, Zenon
<1>5. Apart(t)
  BY <1>1, <1>2, SMT DEF Apart, NoRepeat
<1>6. Pins(t, {})
  BY <1>2, Zenon DEF Pins
<1> QED  BY <1>3, <1>4, <1>5, <1>6, Zenon

\* A frame is delivered: a response for each of its buffers.
LEMMA FwFrameKeeps ==
    ASSUME Inv, Listing, FwFrame
    PROVE  Inv'
<1>1. cmds \in Sets /\ resps \in Sets /\ held \in Sets
  BY Zenon DEF Inv, TypeInv
<1> DEFINE Y == held[1]
           S == Us(cmds)
           H == Us(held)
           R == Us(resps)
           s == SetToSeq(Y)
           t == [i \in DOMAIN s |-> {s[i]}]
<1>2. Head(held) = Y
  BY <1>1 DEF Sets, FwFrame
<1>3. FwOnly /\ cmds' = cmds /\ held # <<>> /\ held' = Tail(held) /\ resps' = resps \o t
  BY <1>2, Zenon DEF FwFrame, FwOnly, listVars, streamVars, callVars, isysVars
<1>4. /\ held' \in Sets /\ Y \in SUBSET Buffers /\ Y \subseteq H /\ Us(held') \subseteq H
      /\ Apart(held) => Apart(held') /\ Us(held') = H \ Y
  BY <1>1, <1>3, SetTaken, Zenon
<1>5. List(s) /\ ToSet(s) = Y
  BY <1>4, Zenon DEF Listing
<1> HIDE DEF s
<1>6. t \in Sets /\ Us(t) = Y /\ Apart(t) /\ Pins(t, {})
  BY <1>5, Announced, Zenon
<1> HIDE DEF t
<1>7. /\ resps' \in Sets /\ Us(resps') = R \cup Y
      /\ Apart(resps) /\ R \cap Y = {} => Apart(resps')
  BY <1>1, <1>3, <1>6, SetsJoined, Zenon
<1>8. resps # <<>> => resps' # <<>>
  BY <1>1, <1>3, <1>6 DEF Sets
<1>9. /\ Given = S \cup H /\ Given' = S \cup Us(held')
      /\ Ready = R /\ Ready' = R \cup Y
  BY <1>3, <1>7, Zenon DEF Given, Ready
<1>10. ASSUME Flight(cmds, held, resps)
       PROVE  Flight(cmds, held, resps)'
  <2>1. /\ Apart(cmds) /\ Apart(held) /\ Apart(resps)
        /\ S \cap H = {} /\ S \cap R = {} /\ H \cap R = {}
    BY <1>10, Zenon DEF Flight
  <2>2. Apart(held') /\ Us(held') = H \ Y /\ Y \subseteq H
    BY <1>4, <2>1, Zenon
  <2> HIDE DEF S, H, R, Y
  <2>3. /\ R \cap Y = {} /\ S \cap (H \ Y) = {} /\ S \cap (R \cup Y) = {}
        /\ (H \ Y) \cap (R \cup Y) = {}
    BY <2>1, <2>2, SMT
  <2>4. Apart(resps') /\ Us(resps') = R \cup Y
    BY <1>7, <2>1, <2>3, Zenon
  <2> QED  BY <1>3, <2>1, <2>2, <2>3, <2>4, Zenon DEF Flight, S
<1>11. Given' \subseteq Given /\ Given' \cup Ready' \subseteq Given \cup Ready
  <2>1. Y \subseteq H /\ Us(held') \subseteq H
    BY <1>4, Zenon
  <2> HIDE DEF S, H, R, Y
  <2> QED  BY <1>9, <2>1, SMT
<1>12. ASSUME Pins(resps, isr) PROVE Pins(resps', isr)
  BY <1>1, <1>3, <1>6, <1>12, PinsJoined, Zenon
<1> QED  BY <1>1, <1>3, <1>4, <1>7, <1>8, <1>10, <1>11, <1>12, FwKeeps, Zenon

-----------------------------------------------------------------------------
(* The theorem.                                                            *)

\* The initial state.
LEMMA InvInit ==
    ASSUME Init
    PROVE  Inv
<1>1. /\ DOMAIN vb = Buffers /\ ~started /\ pc = "idle" /\ incoming = <<>> /\ active = <<>>
      /\ bl = {} /\ frame = {} /\ ~joined /\ ref_count = 0
      /\ cmds = <<>> /\ resps = <<>> /\ isr = {} /\ held = <<>>
  BY Zenon DEF Init
<1>2. <<>> \in Sets /\ Us(<<>>) = {} /\ Apart(<<>>)
  BY NoSets, Zenon
<1>3. TypeInv
  BY <1>1, <1>2, Zenon DEF TypeInv
<1>4. PlaceInv
  BY <1>1, SMT DEF PlaceInv, RefInv, JoinInv, ListInv, Holds, Starting, Opening
<1>5. OwnerInv
  <2>1. \A b \in {} : vb[b] = "active"
    BY Zenon
  <2>2. Owned(<<>>, <<>>, {}, {}, vb)
    BY <2>1, OwnedReturned, Zenon
  <2> QED  BY <1>1, <2>2, Zenon DEF OwnerInv
<1>6. KnownInv
  <2>1. Given = {} /\ Ready = {}
    BY <1>1, <1>2, Zenon DEF Given, Ready
  <2>2. Flight(<<>>, <<>>, <<>>)
    BY <1>2, Zenon DEF Flight
  <2>3. Pins(<<>>, {})
    BY DEF Pins
  <2>4. Within(pc, frame, {}, {}, ToSet(active), {}, vb)
    BY <1>1, SMT DEF Within, Sending
  <2> QED  BY <1>1, <2>1, <2>2, <2>3, <2>4, Zenon DEF KnownInv, Tracked
<1> QED  BY <1>3, <1>4, <1>5, <1>6, Zenon DEF Inv

\* Every step of every process keeps the invariant.
LEMMA NextKeeps ==
    ASSUME Listing, Inv, [Next]_vars
    PROVE  Inv'
<1>1. CASE User
  BY <1>1, UserSteps, QBufKeeps, StreamOnKeeps, StreamOffEarlyKeeps, Zenon DEF User
<1>2. CASE Thread
  BY <1>2, PassKeeps, LoadKeeps, SendKeeps, DropKeeps, SetupKeeps, FailSteps,
     StartStreamingKeeps, OpenCompleteKeeps, StreamingSteps, RequeueKeeps, UnwindKeeps,
     StopReturnKeeps, StopPutKeeps, Zenon DEF Thread
<1>3. CASE Isr
  BY <1>3, IsrDropKeeps, IsrPinReadyKeeps, IsrBufDoneKeeps, Zenon DEF Isr
<1>4. CASE Firmware
  BY <1>4, FwCommandKeeps, FwFrameKeeps, Zenon DEF Firmware
<1>5. CASE UNCHANGED vars
  <2>1. UNCHANGED <<vb, pc, started, incoming, active, joined, streaming, bl, frame,
                    ref_count, need_reset, cmds, resps, isr, held>>
    BY <1>5, Zenon DEF vars, listVars, streamVars, callVars, isysVars, linkVars
  <2>2. TypeInv' /\ PlaceInv' /\ OwnerInv' /\ KnownInv'
    BY <2>1, Zenon DEF Inv, TypeInv, PlaceInv, RefInv, JoinInv, ListInv, Holds, OwnerInv,
       KnownInv, Tracked, Given, Ready
  <2> QED  BY <2>2, Zenon DEF Inv
<1> QED  BY <1>1, <1>2, <1>3, <1>4, <1>5, Zenon DEF Next

FS == INSTANCE FiniteSetTheorems

\* The instance counts as FiniteSets does.
LEMMA SameCount ==
    \A S : (IsFiniteSet(S) <=> FS!IsFiniteSet(S)) /\ Cardinality(S) = FS!Cardinality(S)
<1>1. \A S : IsFiniteSet(S) <=> FS!IsFiniteSet(S)
  BY Zenon DEF IsFiniteSet, FS!IsFiniteSet
<1>2. \A S : Cardinality(S) = FS!Cardinality(S)
  BY Zenon DEF Cardinality, FS!Cardinality
<1> QED  BY <1>1, <1>2, Zenon

\* The members of a finite set of buffers can be numbered.
LEMMA FewBuffers ==
    ASSUME IsFiniteSet(Buffers), NEW S \in SUBSET Buffers
    PROVE  /\ IsFiniteSet(S) /\ Cardinality(S) \in Nat
           /\ \E f \in [1 .. Cardinality(S) -> S] : NoRepeat(f)
<1>1. FS!IsFiniteSet(Buffers)
  BY SameCount, Zenon
<1>2. FS!IsFiniteSet(S)
  BY <1>1, FS!FS_Subset, Zenon
<1>3. FS!Cardinality(S) \in Nat /\ FS!ExistsBijection(1 .. FS!Cardinality(S), S)
  BY <1>2, FS!FS_CardinalityType, Zenon
<1>4. PICK f \in [1 .. FS!Cardinality(S) -> S] : FS!IsInjective(f)
  BY <1>3, Zenon DEF FS!ExistsBijection, FS!Bijection, FS!Injection
<1>5. NoRepeat(f)
  BY <1>4, Zenon DEF NoRepeat, FS!IsInjective
<1> QED  BY <1>2, <1>3, <1>4, <1>5, SameCount, Zenon

\* A function that numbers as many buffers as there are in a set is a list of it.
LEMMA Numbered ==
    ASSUME IsFiniteSet(Buffers), NEW S \in SUBSET Buffers,
           NEW f \in [1 .. Cardinality(S) -> S], NoRepeat(f)
    PROVE  List(f) /\ ToSet(f) = S
<1>1. FS!IsFiniteSet(S)
  BY FewBuffers, SameCount, Zenon
<1> DEFINE n == Cardinality(S)
<1>2. n \in Nat
  BY FewBuffers, Zenon
<1>3. f \in FS!Injection(1..n, S)
  BY Zenon DEF FS!Injection, FS!IsInjective, NoRepeat
<1>4. FS!Cardinality(1..n) = n
  <2>1. 1 \in Int /\ n \in Int
    BY <1>2
  <2>2. FS!Cardinality(1..n) = IF 1 > n THEN 0 ELSE n - 1 + 1
    BY <2>1, FS!FS_Interval, Zenon
  <2> QED  BY <1>2, <2>2
<1>5. f \in FS!Surjection(1..n, S)
  BY <1>1, <1>3, <1>4, SameCount, FS!FS_Injection, Zenon
<1>6. \A x \in S : \E i \in 1..n : f[i] = x
  BY <1>5, Zenon DEF FS!Surjection
<1>7. f \in Seq(Buffers) /\ DOMAIN f = 1..n
  BY <1>2
<1>8. \A x : x \in ToSet(f) <=> x \in S
  BY <1>6, <1>7, Members, Zenon
<1> QED  BY <1>7, <1>8, Zenon DEF List

\* The lists that are made of sets have each member once.
LEMMA Listed ==
    ASSUME IsFiniteSet(Buffers)
    PROVE  Listing
<1>1. ASSUME NEW S \in SUBSET Buffers, NEW s \in SetToSeqs(S)
      PROVE  List(s) /\ ToSet(s) = S
  <2>1. s \in [1 .. Cardinality(S) -> S] /\ NoRepeat(s)
    BY Zenon DEF SetToSeqs, NoRepeat
  <2> QED  BY <2>1, Numbered, Zenon
<1>2. ASSUME NEW S \in SUBSET Buffers
      PROVE  SetToSeq(S) \in SetToSeqs(S)
  <2>1. PICK f \in [1 .. Cardinality(S) -> S] : NoRepeat(f)
    BY FewBuffers, Zenon
  <2>2. f \in SetToSeqs(S)
    BY <2>1, Zenon DEF SetToSeqs, NoRepeat
  <2> QED  BY <2>2, Zenon DEF SetToSeq
<1> QED  BY <1>1, <1>2, Zenon DEF Listing

\* A list on which nothing occurs twice has each of its members once.
LEMMA OccursOnce ==
    ASSUME NEW s, List(s), NEW b
    PROVE  Cardinality({i \in DOMAIN s : s[i] = b}) = IF b \in ToSet(s) THEN 1 ELSE 0
<1> DEFINE O == {i \in DOMAIN s : s[i] = b}
<1>1. CASE b \in ToSet(s)
  <2>1. PICK i \in DOMAIN s : s[i] = b
    BY <1>1, Members, Zenon
  <2>2. O = {i}
    BY <2>1, Zenon DEF List, NoRepeat
  <2> QED  BY <1>1, <2>2, FS!FS_Singleton, SameCount, Zenon
<1>2. CASE b \notin ToSet(s)
  <2>1. O = {}
    BY <1>2, Members, Zenon
  <2> QED  BY <1>2, <2>1, FS!FS_EmptySet, SameCount, Zenon
<1> QED  BY <1>1, <1>2, Zenon

\* The same of the sets that have it or not.
LEMMA CountOnce ==
    ASSUME NEW S, NEW b
    PROVE  Cardinality({b} \cap S) = IF b \in S THEN 1 ELSE 0
<1>1. CASE b \in S
  <2>1. {b} \cap S = {b}
    BY <1>1, Zenon
  <2> QED  BY <1>1, <2>1, FS!FS_Singleton, SameCount, Zenon
<1>2. CASE b \notin S
  <2>1. {b} \cap S = {}
    BY <1>2, Zenon
  <2> QED  BY <1>2, <2>1, FS!FS_EmptySet, SameCount, Zenon
<1> QED  BY <1>1, <1>2, Zenon

\* A buffer is in at most one place, videobuf2 knows when the driver has it,
\* and as long as no reset is due the firmware has only active buffers.
THEOREM BuffersSafe ==
    ASSUME IsFiniteSet(Buffers)
    PROVE  Spec => []Inv
<1>1. Init => Inv
  BY InvInit, Zenon
<1>2. Inv /\ [Next]_vars => Inv'
  BY Listed, NextKeeps, Zenon
<1> QED  BY <1>1, <1>2, PTL DEF Spec
=============================================================================
