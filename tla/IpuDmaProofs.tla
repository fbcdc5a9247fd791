-------------------------- MODULE IpuDmaProofs --------------------------
(***************************************************************************)
(* What the operators of IpuDma's page table compute, for tables of any    *)
(* size: l2_map writes the addresses it is given and no other, l2_unmap    *)
(* clears them unless it meets an address without a table, and an l2_map   *)
(* that fails leaves nothing mapped.  l2_unmap and the addresses of a      *)
(* scatter list are recursive, so these are proofs by induction, over the  *)
(* turns of the loop and over the entries of the list.                     *)
(*                                                                         *)
(* Then the invariant: RangesInv, that the ranges of buffers are apart,    *)
(* which needs nothing else, and MapInv and TlbOK, what each buffer has    *)
(* mapped and what the TLB holds, with the shape (StepOf) that a thread's  *)
(* step must have to keep them.                                            *)
(***************************************************************************)
EXTENDS IpuDma, TLAPS

-----------------------------------------------------------------------------
(* Induction: a set of numbers that is not empty has a least element.      *)

\* It is a hypothesis here, so that its proof, which needs more of the library,
\* comes last: IpuDmaProofs discharges it.
Induction == \A T \in SUBSET Nat : T # {} => \E x \in T : \A y \in T : x <= y

\* So a set of numbers with the first of an interval, and with each one's
\* successor, has all of the interval.
LEMMA Upwards ==
    ASSUME Induction, NEW a \in Int, NEW b \in Int, NEW T, a \in T,
           \A i \in a .. b : i < b /\ i \in T => i + 1 \in T
    PROVE  \A i \in a .. b : i \in T
<1> SUFFICES ASSUME NEW i \in a .. b, i \notin T PROVE FALSE
  BY Zenon
<1> DEFINE S == {k \in Nat : a + k \in a .. b /\ a + k \notin T}
<1>1. i - a \in S
  BY DEF S
<1>2. PICK k \in S : \A m \in S : k <= m
  <2> HIDE DEF S
  <2>1. S \in SUBSET Nat
    BY Zenon DEF S
  <2> QED
    BY <1>1, <2>1, Zenon DEF Induction
<1>3. k \in Nat /\ a + k \in a .. b /\ a + k \notin T
  BY <1>2, Zenon DEF S
<1>4. k # 0
  BY <1>3
<1>5. k - 1 \notin S
  BY <1>2, <1>3
<1>6. a + k - 1 \in a .. b /\ a + (k - 1) \in T
  BY <1>3, <1>4, <1>5
<1> QED
  BY <1>3, <1>6

-----------------------------------------------------------------------------
(* Where an address lies in the two tables.                                *)

\* Multiplication by the size of a table keeps the order.
LEMMA Times ==
    ASSUME NEW k \in Nat, NEW m \in Nat
    PROVE  /\ k * NL2 \in Nat /\ (k + 1) * NL2 = k * NL2 + NL2
           /\ k <= m => k * NL2 <= m * NL2
           /\ k < m => k * NL2 + NL2 <= m * NL2
<1>1. NL2 \in Nat /\ NL2 > 0
  BY DmaAssumption
<1>2. k * NL2 \in Nat /\ (k + 1) * NL2 = k * NL2 + NL2
  BY <1>1
<1>3. k <= m => k * NL2 <= m * NL2
  BY <1>1
<1>4. k < m => k * NL2 + NL2 <= m * NL2
  <2> SUFFICES ASSUME k < m PROVE k * NL2 + NL2 <= m * NL2
    OBVIOUS
  <2>1. PICK d \in Nat : m = k + 1 + d
    <3>1. m - k - 1 \in Nat
      OBVIOUS
    <3> QED  BY <3>1
  <2>2. m * NL2 = (k + 1) * NL2 + d * NL2 /\ d * NL2 >= 0
    BY <1>1, <2>1
  <2> QED  BY <1>1, <1>2, <2>2
<1> QED  BY <1>2, <1>3, <1>4

\* Division with remainder.
LEMMA Divided ==
    ASSUME NEW p \in Nat, NEW n \in Nat \ {0}
    PROVE  p \div n \in Nat /\ p % n \in 0 .. n - 1 /\ p = (p \div n) * n + (p % n)
OBVIOUS

\* An address is one entry of one table.
LEMMA Split ==
    ASSUME NEW p \in Nat
    PROVE  /\ l1(p) \in Nat /\ l2(p) \in L2s /\ p = l1(p) * NL2 + l2(p)
           /\ l2(p) \in Nat /\ l2(p) < NL2 /\ NL2 \in Nat \ {0} /\ l1(p) * NL2 \in Nat
<1>1. NL2 \in Nat \ {0}
  BY DmaAssumption, Zenon
<1>2. l1(p) \in Nat /\ l2(p) \in L2s /\ p = l1(p) * NL2 + l2(p)
  BY <1>1, Divided, Zenon DEF l1, l2, L2s
<1>3. l2(p) \in Nat /\ l2(p) < NL2
  BY <1>1, <1>2 DEF L2s
<1> QED
  BY <1>1, <1>2, <1>3, Times, Zenon

\* Each entry of a table is one address.
LEMMA SplitOne ==
    ASSUME NEW l \in Nat, NEW j \in L2s
    PROVE  l * NL2 + j \in Nat /\ l1(l * NL2 + j) = l /\ l2(l * NL2 + j) = j
<1>1. NL2 \in Nat /\ NL2 > 0 /\ j \in Nat /\ j < NL2
  BY DmaAssumption DEF L2s
<1> DEFINE p == l * NL2 + j
<1>2. l * NL2 \in Nat /\ p \in Nat
  BY <1>1, Times
<1> HIDE DEF p
<1>3. /\ l1(p) \in Nat /\ l2(p) \in L2s /\ p = l1(p) * NL2 + l2(p)
      /\ l2(p) \in Nat /\ l2(p) < NL2 /\ l1(p) * NL2 \in Nat
  BY <1>2, Split, Zenon
<1>4. l1(p) = l
  <2>2. CASE l1(p) < l
    <3>1. l1(p) * NL2 + NL2 <= l * NL2
      BY <1>3, <2>2, Times
    <3> QED  BY <1>1, <1>2, <1>3, <3>1 DEF p
  <2>3. CASE l < l1(p)
    <3>1. l * NL2 + NL2 <= l1(p) * NL2
      BY <1>3, <2>3, Times
    <3> QED  BY <1>1, <1>2, <1>3, <3>1 DEF p
  <2> QED  BY <1>3, <2>2, <2>3
<1>5. l2(p) = j
  <2>1. l2(p) \in Nat /\ p = l * NL2 + l2(p)
    BY <1>3, <1>4, Zenon
  <2> QED  BY <1>1, <1>2, <2>1 DEF p
<1> QED  BY <1>2, <1>4, <1>5 DEF p

\* An address of the aperture has its place in the tables,
LEMMA Aperture ==
    ASSUME NEW p \in 0 .. Top
    PROVE  p \in Nat /\ l1(p) \in L1s
<1>1. NL1 \in Nat /\ Top = NL1 * NL2 - 1 /\ NL1 * NL2 \in Nat /\ p \in Nat
  BY DmaAssumption, Times DEF Top
<1>2. l1(p) \in Nat /\ l2(p) \in Nat /\ p = l1(p) * NL2 + l2(p) /\ l1(p) * NL2 \in Nat
  BY <1>1, Split, Zenon
<1>3. ~(NL1 <= l1(p))
  <2> SUFFICES ASSUME NL1 <= l1(p) PROVE FALSE
    OBVIOUS
  <2>1. NL1 * NL2 <= l1(p) * NL2
    BY <1>1, <1>2, Times
  <2> QED  BY <1>1, <1>2, <2>1
<1> QED  BY <1>1, <1>2, <1>3 DEF L1s

\* and the order of addresses is that of the tables.
LEMMA Ordered ==
    ASSUME NEW p \in Nat, NEW q \in Nat, p <= q
    PROVE  l1(p) <= l1(q)
<1>0. l1(p) \in Nat /\ l1(q) \in Nat
  BY Split, Zenon
<1> SUFFICES ASSUME l1(q) < l1(p) PROVE FALSE
  BY <1>0
<1>1. /\ l1(p) \in Nat /\ l2(p) \in Nat /\ p = l1(p) * NL2 + l2(p) /\ l1(p) * NL2 \in Nat
      /\ l1(q) \in Nat /\ l2(q) < NL2 /\ q = l1(q) * NL2 + l2(q) /\ l1(q) * NL2 \in Nat
      /\ l2(q) \in Nat /\ NL2 \in Nat
  BY Split, Zenon
<1>2. l1(q) * NL2 + NL2 <= l1(p) * NL2
  BY <1>1, Times
<1> QED  BY <1>1, <1>2

-----------------------------------------------------------------------------
(* The page table.                                                         *)

Tables == [L1s -> {NoTable} \cup [L2s -> Nat]]

\* What the device finds at p in the tables t.
At(t, p) == IF t[l1(p)] = NoTable THEN Dummy ELSE t[l1(p)][l2(p)]

\* A table is not the mark of a missing one.
LEMMA TableThere == \A f : DOMAIN f = L2s => f # NoTable
<1>1. 0 \in L2s
  BY DmaAssumption DEF L2s
<1>2. DOMAIN NoTable = {}
  BY DEF NoTable
<1> QED  BY <1>1, <1>2, Zenon

\* Dummy, Trash and the end of the aperture are numbers.
LEMMA Numbers ==
    /\ Top \in Nat /\ Dummy \in Nat /\ Trash \in Nat /\ Dummy # Trash
    /\ Top < Dummy /\ Dummy < Trash /\ EmptyTable \in [L2s -> Nat]
<1>1. Top \in Nat
  <2>1. NL1 * NL2 \in Nat /\ NL1 * NL2 >= 1
    BY DmaAssumption
  <2> QED  BY <2>1 DEF Top
<1>2. Dummy \in Nat
  BY <1>1 DEF Dummy
<1> QED  BY <1>1, <1>2 DEF Dummy, Trash, EmptyTable

\* Adding empty tables changes nothing for the device.
LEMMA AddTables ==
    ASSUME pt \in Tables, NEW S, \A l \in S : pt[l] = NoTable
    PROVE  /\ WithTables(S) \in Tables
           /\ \A p \in 0 .. Top : At(WithTables(S), p) = At(pt, p)
           /\ \A l \in L1s : WithTables(S)[l] = NoTable <=> pt[l] = NoTable /\ l \notin S
<1> DEFINE t == WithTables(S)
<1>1. \A l \in L1s : t[l] = IF l \in S THEN EmptyTable ELSE pt[l]
  BY Zenon DEF WithTables
<1>2. t \in Tables
  BY Numbers, Zenon DEF WithTables, Tables
<1>3. EmptyTable # NoTable /\ \A j \in L2s : EmptyTable[j] = Dummy
  BY TableThere, Zenon DEF EmptyTable
<1> HIDE DEF t
<1>4. ASSUME NEW p \in 0 .. Top PROVE At(t, p) = At(pt, p)
  <2>1. l1(p) \in L1s /\ l2(p) \in L2s
    BY Aperture, Split, Zenon
  <2> QED  BY <1>1, <1>3, <2>1, Zenon DEF At
<1>5. \A l \in L1s : t[l] = NoTable <=> pt[l] = NoTable /\ l \notin S
  BY <1>1, <1>3, Zenon
<1> QED  BY <1>2, <1>4, <1>5, Zenon DEF t

\* l2_map changes the addresses it is given, and no other.
LEMMA MapAt ==
    ASSUME pt \in Tables, NEW lo \in Nat, NEW n \in Nat \ {0}, lo + n - 1 \in 0 .. Top,
           NEW frame \in Nat
    PROVE  /\ l2_map(lo, frame, n) \in Tables
           /\ \A p \in 0 .. Top : At(l2_map(lo, frame, n), p) =
                 IF p \in lo .. lo + n - 1 THEN frame + p - lo ELSE At(pt, p)
<1> DEFINE t == WithTables(Missing(lo, n))
           New(l, j) == IF l * NL2 + j \in lo .. lo + n - 1 THEN frame + (l * NL2 + j) - lo ELSE t[l][j]
           m == l2_map(lo, frame, n)
<1>0. \A l \in Missing(lo, n) : pt[l] = NoTable
  BY Zenon DEF Missing
<1>1. /\ t \in Tables /\ \A p \in 0 .. Top : At(t, p) = At(pt, p)
      /\ \A l \in L1s : t[l] = NoTable <=> pt[l] = NoTable /\ l \notin Missing(lo, n)
  BY <1>0, AddTables, Zenon
<1>2. m = [l \in L1s |-> IF t[l] = NoTable THEN NoTable ELSE [j \in L2s |-> New(l, j)]]
  BY DEF l2_map
<1> HIDE DEF t, m, New
<1>3. ASSUME NEW l \in L1s, t[l] # NoTable, NEW j \in L2s PROVE New(l, j) \in Nat
  <2>1. t[l][j] \in Nat /\ l * NL2 + j \in Nat
    <3>1. t[l] \in [L2s -> Nat]
      BY <1>1, <1>3, Zenon DEF Tables
    <3>2. l \in Nat
      BY DEF L1s
    <3> QED  BY <3>1, <3>2, SplitOne, Zenon
  <2>2. PICK q \in Nat : q = l * NL2 + j
    BY <2>1, Zenon
  <2>3. q \in lo .. lo + n - 1 => frame + q - lo \in Nat
    OBVIOUS
  <2> QED  BY <2>1, <2>2, <2>3, Zenon DEF New
<1>4. m \in Tables
  BY <1>2, <1>3, Zenon DEF Tables
<1>5. ASSUME NEW p \in 0 .. Top
      PROVE  At(m, p) = IF p \in lo .. lo + n - 1 THEN frame + p - lo ELSE At(pt, p)
  <2>1. l1(p) \in L1s /\ l2(p) \in L2s /\ p = l1(p) * NL2 + l2(p) /\ p \in Nat
    BY Aperture, Split, Zenon
  <2>2. p \in lo .. lo + n - 1 => t[l1(p)] # NoTable
    <3> SUFFICES ASSUME p \in lo .. lo + n - 1, pt[l1(p)] = NoTable PROVE l1(p) \in Missing(lo, n)
      BY <1>1, <2>1, Zenon
    <3>1. l1(lo) <= l1(p) /\ l1(p) <= l1(lo + n - 1) /\ l1(p) \in Nat
          /\ l1(lo) \in Nat /\ l1(lo + n - 1) \in Nat
      <4>1. lo <= p /\ p <= lo + n - 1 /\ lo + n - 1 \in Nat
        BY <2>1
      <4> QED  BY <2>1, <4>1, Ordered, Split, Zenon
    <3>2. l1(p) \in l1(lo) .. l1(lo + n - 1)
      BY <3>1
    <3> QED  BY <3>2, Zenon DEF Missing
  <2>3. t[l1(p)] # NoTable => m[l1(p)] # NoTable /\ m[l1(p)][l2(p)] = New(l1(p), l2(p))
    BY <1>2, <2>1, TableThere, Zenon
  <2>4. t[l1(p)] = NoTable => m[l1(p)] = NoTable
    BY <1>2, <2>1, Zenon
  <2>5. New(l1(p), l2(p)) = IF p \in lo .. lo + n - 1 THEN frame + p - lo ELSE t[l1(p)][l2(p)]
    BY <2>1, Zenon DEF New
  <2> QED  BY <1>1, <2>2, <2>3, <2>4, <2>5, Zenon DEF At
<1> QED  BY <1>4, <1>5, Zenon DEF m

-----------------------------------------------------------------------------
(* l2_unmap, turn by turn.                                                 *)

Started(t, lo, n) == [pt |-> t, iova |-> lo, size |-> n, skipped |-> FALSE]

\* The loop of l2_unmap is well defined: its state before a turn is what the turn
\* before it left.
LEMMA TurnsDefined ==
    ASSUME Induction, NEW t, NEW lo, NEW n, l1(lo) \in L1s
    PROVE  UnmapTurns(t, lo, n) =
             [l \in l1(lo) .. NL1 |->
                IF l = l1(lo) THEN Started(t, lo, n)
                ELSE UnmapTurn(UnmapTurns(t, lo, n)[l - 1], l - 1)]
<1> DEFINE a == l1(lo)
           s == Started(t, lo, n)
           Loop(f, m) == f = [l \in a .. m |-> IF l = a THEN s ELSE UnmapTurn(f[l - 1], l - 1)]
           T == {m \in Int : \E f : Loop(f, m)}
<1>1. a \in Int /\ NL1 \in Int /\ a <= NL1
  BY DmaAssumption DEF L1s
<1> HIDE DEF a, s
<1>2. a \in T
  <2>1. Loop([l \in a .. a |-> s], a)
    <3>1. \A l \in a .. a : l = a
      BY <1>1
    <3> QED  BY <3>1, Zenon
  <2> QED  BY <1>1, <2>1, Zenon
<1>3. ASSUME NEW m \in a .. NL1, m < NL1, m \in T PROVE m + 1 \in T
  <2>1. PICK f : Loop(f, m)
    BY <1>3, Zenon
  <2> DEFINE g == [l \in a .. m + 1 |-> IF l <= m THEN f[l] ELSE UnmapTurn(f[l - 1], l - 1)]
  <2>2. ASSUME NEW l \in a .. m + 1
        PROVE  g[l] = IF l = a THEN s ELSE UnmapTurn(g[l - 1], l - 1)
    <3>1. CASE l = a
      <4>1. l \in a .. m /\ l <= m
        BY <1>1, <3>1
      <4> QED  BY <2>1, <3>1, <4>1, Zenon
    <3>2. CASE l # a
      <4>1. l - 1 \in a .. m /\ l - 1 \in a .. m + 1 /\ l - 1 <= m
        BY <1>1, <3>2
      <4>2. g[l - 1] = f[l - 1]
        BY <4>1, Zenon
      <4>3. CASE l <= m
        <5>1. l \in a .. m
          BY <1>1, <4>3
        <5> QED  BY <2>1, <3>2, <4>2, <4>3, <5>1, Zenon
      <4>4. CASE ~(l <= m)
        BY <3>2, <4>2, <4>4, Zenon
      <4> QED  BY <4>3, <4>4, Zenon
    <3> QED  BY <3>1, <3>2, Zenon
  <2>3. Loop(g, m + 1)
    <3> DEFINE h == [l \in a .. m + 1 |-> IF l = a THEN s ELSE UnmapTurn(g[l - 1], l - 1)]
    <3>1. \A l \in a .. m + 1 : g[l] = h[l]
      BY <2>2, Zenon
    <3> QED  BY <3>1, Zenon
  <2>4. m + 1 \in Int
    BY <1>1
  <2> QED  BY <2>3, <2>4, Zenon
<1> HIDE DEF T
<1>4. NL1 \in T
  <2>1. \A i \in a .. NL1 : i \in T
    BY <1>1, <1>2, <1>3, Upwards, Zenon
  <2> QED  BY <1>1, <2>1
<1>5. \E f : Loop(f, NL1)
  BY <1>4, Zenon DEF T
<1>6. UnmapTurns(t, lo, n) = CHOOSE f : Loop(f, NL1)
  BY DEF UnmapTurns, Started, a, s
<1>7. Loop(UnmapTurns(t, lo, n), NL1)
  BY <1>5, <1>6, Zenon
<1> QED  BY <1>7, Zenon DEF a, s

\* The states of that loop: where it is, if it has skipped nothing, and that the
\* addresses behind it are cleared.
Turning == [pt : Tables, iova : Nat, size : Nat, skipped : BOOLEAN]
Reached(lo, n, l) == IF l * NL2 <= lo THEN lo ELSE IF l * NL2 <= lo + n THEN l * NL2 ELSE lo + n
Cleared(t, u, lo, hi) ==
    \A p \in 0 .. Top : At(u, p) = IF p \in lo .. hi - 1 THEN Dummy ELSE At(t, p)
TurnOK(t, lo, n, acc, l) ==
    /\ acc \in Turning
    /\ \A k \in L1s : acc.pt[k] = NoTable <=> t[k] = NoTable
    /\ ~acc.skipped => /\ acc.iova = Reached(lo, n, l) /\ acc.iova + acc.size = lo + n
                       /\ Cleared(t, acc.pt, lo, acc.iova)
    /\ (\A p \in lo .. lo + n - 1 : t[l1(p)] # NoTable) => ~acc.skipped

\* Where the loop is before turn l, unless it is done.
LEMMA ReachedIn ==
    ASSUME NEW lo \in Nat, NEW n \in Nat \ {0}, NEW l \in Nat, l1(lo) <= l,
           Reached(lo, n, l) # lo + n
    PROVE  /\ Reached(lo, n, l) \in lo .. lo + n - 1 /\ l1(Reached(lo, n, l)) = l
           /\ Reached(lo, n, l + 1) = IF l * NL2 + NL2 <= lo + n THEN l * NL2 + NL2 ELSE lo + n
<1>1. /\ l * NL2 \in Nat /\ (l + 1) * NL2 = l * NL2 + NL2 /\ NL2 \in Nat \ {0}
      /\ l1(lo) \in Nat /\ l2(lo) \in Nat /\ l2(lo) < NL2 /\ lo = l1(lo) * NL2 + l2(lo)
      /\ l1(lo) * NL2 \in Nat /\ l1(lo) * NL2 <= l * NL2
  BY Times, Split, Zenon
<1>2. lo < l * NL2 + NL2
  BY <1>1
<1>3. Reached(lo, n, l + 1) = IF l * NL2 + NL2 <= lo + n THEN l * NL2 + NL2 ELSE lo + n
  BY <1>1, <1>2 DEF Reached
<1>4. CASE l * NL2 <= lo
  <2>1. l1(lo) = l
    <3> SUFFICES ASSUME l1(lo) < l PROVE FALSE
      BY <1>1
    <3>1. l1(lo) * NL2 + NL2 <= l * NL2
      BY <1>1, Times
    <3> QED  BY <1>1, <1>4, <3>1
  <2> QED  BY <1>3, <1>4, <2>1 DEF Reached
<1>5. CASE ~(l * NL2 <= lo)
  <2>1. Reached(lo, n, l) = l * NL2 /\ l * NL2 \in lo .. lo + n - 1
    BY <1>1, <1>5 DEF Reached
  <2>2. l1(l * NL2) = l
    <3>1. 0 \in L2s
      BY <1>1 DEF L2s
    <3>2. l1(l * NL2 + 0) = l
      BY <3>1, SplitOne, Zenon
    <3>3. l * NL2 + 0 = l * NL2
      BY <1>1
    <3> QED  BY <3>2, <3>3, Zenon
  <2> QED  BY <1>3, <2>1, <2>2, Zenon
<1> QED  BY <1>4, <1>5, Zenon

\* A turn that clears k entries from an address of the table it works on.
LEMMA ClearEntries ==
    ASSUME NEW t \in Tables, NEW l \in L1s, t[l] # NoTable, NEW first \in L2s, NEW k \in Nat,
           first + k <= NL2,
           NEW u, u = [t EXCEPT ![l] = [j \in L2s |-> IF j \in first .. first + k - 1 THEN Dummy ELSE t[l][j]]]
    PROVE  /\ u \in Tables /\ \A m \in L1s : u[m] = NoTable <=> t[m] = NoTable
           /\ \A i \in Nat : i = l * NL2 + first => Cleared(t, u, i, i + k)
<1> DEFINE v == [j \in L2s |-> IF j \in first .. first + k - 1 THEN Dummy ELSE t[l][j]]
<1>1. u = [t EXCEPT ![l] = v]
  BY Zenon
<1>2. t[l] \in [L2s -> Nat]
  BY Zenon DEF Tables
<1>3. v \in [L2s -> Nat] /\ v # NoTable
  BY <1>2, Numbers, TableThere, Zenon
<1>4. \A j \in L2s : v[j] = IF j \in first .. first + k - 1 THEN Dummy ELSE t[l][j]
  BY Zenon
<1> HIDE DEF v
<1>5. u \in Tables /\ \A m \in L1s : u[m] = IF m = l THEN v ELSE t[m]
  BY <1>1, <1>3, Zenon DEF Tables
<1>6. \A m \in L1s : u[m] = NoTable <=> t[m] = NoTable
  BY <1>3, <1>5, Zenon
<1>7. ASSUME NEW i \in Nat, i = l * NL2 + first, NEW p \in 0 .. Top
      PROVE  At(u, p) = IF p \in i .. (i + k) - 1 THEN Dummy ELSE At(t, p)
  <2>1. l1(p) \in L1s /\ l2(p) \in L2s /\ p = l1(p) * NL2 + l2(p) /\ p \in Nat
    BY Aperture, Split, Zenon
  <2>2. l \in Nat /\ l * NL2 \in Nat /\ first \in Nat /\ NL2 \in Nat
    BY DmaAssumption, Times DEF L1s, L2s
  <2>3. CASE l1(p) = l
    <3>1. p \in i .. (i + k) - 1 <=> l2(p) \in first .. first + k - 1
      BY <1>7, <2>1, <2>2, <2>3 DEF L2s
    <3> QED  BY <1>3, <1>4, <1>5, <2>1, <2>3, <3>1, Zenon DEF At
  <2>4. CASE l1(p) # l
    <3>1. p \notin i .. (i + k) - 1
      <4> SUFFICES ASSUME p \in i .. (i + k) - 1 PROVE FALSE
        OBVIOUS
      <4>1. p - l * NL2 \in L2s
        BY <1>7, <2>1, <2>2 DEF L2s
      <4>2. l1(l * NL2 + (p - l * NL2)) = l
        BY <2>2, <4>1, SplitOne, Zenon
      <4>3. l * NL2 + (p - l * NL2) = p
        BY <2>1, <2>2
      <4> QED  BY <2>4, <4>2, <4>3, Zenon
    <3>2. u[l1(p)] = t[l1(p)]
      BY <1>5, <2>1, <2>4, Zenon
    <3>3. At(u, p) = At(t, p)
      BY <3>2 DEF At
    <3> QED  BY <3>1, <3>3, Zenon
  <2> QED  BY <2>3, <2>4, Zenon
<1> QED  BY <1>5, <1>6, <1>7, Zenon DEF Cleared

\* One turn of the loop.
LEMMA Turn ==
    ASSUME NEW t \in Tables, NEW lo \in Nat, NEW n \in Nat \ {0}, lo + n - 1 \in 0 .. Top,
           NEW l \in L1s, l1(lo) <= l, NEW acc, TurnOK(t, lo, n, acc, l)
    PROVE  TurnOK(t, lo, n, UnmapTurn(acc, l), l + 1)
<1> DEFINE new == UnmapTurn(acc, l)
<1>1. /\ acc \in Turning /\ (\A m \in L1s : acc.pt[m] = NoTable <=> t[m] = NoTable)
      /\ ~acc.skipped => /\ acc.iova = Reached(lo, n, l) /\ acc.iova + acc.size = lo + n
                         /\ Cleared(t, acc.pt, lo, acc.iova)
      /\ (\A p \in lo .. lo + n - 1 : t[l1(p)] # NoTable) => ~acc.skipped
  BY Zenon DEF TurnOK
<1>2. acc.pt \in Tables /\ acc.iova \in Nat /\ acc.size \in Nat /\ acc.skipped \in BOOLEAN
  BY <1>1 DEF Turning
<1>3. l \in Nat /\ l * NL2 \in Nat /\ NL2 \in Nat \ {0}
  BY DmaAssumption, Times DEF L1s
<1>4. CASE acc.size = 0
  <2>1. new = acc
    BY <1>4, Zenon DEF UnmapTurn
  <2>2. ~acc.skipped => acc.iova = Reached(lo, n, l + 1)
    <3> SUFFICES ASSUME ~acc.skipped PROVE acc.iova = Reached(lo, n, l + 1)
      BY Zenon
    <3>1. Reached(lo, n, l) = lo + n /\ acc.iova = lo + n
      BY <1>1, <1>2, <1>4
    <3>2. (l + 1) * NL2 = l * NL2 + NL2
      BY <1>3, Times
    <3> QED  BY <1>3, <3>1, <3>2 DEF Reached
  <2> QED  BY <1>1, <2>1, <2>2, Zenon DEF TurnOK
<1>5. CASE acc.size # 0 /\ acc.pt[l] = NoTable
  <2>1. new = [acc EXCEPT !.skipped = TRUE]
    BY <1>5, Zenon DEF UnmapTurn
  <2>2. new \in Turning /\ new.skipped /\ new.pt = acc.pt
    BY <1>1, <2>1, Zenon DEF Turning
  <2>3. ~(\A p \in lo .. lo + n - 1 : t[l1(p)] # NoTable)
    <3> SUFFICES ASSUME \A p \in lo .. lo + n - 1 : t[l1(p)] # NoTable PROVE FALSE
      BY Zenon
    <3>1. acc.iova = Reached(lo, n, l) /\ acc.iova + acc.size = lo + n
      BY <1>1, Zenon
    <3>2. Reached(lo, n, l) # lo + n
      BY <1>2, <1>5, <3>1
    <3>3. Reached(lo, n, l) \in lo .. lo + n - 1 /\ l1(Reached(lo, n, l)) = l
      BY <1>3, <3>2, ReachedIn, Zenon
    <3> QED  BY <1>1, <1>5, <3>3, Zenon
  <2> QED  BY <1>1, <2>2, <2>3, Zenon DEF TurnOK
<1>6. CASE acc.size # 0 /\ acc.pt[l] # NoTable
  <2> DEFINE first == l2(acc.iova)
             k == IF acc.size < NL2 - first THEN acc.size ELSE NL2 - first
             u == [acc.pt EXCEPT ![l] =
                     [j \in L2s |-> IF j \in first .. first + k - 1 THEN Dummy ELSE acc.pt[l][j]]]
  <2>1. first \in L2s /\ acc.iova = l1(acc.iova) * NL2 + first
    BY <1>2, Split, Zenon
  <2>2. first \in Nat /\ first < NL2
    BY <1>3, <2>1 DEF L2s
  <2> HIDE DEF first
  <2>3. new = [acc EXCEPT !.pt = u, !.iova = @ + k, !.size = @ - k]
    BY <1>6, <1>2 DEF UnmapTurn, first, Turning
  <2>4. k \in Nat /\ k <= acc.size /\ first + k <= NL2
    BY <1>2, <1>3, <2>2
  <2> HIDE DEF k
  <2>5. /\ u \in Tables /\ (\A m \in L1s : u[m] = NoTable <=> acc.pt[m] = NoTable)
        /\ \A i \in Nat : i = l * NL2 + first => Cleared(acc.pt, u, i, i + k)
    BY <1>2, <1>6, <2>1, <2>4, ClearEntries, ZenonT(30)
  <2> HIDE DEF u
  <2>6. /\ new.pt = u /\ new.iova = acc.iova + k /\ new.size = acc.size - k
        /\ new.skipped = acc.skipped /\ new \in Turning
    <3>1. acc.iova + k \in Nat /\ acc.size - k \in Nat
      BY <1>2, <2>4
    <3> QED  BY <1>1, <2>3, <2>5, <3>1, Zenon DEF Turning
  <2>7. ASSUME ~acc.skipped
        PROVE  new.iova = Reached(lo, n, l + 1) /\ Cleared(t, u, lo, new.iova)
    <3>1. /\ acc.iova = Reached(lo, n, l) /\ acc.iova + acc.size = lo + n
          /\ Cleared(t, acc.pt, lo, acc.iova)
      BY <1>1, <2>7, Zenon
    <3>2. Reached(lo, n, l) # lo + n
      BY <1>2, <1>6, <3>1
    <3>3. /\ Reached(lo, n, l) \in lo .. lo + n - 1 /\ l1(Reached(lo, n, l)) = l
          /\ Reached(lo, n, l + 1) = IF l * NL2 + NL2 <= lo + n THEN l * NL2 + NL2 ELSE lo + n
      BY <1>3, <3>2, ReachedIn, Zenon
    <3>4. acc.iova = l * NL2 + first
      BY <2>1, <3>1, <3>3, Zenon
    <3>5. new.iova = Reached(lo, n, l + 1)
      BY <1>2, <1>3, <2>2, <2>6, <3>1, <3>3, <3>4 DEF k
    <3>6. Cleared(acc.pt, u, acc.iova, acc.iova + k)
      BY <1>2, <2>5, <3>4, Zenon
    <3>7. \A p \in 0 .. Top : p \in lo .. new.iova - 1
             <=> p \in lo .. acc.iova - 1 \/ p \in acc.iova .. (acc.iova + k) - 1
      BY <1>2, <2>4, <2>6, <3>1, <3>3
    <3> QED  BY <3>1, <3>5, <3>6, <3>7, Zenon DEF Cleared
  <2>8. ~acc.skipped => new.iova + new.size = lo + n
    BY <1>1, <1>2, <2>4, <2>6
  <2> QED  BY <1>1, <2>5, <2>6, <2>7, <2>8, Zenon DEF TurnOK
<1> QED  BY <1>4, <1>5, <1>6, Zenon

\* l2_unmap clears the addresses it is given, and no other, unless it meets one
\* without a table; and it does not where all of them have one.
LEMMA UnmapAt ==
    ASSUME Induction, NEW t \in Tables, NEW lo \in Nat, NEW n \in Nat \ {0}, lo + n - 1 \in 0 .. Top
    PROVE  /\ l2_unmap(t, lo, n).pt \in Tables /\ l2_unmap(t, lo, n).skipped \in BOOLEAN
           /\ ~l2_unmap(t, lo, n).skipped => Cleared(t, l2_unmap(t, lo, n).pt, lo, lo + n)
           /\ (\A p \in lo .. lo + n - 1 : t[l1(p)] # NoTable) => ~l2_unmap(t, lo, n).skipped
<1> DEFINE B == UnmapTurns(t, lo, n)
           a == l1(lo)
           T == {l \in Int : TurnOK(t, lo, n, B[l], l)}
<1>1. /\ lo \in 0 .. Top /\ a \in L1s /\ a \in Int /\ NL1 \in Int /\ a <= NL1
  <2>1. lo \in 0 .. Top
    BY Numbers
  <2> QED  BY <2>1, Aperture, DmaAssumption DEF L1s
<1>2. B = [l \in a .. NL1 |-> IF l = a THEN Started(t, lo, n) ELSE UnmapTurn(B[l - 1], l - 1)]
  <2>1. UnmapTurns(t, lo, n) =
           [l \in l1(lo) .. NL1 |-> IF l = l1(lo) THEN Started(t, lo, n)
                                    ELSE UnmapTurn(UnmapTurns(t, lo, n)[l - 1], l - 1)]
    BY <1>1, TurnsDefined, SMT
  <2> QED  BY <2>1, Zenon
<1> HIDE DEF B, a
<1>3. a \in T
  <2>1. B[a] = Started(t, lo, n)
    <3>1. a \in a .. NL1
      BY <1>1
    <3> QED  BY <1>2, <3>1, Zenon
  <2> DEFINE s == Started(t, lo, n)
  <2>2. s \in Turning /\ s.pt = t /\ s.iova = lo /\ s.size = n /\ s.skipped = FALSE
    BY DEF Started, Turning
  <2> HIDE DEF s
  <2>3. lo = Reached(lo, n, a)
    <3>1. a * NL2 <= lo
      <4>1. a \in Nat /\ l2(lo) \in Nat /\ lo = a * NL2 + l2(lo) /\ a * NL2 \in Nat
        BY Split, Zenon DEF a
      <4> QED  BY <4>1
    <3> QED  BY <3>1, Zenon DEF Reached
  <2>4. Cleared(t, t, lo, lo)
    <3>1. lo .. lo - 1 = {}
      OBVIOUS
    <3> QED  BY <3>1, Zenon DEF Cleared
  <2>5. TurnOK(t, lo, n, s, a)
    BY <2>2, <2>3, <2>4, Zenon DEF TurnOK
  <2> QED  BY <1>1, <2>1, <2>5, Zenon DEF s
<1>4. ASSUME NEW l \in a .. NL1, l < NL1, l \in T PROVE l + 1 \in T
  <2>1. l \in L1s /\ l + 1 \in a .. NL1 /\ l + 1 # a /\ (l + 1) - 1 = l /\ a <= l /\ l + 1 \in Int
    BY <1>1, <1>4 DEF L1s
  <2>2. B[l + 1] = UnmapTurn(B[l], l)
    BY <1>2, <2>1, Zenon
  <2>3. TurnOK(t, lo, n, UnmapTurn(B[l], l), l + 1)
    BY <1>4, <2>1, Turn, Zenon DEF a
  <2> QED  BY <2>1, <2>2, <2>3, Zenon
<1> HIDE DEF T
<1>5. NL1 \in T
  <2>1. \A i \in a .. NL1 : i \in T
    BY <1>1, <1>3, <1>4, Upwards, Zenon
  <2> QED  BY <1>1, <2>1
<1> DEFINE r == B[NL1]
<1>6. TurnOK(t, lo, n, r, NL1)
  BY <1>5, Zenon DEF T
<1> HIDE DEF r
<1>7. Reached(lo, n, NL1) = lo + n
  <2>1. NL1 * NL2 \in Nat /\ Top = NL1 * NL2 - 1
    BY DmaAssumption DEF Top
  <2> QED  BY <2>1 DEF Reached
<1>8. r.pt \in Tables /\ r.skipped \in BOOLEAN
  <2>1. r \in Turning
    BY <1>6, Zenon DEF TurnOK
  <2> QED  BY <2>1 DEF Turning
<1>9. ~r.skipped => Cleared(t, r.pt, lo, lo + n)
  BY <1>6, <1>7, Zenon DEF TurnOK
<1>10. l2_unmap(t, lo, n) = r
  BY Zenon DEF l2_unmap, B, r
<1> QED  BY <1>6, <1>8, <1>9, <1>10, Zenon DEF TurnOK

\* l2_map that runs out of tables at f leaves cleared what it had reached.
LEMMA MapFailsAt ==
    ASSUME Induction, pt \in Tables, NEW lo \in Nat, NEW n \in Nat \ {0}, lo + n - 1 \in 0 .. Top,
           NEW f \in Missing(lo, n)
    PROVE  l2_map_fails(lo, n, f) \in Tables /\ Cleared(pt, l2_map_fails(lo, n, f), lo, f * NL2)
           /\ f * NL2 \in Nat /\ f * NL2 <= lo + n - 1
<1> DEFINE S == {l \in Missing(lo, n) : l < f}
           t == WithTables(S)
<1>1. \A l \in S : pt[l] = NoTable
  BY Zenon DEF Missing
<1>2. /\ t \in Tables /\ (\A p \in 0 .. Top : At(t, p) = At(pt, p))
      /\ \A l \in L1s : t[l] = NoTable <=> pt[l] = NoTable /\ l \notin S
  BY <1>1, AddTables, Zenon
<1>3. /\ l1(lo) \in Nat /\ lo = l1(lo) * NL2 + l2(lo) /\ l1(lo) * NL2 \in Nat
      /\ l2(lo) \in Nat /\ l2(lo) < NL2 /\ NL2 \in Nat \ {0}
  BY Split, Zenon
<1>4. /\ lo + n - 1 \in Nat /\ l1(lo + n - 1) \in Nat /\ l2(lo + n - 1) \in Nat
      /\ lo + n - 1 = l1(lo + n - 1) * NL2 + l2(lo + n - 1) /\ l1(lo + n - 1) * NL2 \in Nat
  <2>1. lo + n - 1 \in Nat
    OBVIOUS
  <2> QED  BY <2>1, Split, Zenon
<1>5. f \in Nat /\ l1(lo) \in Nat /\ l1(lo) <= f /\ f <= l1(lo + n - 1)
  <2>1. f \in l1(lo) .. l1(lo + n - 1)
    BY Zenon DEF Missing
  <2> QED  BY <1>3, <1>4, <2>1
<1>6. f * NL2 \in Nat /\ f * NL2 <= l1(lo + n - 1) * NL2
  BY <1>4, <1>5, Times, Zenon
<1>7. f * NL2 <= lo + n - 1
  BY <1>4, <1>6
<1>8. CASE l1(lo) = f
  <2>1. l2_map_fails(lo, n, f) = t
    BY <1>8, Zenon DEF l2_map_fails
  <2>2. lo .. f * NL2 - 1 = {}
    BY <1>3, <1>6, <1>8
  <2> HIDE DEF t
  <2> QED  BY <1>2, <1>6, <1>7, <2>1, <2>2, Zenon DEF Cleared
<1>9. CASE l1(lo) # f
  <2> DEFINE m == f * NL2 - lo
             u == l2_unmap(t, lo, m)
  <2>1. l2_map_fails(lo, n, f) = u.pt
    BY <1>9, Zenon DEF l2_map_fails
  <2>2. m \in Nat \ {0} /\ lo + m = f * NL2 /\ lo + m - 1 \in 0 .. Top
    <3>1. l1(lo) * NL2 + NL2 <= f * NL2
      <4>1. l1(lo) < f
        BY <1>5, <1>9
      <4> QED  BY <1>5, <4>1, Times, Zenon
    <3>2. PICK x \in Nat, y \in Nat, j \in Nat :
             lo = x + j /\ j < NL2 /\ x + NL2 <= y /\ y = f * NL2 /\ y <= lo + n - 1 /\ NL2 \in Nat
      BY <1>3, <1>6, <1>7, <3>1, Zenon
    <3>3. y - lo \in Nat \ {0} /\ lo + (y - lo) = y /\ lo + (y - lo) - 1 \in 0 .. Top
      <4>1. lo = x + j /\ j < NL2 /\ x + NL2 <= y /\ y <= lo + n - 1 /\ NL2 \in Nat /\ Top \in Nat
        BY <3>2, Numbers, Zenon
      <4> QED  BY <4>1
    <3> QED  BY <3>2, <3>3, Zenon
  <2> HIDE DEF t, S, m
  <2>3. \A p \in lo .. lo + m - 1 : t[l1(p)] # NoTable
    <3> SUFFICES ASSUME NEW p \in lo .. lo + m - 1 PROVE t[l1(p)] # NoTable
      BY Zenon
    <3>0. PICK y \in Nat : y = f * NL2 /\ lo + m = y /\ lo + m - 1 \in 0 .. Top
      BY <1>6, <2>2, Zenon
    <3>1. p \in 0 .. Top /\ p \in Nat /\ lo <= p /\ p < f * NL2
      <4>1. m \in Nat /\ lo + m = y /\ lo + m - 1 \in 0 .. Top /\ Top \in Nat
        BY <2>2, <3>0, Numbers, Zenon
      <4>2. p \in 0 .. Top /\ p \in Nat /\ lo <= p /\ p < y
        BY <4>1
      <4> QED  BY <3>0, <4>2, Zenon
    <3>2. l1(p) \in L1s /\ l1(p) \in Nat /\ l1(lo) <= l1(p) /\ p = l1(p) * NL2 + l2(p)
          /\ l2(p) \in Nat /\ l1(p) * NL2 \in Nat
      BY <3>1, Aperture, Ordered, Split, Zenon
    <3>3. l1(p) < f
      <4> SUFFICES ASSUME f <= l1(p) PROVE FALSE
        BY <1>5, <3>2
      <4>1. f * NL2 <= l1(p) * NL2
        BY <1>5, <3>2, Times, Zenon
      <4> QED  BY <1>6, <3>1, <3>2, <4>1
    <3>4. l1(p) \in l1(lo) .. l1(lo + n - 1)
      BY <1>3, <1>4, <1>5, <3>2, <3>3
    <3>5. pt[l1(p)] = NoTable => l1(p) \in S
      BY <3>3, <3>4, Zenon DEF S, Missing
    <3> QED  BY <1>2, <3>2, <3>5, Zenon
  <2>4. u.pt \in Tables /\ Cleared(t, u.pt, lo, f * NL2)
    BY <1>2, <2>2, <2>3, UnmapAt, Zenon
  <2> HIDE DEF u
  <2> QED  BY <1>2, <1>6, <1>7, <2>1, <2>4, Zenon DEF Cleared
<1> QED  BY <1>8, <1>9, Zenon

-----------------------------------------------------------------------------
(* The entries of a scatter list follow each other.                        *)

\* Where an entry starts is where the one before it ends.
LEMMA StartsDefined ==
    ASSUME Induction, NEW b \in Sg
    PROVE  EntryStarts(b) =
             [e \in 1 .. Len(Sizes[b]) + 1 |->
                IF e = 1 THEN Base[b] ELSE EntryStarts(b)[e - 1] + Sizes[b][e - 1]]
<1> DEFINE s == Base[b]
           L == Len(Sizes[b]) + 1
           z == Sizes[b]
           Loop(f, m) == f = [e \in 1 .. m |-> IF e = 1 THEN s ELSE f[e - 1] + z[e - 1]]
           T == {m \in Int : \E f : Loop(f, m)}
<1>1. L \in Int /\ 1 <= L
  BY DmaAssumption
<1> HIDE DEF s, L, z
<1>2. 1 \in T
  <2>1. Loop([e \in 1 .. 1 |-> s], 1)
    <3>1. \A e \in 1 .. 1 : e = 1
      OBVIOUS
    <3> QED  BY <3>1, Zenon
  <2>2. 1 \in Int
    OBVIOUS
  <2> QED  BY <2>1, <2>2, Zenon
<1>3. ASSUME NEW m \in 1 .. L, m < L, m \in T PROVE m + 1 \in T
  <2>1. PICK f : Loop(f, m)
    BY <1>3, Zenon
  <2> DEFINE g == [e \in 1 .. m + 1 |-> IF e <= m THEN f[e] ELSE f[e - 1] + z[e - 1]]
  <2>2. ASSUME NEW e \in 1 .. m + 1
        PROVE  g[e] = IF e = 1 THEN s ELSE g[e - 1] + z[e - 1]
    <3>1. CASE e = 1
      <4>1. e \in 1 .. m /\ e <= m
        BY <1>1, <3>1
      <4> QED  BY <2>1, <3>1, <4>1, Zenon
    <3>2. CASE e # 1
      <4>1. e - 1 \in 1 .. m /\ e - 1 \in 1 .. m + 1 /\ e - 1 <= m
        BY <1>1, <3>2
      <4>2. g[e - 1] = f[e - 1]
        BY <4>1, Zenon
      <4>3. CASE e <= m
        <5>1. e \in 1 .. m
          BY <1>1, <4>3
        <5> QED  BY <2>1, <3>2, <4>2, <4>3, <5>1, Zenon
      <4>4. CASE ~(e <= m)
        BY <3>2, <4>2, <4>4, Zenon
      <4> QED  BY <4>3, <4>4, Zenon
    <3> QED  BY <3>1, <3>2, Zenon
  <2>3. Loop(g, m + 1)
    <3> DEFINE h == [e \in 1 .. m + 1 |-> IF e = 1 THEN s ELSE g[e - 1] + z[e - 1]]
    <3>1. \A e \in 1 .. m + 1 : g[e] = h[e]
      BY <2>2, Zenon
    <3> QED  BY <3>1, ZenonT(30)
  <2>4. m + 1 \in Int
    BY <1>1
  <2> QED  BY <2>3, <2>4, Zenon
<1> HIDE DEF T
<1>4. L \in T
  <2>0. 1 \in Int
    OBVIOUS
  <2>1. \A i \in 1 .. L : i \in T
    BY <1>1, <1>2, <1>3, <2>0, Upwards, Zenon
  <2> QED  BY <1>1, <2>1
<1>5. \E f : Loop(f, L)
  BY <1>4, Zenon DEF T
<1>6. EntryStarts(b) = CHOOSE f : Loop(f, L)
  BY DEF EntryStarts, s, L, z
<1>7. Loop(EntryStarts(b), L)
  BY <1>5, <1>6, Zenon
<1> QED  BY <1>7, Zenon DEF s, L, z

\* So they fill the buffer from its base: no entry ends behind the buffer.
LEMMA Entries ==
    ASSUME Induction, NEW b \in Sg
    PROVE  /\ Len(Sizes[b]) \in Nat \ {0} /\ DOMAIN Sizes[b] = 1 .. Len(Sizes[b])
           /\ \A e \in 1 .. Len(Sizes[b]) : Sizes[b][e] \in Nat \ {0}
           /\ Base[b] \in Nat /\ Base[b] > Trash /\ Total(b) \in Nat \ {0}
           /\ Entry(b, 1) = Base[b] /\ Entry(b, Len(Sizes[b]) + 1) = Base[b] + Total(b)
           /\ \A e \in 1 .. Len(Sizes[b]) + 1 : Entry(b, e) \in Nat
           /\ \A e \in 1 .. Len(Sizes[b]) : Entry(b, e + 1) = Entry(b, e) + Sizes[b][e]
           /\ \A d, e \in 1 .. Len(Sizes[b]) + 1 : d <= e => Entry(b, d) <= Entry(b, e)
<1> DEFINE L == Len(Sizes[b])
           z == Sizes[b]
           s == Base[b]
           E(e) == Entry(b, e)
<1>1. L \in Nat \ {0} /\ DOMAIN z = 1 .. L /\ \A e \in 1 .. L : z[e] \in Nat \ {0}
  BY DmaAssumption, SizesAssumption
<1>2. s \in Nat /\ s > Trash
  BY DmaAssumption, Zenon DEF Buffers
<1>3. \A e \in 1 .. L + 1 : E(e) = IF e = 1 THEN s ELSE E(e - 1) + z[e - 1]
  BY StartsDefined, ZenonT(30) DEF Entry
<1> HIDE DEF L, z, s, E
<1>4. E(1) = s /\ \A e \in 1 .. L : E(e + 1) = E(e) + z[e]
  <2>1. 1 \in 1 .. L + 1
    BY <1>1
  <2>2. \A e \in 1 .. L : e + 1 \in 1 .. L + 1 /\ e + 1 # 1 /\ (e + 1) - 1 = e
    BY <1>1
  <2> QED  BY <1>3, <2>1, <2>2, Zenon
<1>5. ASSUME NEW d \in 1 .. L + 1, E(d) \in Nat
      PROVE  \A e \in d .. L + 1 : E(e) \in Nat /\ E(d) <= E(e)
  <2> DEFINE T == {e \in Int : E(e) \in Nat /\ E(d) <= E(e)}
  <2>1. d \in T /\ d \in Int /\ L + 1 \in Int
    BY <1>1, <1>5
  <2>2. ASSUME NEW e \in d .. L + 1, e < L + 1, e \in T PROVE e + 1 \in T
    <3>1. e \in 1 .. L
      BY <1>1, <2>2
    <3>2. E(e + 1) = E(e) + z[e] /\ z[e] \in Nat /\ E(e) \in Nat /\ E(d) <= E(e)
      BY <1>1, <1>4, <2>2, <3>1, Zenon
    <3>3. E(e + 1) \in Nat /\ E(d) <= E(e + 1) /\ e + 1 \in Int
      BY <1>5, <3>2
    <3> QED  BY <3>3, Zenon
  <2> HIDE DEF T
  <2>3. \A e \in d .. L + 1 : e \in T
    BY <2>1, <2>2, Upwards, Zenon
  <2> QED  BY <2>3, Zenon DEF T
<1>6. \A e \in 1 .. L + 1 : E(e) \in Nat /\ s <= E(e)
  <2>1. 1 \in 1 .. L + 1
    BY <1>1
  <2> QED  BY <1>2, <1>4, <1>5, <2>1, Zenon
<1>7. ASSUME NEW d \in 1 .. L + 1, NEW e \in 1 .. L + 1, d <= e PROVE E(d) <= E(e)
  <2>1. e \in d .. L + 1
    BY <1>1, <1>7
  <2> QED  BY <1>5, <1>6, <2>1, Zenon
<1>8. E(L + 1) = E(L) + z[L] /\ z[L] \in Nat \ {0} /\ E(L) \in Nat /\ s <= E(L)
  <2>1. L \in 1 .. L /\ L \in 1 .. L + 1
    BY <1>1
  <2> QED  BY <1>1, <1>4, <1>6, <2>1, Zenon
<1>9. Total(b) = E(L + 1) - s
  BY Zenon DEF Total, Entry, E, L, s
<1>10. Total(b) \in Nat \ {0} /\ E(L + 1) = s + Total(b)
  BY <1>2, <1>8, <1>9
<1> QED  BY <1>1, <1>2, <1>4, <1>6, <1>7, <1>10, Zenon DEF L, z, s, E

-----------------------------------------------------------------------------
(* The address ranges.                                                     *)

IovaRanges == [lo : Int, n : Nat]

\* The inductive strengthening of RangesApart: a buffer's range is allocated, to it alone, and
\* allocated ranges are apart.  A range may be allocated to nobody: that of a map
\* which failed at its first entry.
RangesInv ==
    /\ rng \in [Buffers -> IovaRanges] /\ ranges \subseteq IovaRanges
    /\ TrashRange \in ranges /\ NoRange \notin ranges
    /\ \A o \in Buffers : rng[o] = NoRange \/ rng[o] \in ranges \ {TrashRange}
    /\ \A a, b \in Buffers : a # b /\ rng[a] = rng[b] => rng[a] = NoRange
    /\ \A r, s \in ranges : r # s => Pages(r) \cap Pages(s) = {}

\* A buffer that may be given a range has none: it is not mapped, or its map
\* counts as done with nothing mapped.
Unmapped ==
    /\ pc \in [Buffers -> PCs] /\ nents \in [Sg -> Nat]
    /\ \A o \in Buffers : pc[o] = "off" => rng[o] = NoRange
    /\ \A b \in Sg : pc[b] = "on" /\ nents[b] = 0 => rng[b] = NoRange

-----------------------------------------------------------------------------
\* The trash range is a range, and an empty one has no pages.
LEMMA Trashing ==
    /\ TrashRange \in IovaRanges /\ TrashRange # NoRange
    /\ Pages(NoRange) = {} /\ NoRange \in IovaRanges
<1>1. Top \in Int /\ TrashSize \in Nat /\ TrashSize > 0
  <2>1. NL1 * NL2 \in Int
    BY DmaAssumption
  <2> QED
    BY <2>1, DmaAssumption DEF Top
<1> QED
  BY <1>1 DEF TrashRange, IovaRanges, NoRange, Pages

\* alloc_iova finds a range that is apart from those allocated.
LEMMA AllocApart ==
    ASSUME RangesInv, NEW o \in Buffers, rng[o] = NoRange, NEW n \in Nat \ {0}, NEW next,
           AllocIova(o, n, next)
    PROVE  RangesInv'
<1>1. PICK r \in Gaps(n) : ranges' = ranges \cup {r} /\ rng' = [rng EXCEPT ![o] = r]
  BY Zenon DEF AllocIova
<1>2. /\ r.n = n /\ r \in IovaRanges /\ r # NoRange /\ Pages(r) \cap Taken = {}
      /\ r.lo \in Pages(r)
  BY <1>1 DEF Gaps, IovaRanges, NoRange, Pages
<1>3. \A s \in ranges : Pages(s) \subseteq Taken
  BY Zenon DEF Taken, Pages
<1>4. r \notin ranges
  BY <1>2, <1>3, Zenon
<1>5. \A s \in ranges : Pages(r) \cap Pages(s) = {}
  BY <1>2, <1>3, Zenon
<1>6. \A a \in Buffers : rng'[a] = IF a = o THEN r ELSE rng[a]
  BY <1>1, Zenon DEF RangesInv
<1>7. rng' \in [Buffers -> IovaRanges] /\ ranges' \subseteq IovaRanges
  BY <1>1, <1>2, Zenon DEF RangesInv
<1>8. \A a, b \in Buffers : a # b /\ rng'[a] = rng'[b] => rng'[a] = NoRange
  BY <1>2, <1>4, <1>6 DEF RangesInv
<1>9. \A s, t \in ranges' : s # t => Pages(s) \cap Pages(t) = {}
  BY <1>1, <1>5, Zenon DEF RangesInv
<1>10. \A a \in Buffers : rng'[a] = NoRange \/ rng'[a] \in ranges' \ {TrashRange}
  BY <1>1, <1>4, <1>6, Zenon DEF RangesInv
<1> QED
  BY <1>1, <1>2, <1>7, <1>8, <1>9, <1>10, Zenon DEF RangesInv, TrashRange

\* free_iova gives back the range of one buffer.
LEMMA FreeApart ==
    ASSUME RangesInv, NEW o \in Buffers,
           ranges' = ranges \ {rng[o]}, rng' = [rng EXCEPT ![o] = NoRange]
    PROVE  RangesInv'
<1>1. \A a \in Buffers : rng'[a] = IF a = o THEN NoRange ELSE rng[a]
  BY Zenon DEF RangesInv
<1>2. NoRange \in IovaRanges
  BY DEF NoRange, IovaRanges
<1>3. rng[o] # TrashRange
  BY Trashing, Zenon DEF RangesInv
<1>4. \A a \in Buffers : rng'[a] = NoRange \/ rng'[a] \in ranges' \ {TrashRange}
  BY <1>1, Zenon DEF RangesInv
<1> QED
  BY <1>1, <1>2, <1>3, <1>4, Zenon DEF RangesInv, TrashRange

-----------------------------------------------------------------------------
\* A step of a thread that maps or unmaps a frame buffer.
LEMMA SgApart ==
    ASSUME Induction, RangesInv, Unmapped, NEW b \in Sg, SgStep(b)
    PROVE  RangesInv' /\ Unmapped'
<1>1. b \in Buffers /\ Len(Sizes[b]) \in Nat \ {0} /\ Total(b) \in Nat \ {0}
      /\ NoRange \in IovaRanges
  BY Entries DEF Buffers, NoRange, IovaRanges
<1> USE DEF Unmapped, Goto, dmaVars, PCs
<1>2. CASE MapSg(b)
  <2>1. RangesInv'
    BY <1>1, <1>2, AllocApart, Zenon DEF MapSg
  <2>2. Unmapped'
    BY <1>1, <1>2 DEF MapSg, AllocIova, RangesInv
  <2> QED
    BY <2>1, <2>2, Zenon
<1>3. CASE MapSgFull(b)
  BY <1>1, <1>3 DEF MapSgFull, RangesInv, TrashRange
<1>4. CASE MapEntry(b)
  <2>1. /\ UNCHANGED <<ranges, rng>>
        /\ \/ UNCHANGED <<pc, nents>>
           \/ /\ pc' = [pc EXCEPT ![b] = "on"]
              /\ nents' = [nents EXCEPT ![b] = Len(Sizes[b])]
    BY <1>4, Zenon DEF MapEntry
  <2>2. RangesInv'
    BY <2>1, Zenon DEF RangesInv
  <2>3. Unmapped'
    <3>1. CASE UNCHANGED <<pc, nents>>
      BY <3>1, <2>1, Zenon
    <3>2. CASE /\ pc' = [pc EXCEPT ![b] = "on"]
               /\ nents' = [nents EXCEPT ![b] = Len(Sizes[b])]
      <4>1. /\ \A o \in Buffers : pc'[o] = IF o = b THEN "on" ELSE pc[o]
            /\ \A o \in Sg : nents'[o] = IF o = b THEN Len(Sizes[b]) ELSE nents[o]
        BY <3>2, Zenon
      <4>2. pc' \in [Buffers -> PCs] /\ nents' \in [Sg -> Nat]
        BY <3>2, <1>1, Zenon
      <4> QED
        BY <4>1, <4>2, <2>1, <1>1, Zenon DEF Buffers
    <3> QED
      BY <3>1, <3>2, <2>1, Zenon
  <2> QED
    BY <2>2, <2>3
<1>5. CASE MapEntryFails(b)
  <2>1. /\ pc[b] = "map" /\ UNCHANGED <<ranges, nents>>
        /\ \/ pc' = [pc EXCEPT ![b] = "on"] /\ rng' = [rng EXCEPT ![b] = NoRange]
           \/ pc' = [pc EXCEPT ![b] = "restore"] /\ UNCHANGED rng
    BY <1>5, Zenon DEF MapEntryFails
  <2>2. RangesInv'
    BY <2>1, <1>1 DEF RangesInv
  <2>3. Unmapped'
    <3>1. CASE pc' = [pc EXCEPT ![b] = "on"] /\ rng' = [rng EXCEPT ![b] = NoRange]
      <4>1. \A o \in Buffers : /\ pc'[o] = IF o = b THEN "on" ELSE pc[o]
                               /\ rng'[o] = IF o = b THEN NoRange ELSE rng[o]
        BY <3>1, Zenon DEF RangesInv
      <4>2. pc' \in [Buffers -> PCs]
        BY <3>1, Zenon
      <4> QED
        BY <4>1, <4>2, <2>1, <1>1, SizesAssumption, Zenon DEF Buffers
    <3>2. CASE pc' = [pc EXCEPT ![b] = "restore"] /\ UNCHANGED rng
      BY <3>2, <2>1, <1>1
    <3> QED
      BY <3>1, <3>2, <2>1, Zenon
  <2> QED
    BY <2>2, <2>3
<1>6. CASE UnmapSg(b)
  BY <1>1, <1>6 DEF UnmapSg, RangesInv, TrashRange
<1>7. CASE Restore(b)
  BY <1>1, <1>7 DEF Restore, RangesInv, TrashRange
<1>8. CASE UnmapTable(b)
  BY <1>1, <1>8 DEF UnmapTable, RangesInv, TrashRange, UnmapRange
<1>9. CASE Invalidate(b)
  BY <1>1, <1>9 DEF Invalidate, RangesInv, TrashRange
<1>10. CASE FreeIova(b)
  <2>1. RangesInv'
    BY <1>1, <1>10, FreeApart, Zenon DEF FreeIova
  <2>2. Unmapped'
    BY <1>1, <1>10 DEF FreeIova, RangesInv
  <2> QED
    BY <2>1, <2>2
<1> QED
  BY <1>2, <1>3, <1>4, <1>5, <1>6, <1>7, <1>8, <1>9, <1>10, Zenon DEF SgStep

\* A step of a thread that allocates or frees a coherent buffer.
LEMMA CohApart ==
    ASSUME RangesInv, Unmapped, NEW c \in Coherent, CohStep(c)
    PROVE  RangesInv' /\ Unmapped'
<1>1. c \in Buffers /\ c \notin Sg /\ CohSize \in Nat \ {0} /\ NoRange \in IovaRanges
      /\ \A b \in Sg : b # c /\ b \in Buffers
  BY SizesAssumption, DmaAssumption DEF Buffers, NoRange, IovaRanges
<1> USE DEF Unmapped, Goto, dmaVars, PCs
<1>2. CASE CohAlloc(c)
  <2>1. RangesInv'
    BY <1>1, <1>2, AllocApart, Zenon DEF CohAlloc
  <2>2. Unmapped'
    BY <1>1, <1>2 DEF CohAlloc, AllocIova, RangesInv
  <2> QED
    BY <2>1, <2>2, Zenon
<1>3. CASE CohPages(c)
  BY <1>1, <1>3, Zenon DEF CohPages, RangesInv, TrashRange
<1>4. CASE CohPagesFail(c)
  BY <1>1, <1>4, Zenon DEF CohPagesFail, RangesInv, TrashRange
<1>5. CASE CohMapPage(c)
  BY <1>1, <1>5, Zenon DEF CohMapPage, RangesInv, TrashRange
<1>6. CASE CohMapFails(c)
  BY <1>1, <1>6, Zenon DEF CohMapFails, RangesInv, TrashRange
<1>7. CASE CohVmap(c)
  BY <1>1, <1>7, Zenon DEF CohVmap, RangesInv, TrashRange
<1>8. CASE CohVmapFails(c)
  BY <1>1, <1>8, Zenon DEF CohVmapFails, RangesInv, TrashRange
<1>9. CASE CohListAdd(c)
  BY <1>1, <1>9, Zenon DEF CohListAdd, RangesInv, TrashRange
<1>10. CASE CohUnwind(c)
  BY <1>1, <1>10, Zenon DEF CohUnwind, RangesInv, TrashRange
<1>11. CASE CohUnwound(c)
  BY <1>1, <1>11, Zenon DEF CohUnwound, RangesInv, TrashRange
<1>12. CASE CohFree(c)
  BY <1>1, <1>12, Zenon DEF CohFree, RangesInv, TrashRange
<1>13. CASE CohFreeLost(c)
  BY <1>1, <1>13, Zenon DEF CohFreeLost, RangesInv, TrashRange
<1>14. CASE CohUnmap(c)
  BY <1>1, <1>14, Zenon DEF CohUnmap, RangesInv, TrashRange, UnmapRange
<1>15. CASE CohDrop(c)
  BY <1>1, <1>15, Zenon DEF CohDrop, RangesInv, TrashRange
<1>16. CASE CohFreeIova(c)
  <2>1. RangesInv'
    BY <1>1, <1>16, FreeApart, Zenon DEF CohFreeIova
  <2>2. Unmapped'
    BY <1>1, <1>16, Zenon DEF CohFreeIova, RangesInv
  <2> QED
    BY <2>1, <2>2
<1>17. CASE Invalidate(c)
  BY <1>1, <1>17, Zenon DEF Invalidate, RangesInv, TrashRange
<1> QED
  BY <1>2, <1>3, <1>4, <1>5, <1>6, <1>7, <1>8, <1>9, <1>10, <1>11, <1>12, <1>13, <1>14, <1>15, <1>16, <1>17, Zenon DEF CohStep

\* Every step keeps the ranges apart; the device allocates none.
LEMMA RangesStep ==
    Induction /\ RangesInv /\ Unmapped /\ [Next]_vars => RangesInv' /\ Unmapped'
<1> SUFFICES ASSUME Induction, RangesInv, Unmapped, [Next]_vars PROVE RangesInv' /\ Unmapped'
  BY Zenon
<1>1. CASE Device \/ UNCHANGED vars
  <2>1. UNCHANGED <<ranges, rng, pc, nents>>
    BY <1>1, Zenon DEF Device, HwInit, HwCleanup, PowerOff, PowerOffFails, Fetch, vars, dmaVars
  <2> QED
    BY <2>1, Zenon DEF RangesInv, Unmapped
<1> QED
  BY <1>1, SgApart, CohApart, Zenon DEF Next

-----------------------------------------------------------------------------
(* What the page table holds: the trash range, and of each buffer what its *)
(* thread has mapped so far.                                               *)

\* The pages of o that the table leads to.
Mapping == {"map", "on", "restore", "table", "pages", "vmap", "list", "unwind", "lost"}
Depth(o) == IF o \in Sg THEN Entry(o, ent[o] + 1) - Base[o] ELSE ent[o]
Live(o) == IF pc[o] \in Mapping /\ rng[o] # NoRange THEN Depth(o) ELSE 0
Prefix(o) == rng[o].lo .. rng[o].lo + Live(o) - 1

\* They are there, and there is nothing else.
Exact ==
    /\ \A p \in Pages(TrashRange) : At(pt, p) = Trash
    /\ \A o \in Buffers : \A p \in Prefix(o) : At(pt, p) = Base[o] + (p - rng[o].lo)
    /\ \A p \in 0 .. Top : \/ p \in Pages(TrashRange) \/ At(pt, p) = Dummy
                           \/ \E o \in Buffers : p \in Prefix(o)

\* Where the thread of a buffer is: how far it has mapped, and what addresses the
\* scatter list has.
Addresses(b) ==
    [e \in DOMAIN Sizes[b] |->
        IF e <= ent[b] THEN rng[b].lo + Entry(b, e) - Base[b] ELSE Entry(b, e)]
SgOK(b) ==
    /\ pc[b] \in {"off", "map", "on", "restore", "table", "inval", "free"}
    /\ pc[b] \in {"off", "map"} => nents[b] = 0
    /\ pc[b] \in {"map", "restore", "table"} => rng[b] # NoRange
    /\ pc[b] = "map" => ent[b] # Len(Sizes[b])
    /\ pc[b] = "on" /\ nents[b] # 0 => rng[b] # NoRange
    /\ nents[b] # 0 => ent[b] = Len(Sizes[b])
    /\ ent[b] <= Len(Sizes[b])
    /\ sg[b] = IF pc[b] \in {"map", "restore"} \/ (pc[b] = "on" /\ nents[b] # 0)
               THEN Addresses(b) ELSE PciAddresses(b)
CohOK(c) ==
    /\ pc[c] # "restore"
    /\ pc[c] # "off" => rng[c] # NoRange
    /\ pc[c] = "pages" => ent[c] = 0
    /\ pc[c] = "map" => ent[c] # CohSize
    /\ pc[c] \in {"vmap", "list", "on", "table", "lost"} => ent[c] = CohSize
    /\ ent[c] <= CohSize
    /\ pc[c] \in Mapping \ {"pages"} => c \in inuse
Placed(o) ==
    rng[o] # NoRange =>
        /\ rng[o].lo \in Nat /\ rng[o].lo >= 1 /\ rng[o].n = SizeOf(o)
        /\ rng[o].lo + rng[o].n - 1 <= Top
BufOK(o) == Placed(o) /\ (o \in Sg => SgOK(o)) /\ (o \in Coherent => CohOK(o))

\* The inductive strengthening of MappedTranslates, PciAddressesBack and
\* TableAllocated.
MapInv ==
    /\ pt \in Tables /\ ent \in [Buffers -> Nat] /\ sg = [b \in Sg |-> sg[b]]
    /\ \A o \in Buffers : BufOK(o)
    /\ Exact

\* That of TlbCurrent: a translation the device holds is of the trash range or of
\* a buffer that the device has been given, and it is the table's until the
\* buffer is unmapped.
Given == {"on", "restore", "table", "lost"}
TlbOK ==
    \/ unflushed \/ tlb = NoTlb
    \/ tlb.page \in Pages(TrashRange) /\ tlb.frame = At(pt, tlb.page)
    \/ \E o \in Buffers :
          /\ tlb.page \in Pages(rng[o])
          /\ pc[o] \in {"drop", "inval"} \/ (pc[o] \in Given /\ tlb.frame = At(pt, tlb.page))
PowerOK == ~power => tlb = NoTlb /\ ~ready

-----------------------------------------------------------------------------
\* What is mapped of a buffer is in its range, and in the aperture.
LEMMA PrefixIn ==
    ASSUME Induction, NEW o \in Buffers, BufOK(o), ent[o] \in Nat, rng[o] \in IovaRanges
    PROVE  /\ Live(o) \in Nat /\ Live(o) <= SizeOf(o) /\ SizeOf(o) \in Nat \ {0}
           /\ Prefix(o) \subseteq Pages(rng[o]) /\ Pages(rng[o]) \subseteq 0 .. Top
<1>1. SizeOf(o) \in Nat \ {0} /\ Top \in Nat
  BY Entries, Numbers, DmaAssumption, Zenon DEF SizeOf
<1>2. Depth(o) \in Nat /\ Depth(o) <= SizeOf(o)
  <2>1. CASE o \in Sg
    <3>1. /\ Len(Sizes[o]) \in Nat \ {0} /\ Base[o] \in Nat /\ Entry(o, 1) = Base[o]
          /\ Entry(o, Len(Sizes[o]) + 1) = Base[o] + Total(o)
          /\ \A e \in 1 .. Len(Sizes[o]) + 1 : Entry(o, e) \in Nat
          /\ \A d, e \in 1 .. Len(Sizes[o]) + 1 : d <= e => Entry(o, d) <= Entry(o, e)
          /\ Total(o) \in Nat
      BY <2>1, Entries, Zenon
    <3>2. ent[o] <= Len(Sizes[o])
      BY <2>1, Zenon DEF BufOK, SgOK
    <3>3. /\ 1 \in 1 .. Len(Sizes[o]) + 1 /\ ent[o] + 1 \in 1 .. Len(Sizes[o]) + 1
          /\ Len(Sizes[o]) + 1 \in 1 .. Len(Sizes[o]) + 1
          /\ 1 <= ent[o] + 1 /\ ent[o] + 1 <= Len(Sizes[o]) + 1
      <4>1. PICK m, k : m = Len(Sizes[o]) /\ k = ent[o]
        BY Zenon
      <4>2. m \in Nat /\ k \in Nat /\ k <= m
        BY <1>1, <3>1, <3>2, <4>1, Zenon
      <4>3. 1 \in 1 .. m + 1 /\ k + 1 \in 1 .. m + 1 /\ m + 1 \in 1 .. m + 1 /\ 1 <= k + 1 /\ k + 1 <= m + 1
        BY <4>2
      <4> QED  BY <4>1, <4>3, Zenon
    <3>4. /\ Entry(o, ent[o] + 1) \in Nat /\ Base[o] <= Entry(o, ent[o] + 1)
          /\ Entry(o, ent[o] + 1) <= Base[o] + Total(o)
      BY <3>1, <3>3, Zenon
    <3>5. Depth(o) = Entry(o, ent[o] + 1) - Base[o] /\ SizeOf(o) = Total(o)
      BY <2>1, Zenon DEF Depth, SizeOf
    <3> QED  BY <3>1, <3>4, <3>5
  <2>2. CASE o \notin Sg
    BY <2>2, Zenon DEF Depth, SizeOf, BufOK, CohOK, Buffers
  <2> QED  BY <2>1, <2>2, Zenon
<1>3. Live(o) \in Nat /\ Live(o) <= SizeOf(o) /\ (rng[o] = NoRange => Live(o) = 0)
  BY <1>1, <1>2 DEF Live
<1>4. CASE rng[o] = NoRange
  BY <1>1, <1>3, <1>4 DEF NoRange, Prefix, Pages
<1>5. CASE rng[o] # NoRange
  <2>1. /\ rng[o].lo \in Nat /\ rng[o].n = SizeOf(o) /\ rng[o].lo + rng[o].n - 1 <= Top
    BY <1>5, Zenon DEF BufOK, Placed
  <2> QED  BY <1>1, <1>3, <2>1 DEF Prefix, Pages
<1> QED  BY <1>1, <1>3, <1>4, <1>5, Zenon

\* Allocated ranges are apart, whoever they belong to.
LEMMA Apart ==
    ASSUME RangesInv
    PROVE  RangesApart
BY Trashing, Zenon DEF RangesInv, RangesApart

\* A step of the thread of o that changes what the tables hold in W only, and has
\* mapped what it says: it has W in o's range, and what it takes from the device
\* it is about to invalidate.
Others(o) ==
    /\ \A x \in Buffers \ {o} : pc'[x] = pc[x] /\ rng'[x] = rng[x] /\ ent'[x] = ent[x]
    /\ \A b \in Sg \ {o} : sg'[b] = sg[b] /\ nents'[b] = nents[b]
    /\ \A c \in Coherent \ {o} : c \in inuse' <=> c \in inuse
Watched(o, W) ==
    \/ pc[o] \notin Given \cup {"drop", "inval"} \/ rng[o] = NoRange
    \/ rng'[o] = rng[o] /\ pc'[o] \in {"drop", "inval"}
    \/ rng'[o] = rng[o] /\ W = {} /\ pc[o] \in Given /\ pc'[o] \in Given
Shaped == pt \in Tables /\ ent \in [Buffers -> Nat] /\ sg = [b \in Sg |-> sg[b]]
Changes(o, W) ==
    /\ Shaped' /\ Others(o) /\ BufOK(o)'
    /\ W \subseteq Pages(rng[o])
    /\ \A p \in 0 .. Top : p \notin W => At(pt', p) = At(pt, p)
    /\ \A p \in Prefix(o)' : At(pt', p) = Base[o] + (p - rng'[o].lo)
    /\ \A p \in 0 .. Top : p \in Prefix(o) \/ p \in W => p \in Prefix(o)' \/ At(pt', p) = Dummy
StepOf(o, W) == Changes(o, W) /\ Watched(o, W)

\* What another buffer has mapped stays.
LEMMA OthersKept ==
    ASSUME NEW o \in Buffers, Others(o), NEW x \in Buffers \ {o}, BufOK(x)
    PROVE  /\ BufOK(x)' /\ Prefix(x)' = Prefix(x)
           /\ pc'[x] = pc[x] /\ rng'[x] = rng[x] /\ ent'[x] = ent[x]
<1>1. /\ pc'[x] = pc[x] /\ rng'[x] = rng[x] /\ ent'[x] = ent[x]
      /\ x \in Sg => sg'[x] = sg[x] /\ nents'[x] = nents[x]
      /\ x \in Coherent => (x \in inuse' <=> x \in inuse)
  BY Zenon DEF Others
<1>2. Placed(x)'
  BY <1>1, Zenon DEF BufOK, Placed
<1>3. ASSUME x \in Sg PROVE SgOK(x)'
  <2>1. SgOK(x) /\ Addresses(x)' = Addresses(x)
    BY <1>1, <1>3, Zenon DEF BufOK, Addresses
  <2> QED  BY <1>1, <1>3, <2>1, Zenon DEF SgOK
<1>4. ASSUME x \in Coherent PROVE CohOK(x)'
  BY <1>1, <1>4, Zenon DEF BufOK, CohOK
<1>5. Prefix(x)' = Prefix(x)
  BY <1>1, Zenon DEF Prefix, Live, Depth
<1> QED  BY <1>1, <1>2, <1>3, <1>4, <1>5, Zenon DEF BufOK

\* Such a step keeps the invariant of the page table,
LEMMA StepKeeps ==
    ASSUME Induction, RangesInv, MapInv, NEW o \in Buffers, NEW W, Changes(o, W)
    PROVE  MapInv'
<1>1. /\ Shaped' /\ Others(o) /\ BufOK(o)' /\ W \subseteq Pages(rng[o])
      /\ \A p \in 0 .. Top : p \notin W => At(pt', p) = At(pt, p)
      /\ \A p \in Prefix(o)' : At(pt', p) = Base[o] + (p - rng'[o].lo)
      /\ \A p \in 0 .. Top : p \in Prefix(o) \/ p \in W => p \in Prefix(o)' \/ At(pt', p) = Dummy
  BY Zenon DEF Changes
<1>2. Exact /\ \A x \in Buffers : BufOK(x)
  BY Zenon DEF MapInv
<1>3. \A x \in Buffers : Prefix(x) \subseteq Pages(rng[x]) /\ Pages(rng[x]) \subseteq 0 .. Top
  BY <1>2, PrefixIn, Zenon DEF MapInv, RangesInv
<1>4. /\ \A x \in Buffers \ {o} : Pages(rng[x]) \cap Pages(rng[o]) = {}
      /\ Pages(rng[o]) \cap Pages(TrashRange) = {}
  BY Apart, Zenon DEF RangesApart
<1>5. \A x \in Buffers \ {o} : BufOK(x)' /\ Prefix(x)' = Prefix(x) /\ rng'[x] = rng[x]
  BY <1>1, <1>2, OthersKept, Zenon
<1>6. \A p \in Pages(TrashRange) : At(pt', p) = Trash
  <2>1. Pages(TrashRange) \subseteq 0 .. Top
    BY DmaAssumption, Numbers DEF Pages, TrashRange
  <2> QED  BY <1>1, <1>2, <1>4, <2>1, Zenon DEF Exact
<1>7. ASSUME NEW x \in Buffers, NEW p \in Prefix(x)' PROVE At(pt', p) = Base[x] + (p - rng'[x].lo)
  <2>1. CASE x = o
    BY <1>1, <1>7, <2>1, Zenon
  <2>2. CASE x # o
    <3>1. p \in Prefix(x) /\ p \in Pages(rng[x]) /\ p \in 0 .. Top /\ rng'[x] = rng[x]
      BY <1>3, <1>5, <1>7, <2>2, Zenon
    <3>2. p \notin W
      BY <1>1, <1>4, <2>2, <3>1, Zenon
    <3>3. At(pt', p) = At(pt, p)
      BY <1>1, <3>1, <3>2, Zenon
    <3> QED  BY <1>2, <3>1, <3>3, Zenon DEF Exact
  <2> QED  BY <2>1, <2>2, Zenon
<1>8. ASSUME NEW p \in 0 .. Top, p \notin Pages(TrashRange), At(pt', p) # Dummy
      PROVE  \E x \in Buffers : p \in Prefix(x)'
  <2>1. CASE p \in Prefix(o) \/ p \in W
    BY <1>1, <1>8, <2>1, Zenon
  <2>2. CASE p \notin Prefix(o) /\ p \notin W
    <3>1. At(pt, p) # Dummy
      BY <1>1, <1>8, <2>2, Zenon
    <3>2. PICK x \in Buffers : p \in Prefix(x)
      BY <1>2, <1>8, <3>1, Zenon DEF Exact
    <3> QED  BY <1>5, <2>2, <3>2, Zenon
  <2> QED  BY <2>1, <2>2, Zenon
<1>9. Exact'
  BY <1>6, <1>7, <1>8, Zenon DEF Exact
<1> QED  BY <1>1, <1>5, <1>9, Zenon DEF MapInv, Shaped

\* and that of the TLB, while the device does nothing.
LEMMA StepWatched ==
    ASSUME Induction, RangesInv, MapInv, TlbOK, NEW o \in Buffers, NEW W, StepOf(o, W), UNCHANGED hwVars
    PROVE  TlbOK'
<1>1. /\ Others(o) /\ W \subseteq Pages(rng[o]) /\ Watched(o, W)
      /\ \A p \in 0 .. Top : p \notin W => At(pt', p) = At(pt, p)
  BY Zenon DEF StepOf, Changes
<1>2. \A x \in Buffers : Pages(rng[x]) \subseteq 0 .. Top
  BY PrefixIn, Zenon DEF MapInv, RangesInv
<1>3. /\ \A x \in Buffers \ {o} : Pages(rng[x]) \cap Pages(rng[o]) = {}
      /\ Pages(rng[o]) \cap Pages(TrashRange) = {}
  BY Apart, Zenon DEF RangesApart
<1>4. tlb' = tlb /\ unflushed' = unflushed
  BY Zenon DEF hwVars
<1> DEFINE q == tlb.page
<1>5. CASE unflushed \/ tlb = NoTlb
  BY <1>4, <1>5, Zenon DEF TlbOK
<1>6. CASE q \in Pages(TrashRange) /\ tlb.frame = At(pt, q)
  <2>1. q \in 0 .. Top
    <3>1. Pages(TrashRange) \subseteq 0 .. Top
      BY DmaAssumption, Numbers DEF Pages, TrashRange
    <3> QED  BY <1>6, <3>1, Zenon
  <2>2. At(pt', q) = At(pt, q)
    BY <1>1, <1>3, <1>6, <2>1, Zenon
  <2> HIDE DEF q
  <2>3. tlb.frame = At(pt', q) /\ q \in Pages(TrashRange)
    BY <1>6, <2>2, Zenon
  <2> QED  BY <1>4, <2>3, Zenon DEF TlbOK, q
<1>7. ASSUME NEW x \in Buffers, q \in Pages(rng[x]),
             pc[x] \in {"drop", "inval"} \/ (pc[x] \in Given /\ tlb.frame = At(pt, q))
      PROVE  TlbOK'
  <2>0. q \in 0 .. Top
    BY <1>2, <1>7, Zenon
  <2> HIDE DEF q
  <2>1. CASE x # o
    <3>1. pc'[x] = pc[x] /\ rng'[x] = rng[x] /\ q \notin W
      BY <1>1, <1>3, <1>7, <2>1, Zenon DEF Others
    <3>2. At(pt', q) = At(pt, q)
      BY <1>1, <2>0, <3>1, Zenon
    <3>3. pc'[x] \in {"drop", "inval"} \/ (pc'[x] \in Given /\ tlb'.frame = At(pt', q))
      BY <1>4, <1>7, <3>1, <3>2, Zenon
    <3> QED  BY <1>4, <1>7, <3>1, <3>3, Zenon DEF TlbOK, q
  <2>2. CASE x = o
    <3>1. rng[o] # NoRange
      <4>1. Pages(NoRange) = {}
        BY Trashing, Zenon
      <4> QED  BY <1>7, <2>2, <4>1, Zenon
    <3>2. CASE rng'[o] = rng[o] /\ pc'[o] \in {"drop", "inval"}
      BY <1>4, <1>7, <2>2, <3>2, Zenon DEF TlbOK, q
    <3>3. CASE rng'[o] = rng[o] /\ W = {} /\ pc[o] \in Given /\ pc'[o] \in Given
      <4>1. At(pt', q) = At(pt, q)
        BY <1>1, <2>0, <3>3, Zenon
      <4>2. pc[o] \notin {"drop", "inval"}
        BY <3>3, Zenon DEF Given
      <4>3. pc'[o] \in Given /\ tlb'.frame = At(pt', q)
        BY <1>4, <1>7, <2>2, <3>3, <4>1, <4>2, Zenon
      <4> QED  BY <1>4, <1>7, <2>2, <3>3, <4>3, Zenon DEF TlbOK, q
    <3> QED  BY <1>1, <1>7, <2>2, <3>1, <3>2, <3>3, Zenon DEF Watched
  <2> QED  BY <2>1, <2>2, Zenon
<1> QED  BY <1>5, <1>6, <1>7, Zenon DEF TlbOK

-----------------------------------------------------------------------------
\* A step that leaves the page table alone, and what is mapped of the buffer.
Quiet(o) ==
    /\ pt' = pt /\ Shaped' /\ Others(o) /\ BufOK(o)' /\ Watched(o, {})
    /\ \/ Live(o) = 0 /\ Live(o)' = 0
       \/ Live(o)' = Live(o) /\ rng'[o] = rng[o]

\* Nothing mapped is no address.
LEMMA NoPrefix ==
    /\ \A o \in Buffers : rng[o] \in IovaRanges /\ Live(o) = 0 => Prefix(o) = {}
    /\ \A o \in Buffers : rng'[o] \in IovaRanges /\ Live(o)' = 0 => Prefix(o)' = {}
<1>1. \A r \in IovaRanges : r.lo .. r.lo + 0 - 1 = {}
  BY DEF IovaRanges
<1> QED  BY <1>1, Zenon DEF Prefix

\* It is a step that changes nothing in the tables.
LEMMA QuietStep ==
    ASSUME RangesInv, RangesInv', MapInv, NEW o \in Buffers, Quiet(o)
    PROVE  StepOf(o, {})
<1>1. \A p \in Prefix(o) : At(pt, p) = Base[o] + (p - rng[o].lo)
  BY Zenon DEF MapInv, Exact
<1>2. \/ Prefix(o) = {} /\ Prefix(o)' = {}
      \/ Prefix(o)' = Prefix(o) /\ rng'[o] = rng[o]
  BY NoPrefix, Zenon DEF Quiet, RangesInv, Prefix
<1> QED  BY <1>1, <1>2, Zenon DEF Quiet, StepOf, Changes

\* A thread changes the state of its own buffer.
LEMMA OwnStep ==
    ASSUME RangesInv, Unmapped, MapInv, NEW o \in Buffers,
           pc' = pc \/ \E v : pc' = [pc EXCEPT ![o] = v],
           rng' = rng \/ \E v : rng' = [rng EXCEPT ![o] = v],
           ent' = ent \/ \E v \in Nat : ent' = [ent EXCEPT ![o] = v],
           sg' = sg \/ \E v : sg' = [sg EXCEPT ![o] = v],
           nents' = nents \/ \E v : nents' = [nents EXCEPT ![o] = v],
           inuse' = inuse \/ inuse' = inuse \cup {o} \/ inuse' = inuse \ {o},
           pt' \in Tables
    PROVE  Others(o) /\ Shaped'
<1>1. /\ DOMAIN pc = Buffers /\ DOMAIN rng = Buffers /\ ent \in [Buffers -> Nat]
      /\ sg = [b \in Sg |-> sg[b]] /\ DOMAIN nents = Sg
      /\ pc = [x \in Buffers |-> pc[x]] /\ rng = [x \in Buffers |-> rng[x]]
      /\ nents = [b \in Sg |-> nents[b]]
  BY Zenon DEF Unmapped, RangesInv, MapInv
<1>2. Sg \subseteq Buffers /\ Coherent \subseteq Buffers
  BY Zenon DEF Buffers
<1>3. \A x \in Buffers \ {o} : pc'[x] = pc[x] /\ rng'[x] = rng[x] /\ ent'[x] = ent[x]
  BY <1>1, Zenon
<1>4. \A b \in Sg \ {o} : sg'[b] = sg[b] /\ nents'[b] = nents[b]
  <2>1. DOMAIN sg = Sg
    BY <1>1, Zenon
  <2> QED  BY <1>1, <2>1, Zenon
<1>5. ent' \in [Buffers -> Nat]
  BY <1>1, Zenon
<1>6. sg' = [b \in Sg |-> sg'[b]]
  BY <1>1, Zenon
<1> QED  BY <1>3, <1>4, <1>5, <1>6, Zenon DEF Others, Shaped

\* A scatter list of which nothing is mapped has its PCI addresses.
LEMMA NoneMapped ==
    ASSUME Induction, NEW b \in Sg
    PROVE  /\ ent[b] = 0 => Addresses(b) = PciAddresses(b)
           /\ ent'[b] = 0 => Addresses(b)' = PciAddresses(b)
<1>1. \A e \in DOMAIN Sizes[b] : ~(e <= 0)
  <2>1. DOMAIN Sizes[b] = 1 .. Len(Sizes[b]) /\ Len(Sizes[b]) \in Nat
    BY Entries, Zenon
  <2> QED  BY <2>1
<1> QED  BY <1>1, Zenon DEF Addresses, PciAddresses

\* The range alloc_iova finds.
LEMMA GapPlaced ==
    ASSUME NEW n \in Nat \ {0}, NEW r \in Gaps(n)
    PROVE  r # NoRange /\ r.lo \in Nat /\ r.lo >= 1 /\ r.n = n /\ r.lo + r.n - 1 <= Top
BY Numbers DEF Gaps, NoRange


-----------------------------------------------------------------------------
(* The threads that map and unmap frame buffers.                           *)

\* The facts about a frame buffer that most of its steps need.
LEMMA SgFacts ==
    ASSUME RangesInv, Unmapped, MapInv, NEW b \in Sg
    PROVE  /\ b \in Buffers /\ b \notin Coherent /\ SizeOf(b) = Total(b)
           /\ DOMAIN pc = Buffers /\ DOMAIN rng = Buffers /\ DOMAIN ent = Buffers
           /\ DOMAIN sg = Sg /\ DOMAIN nents = Sg
           /\ ent[b] \in Nat /\ nents[b] \in Nat /\ rng[b] \in IovaRanges
           /\ Placed(b) /\ SgOK(b) /\ pt \in Tables
           /\ BufOK(b)' <=> Placed(b)' /\ SgOK(b)'
BY SizesAssumption, Zenon DEF Buffers, RangesInv, Unmapped, MapInv, BufOK, SizeOf

\* alloc_iova for a buffer, found or not.
LEMMA MapSgQuiet ==
    ASSUME Induction, RangesInv, Unmapped, MapInv, NEW b \in Sg, MapSg(b) \/ MapSgFull(b)
    PROVE  Quiet(b)
<1>1. /\ b \in Buffers /\ b \notin Coherent /\ SizeOf(b) = Total(b)
      /\ DOMAIN pc = Buffers /\ DOMAIN rng = Buffers /\ DOMAIN ent = Buffers
      /\ Placed(b) /\ SgOK(b) /\ pt \in Tables
      /\ BufOK(b)' <=> Placed(b)' /\ SgOK(b)'
  BY SgFacts, Zenon
<1>2. pc[b] = "off" /\ rng[b] = NoRange /\ nents[b] = 0 /\ sg[b] = PciAddresses(b)
  <2>1. pc[b] = "off"
    BY Zenon DEF MapSg, MapSgFull
  <2> QED  BY <1>1, <2>1, Zenon DEF SgOK, Unmapped
<1>3. Total(b) \in Nat \ {0} /\ Len(Sizes[b]) \in Nat \ {0} /\ Base[b] \in Nat /\ Entry(b, 1) = Base[b]
  BY Entries, Zenon
<1>4. Watched(b, {}) /\ Live(b) = 0
  BY <1>2, Zenon DEF Watched, Live
<1>5. CASE MapSg(b)
  <2>1. PICK r \in Gaps(Total(b)) :
           /\ rng' = [rng EXCEPT ![b] = r] /\ ent' = [ent EXCEPT ![b] = 0]
           /\ pc' = [pc EXCEPT ![b] = "map"]
    BY <1>5, Zenon DEF MapSg, AllocIova, Goto
  <2>2. /\ rng'[b] = r /\ ent'[b] = 0 /\ pc'[b] = "map" /\ sg' = sg /\ nents' = nents
        /\ inuse' = inuse /\ pt' = pt
    BY <1>1, <1>5, <2>1, Zenon DEF MapSg, dmaVars, cohVars
  <2>3. r # NoRange /\ r.lo \in Nat /\ r.lo >= 1 /\ r.n = Total(b) /\ r.lo + r.n - 1 <= Top
    BY <1>3, GapPlaced, Zenon
  <2>4. Placed(b)'
    BY <1>1, <2>2, <2>3, Zenon DEF Placed
  <2>5. SgOK(b)'
    <3>1. Addresses(b)' = PciAddresses(b)
      BY <2>2, NoneMapped, Zenon
    <3>2. ent'[b] # Len(Sizes[b]) /\ ent'[b] <= Len(Sizes[b])
      BY <1>3, <2>2
    <3> QED  BY <1>2, <2>2, <2>3, <3>1, <3>2, Zenon DEF SgOK
  <2>6. Live(b)' = 0
    <3>1. 0 + 1 = 1 /\ Base[b] - Base[b] = 0
      BY <1>3
    <3>2. Depth(b)' = Entry(b, ent'[b] + 1) - Base[b]
      BY Zenon DEF Depth
    <3>3. Depth(b)' = 0
      BY <1>3, <2>2, <3>1, <3>2, Zenon
    <3> QED  BY <3>3, Zenon DEF Live
  <2>7. Others(b) /\ Shaped'
    <3>1. 0 \in Nat
      OBVIOUS
    <3> QED  BY <1>1, <2>1, <2>2, <3>1, OwnStep, Zenon
  <2> QED  BY <1>1, <1>4, <2>2, <2>4, <2>5, <2>6, <2>7, Zenon DEF Quiet
<1>6. CASE MapSgFull(b)
  <2>1. /\ pc' = [pc EXCEPT ![b] = "on"] /\ rng' = rng /\ ent' = ent /\ sg' = sg
        /\ nents' = nents /\ inuse' = inuse /\ pt' = pt
    BY <1>6, Zenon DEF MapSgFull, Goto, dmaVars, cohVars
  <2>2. pc'[b] = "on"
    BY <1>1, <2>1, Zenon
  <2>3. Placed(b)' /\ SgOK(b)'
    BY <1>1, <1>2, <2>1, <2>2, Zenon DEF Placed, SgOK
  <2>4. Live(b)' = 0
    BY <1>2, <2>1, Zenon DEF Live
  <2>5. Others(b) /\ Shaped'
    BY <1>1, <2>1, OwnStep, Zenon
  <2> QED  BY <1>1, <1>4, <2>1, <2>3, <2>4, <2>5, Zenon DEF Quiet
<1> QED  BY <1>5, <1>6, Zenon

\* The start of ipu6_dma_unmap_sg, and free_iova.
LEMMA UnmapSgQuiet ==
    ASSUME Induction, RangesInv, Unmapped, MapInv, NEW b \in Sg, UnmapSg(b) \/ FreeIova(b)
    PROVE  Quiet(b)
<1>1. /\ b \in Buffers /\ b \notin Coherent
      /\ DOMAIN pc = Buffers /\ DOMAIN rng = Buffers /\ DOMAIN ent = Buffers /\ DOMAIN nents = Sg
      /\ Placed(b) /\ SgOK(b) /\ pt \in Tables
      /\ BufOK(b)' <=> Placed(b)' /\ SgOK(b)'
  BY SgFacts, Zenon
<1>2. CASE UnmapSg(b)
  <2>1. /\ pc[b] = "on" /\ pc' = [pc EXCEPT ![b] = IF nents[b] = 0 THEN "off" ELSE "restore"]
        /\ rng' = rng /\ ent' = ent /\ sg' = sg /\ nents' = nents /\ inuse' = inuse /\ pt' = pt
    BY <1>2, Zenon DEF UnmapSg, Goto, dmaVars, cohVars
  <2>2. pc'[b] = IF nents[b] = 0 THEN "off" ELSE "restore"
    BY <1>1, <2>1, Zenon
  <2>3. Others(b) /\ Shaped'
    BY <1>1, <2>1, OwnStep, Zenon
  <2>4. Placed(b)'
    BY <1>1, <2>1, Zenon DEF Placed
  <2>5. CASE nents[b] = 0
    <3>1. rng[b] = NoRange
      BY <2>1, <2>5, Zenon DEF Unmapped
    <3>2. Live(b) = 0 /\ Live(b)' = 0 /\ Watched(b, {})
      BY <2>1, <3>1, Zenon DEF Live, Watched
    <3>3. SgOK(b)'
      BY <1>1, <2>1, <2>2, <2>5, Zenon DEF SgOK
    <3> QED  BY <1>1, <2>1, <2>3, <2>4, <3>2, <3>3, Zenon DEF Quiet
  <2>6. CASE nents[b] # 0
    <3>1. pc'[b] = "restore" /\ Addresses(b)' = Addresses(b)
      BY <2>1, <2>2, <2>6, Zenon DEF Addresses
    <3>2. Live(b)' = Live(b)
      BY <2>1, <3>1, Zenon DEF Live, Mapping, Depth
    <3>3. SgOK(b)'
      BY <1>1, <2>1, <2>6, <3>1, Zenon DEF SgOK
    <3>4. Watched(b, {})
      BY <2>1, <3>1, Zenon DEF Watched, Given
    <3> QED  BY <1>1, <2>1, <2>3, <2>4, <3>2, <3>3, <3>4, Zenon DEF Quiet
  <2> QED  BY <2>5, <2>6, Zenon
<1>3. CASE FreeIova(b)
  <2>1. /\ pc[b] = "free" /\ pc' = [pc EXCEPT ![b] = IF nents[b] = 0 THEN "on" ELSE "off"]
        /\ rng' = [rng EXCEPT ![b] = NoRange] /\ ent' = [ent EXCEPT ![b] = 0]
        /\ nents' = [nents EXCEPT ![b] = 0] /\ sg' = sg /\ inuse' = inuse /\ pt' = pt
    BY <1>3, Zenon DEF FreeIova, Goto, cohVars
  <2>2. /\ pc'[b] \in {"on", "off"} /\ rng'[b] = NoRange /\ ent'[b] = 0 /\ nents'[b] = 0
        /\ sg[b] = PciAddresses(b)
    BY <1>1, <2>1, Zenon DEF SgOK
  <2>3. Others(b) /\ Shaped'
    <3>1. 0 \in Nat
      OBVIOUS
    <3> QED  BY <1>1, <2>1, <3>1, OwnStep, Zenon
  <2>4. Placed(b)' /\ SgOK(b)'
    <3>1. 0 <= Len(Sizes[b])
      BY Entries
    <3> QED  BY <2>1, <2>2, <3>1, Zenon DEF Placed, SgOK
  <2>5. Live(b) = 0 /\ Live(b)' = 0 /\ Watched(b, {})
    BY <2>1, <2>2, Zenon DEF Live, Mapping, Watched, Given
  <2> QED  BY <1>1, <2>1, <2>3, <2>4, <2>5, Zenon DEF Quiet
<1> QED  BY <1>2, <1>3, Zenon

\* Where ipu6_dma_map_sg is when it maps an entry: the chunk follows what is
\* mapped, and it is in the range.
LEMMA NextChunk ==
    ASSUME Induction, RangesInv, Unmapped, MapInv, NEW b \in Sg, pc[b] = "map"
    PROVE  /\ rng[b] # NoRange /\ rng[b].lo \in Nat /\ nents[b] = 0
           /\ ent[b] + 1 \in 1 .. Len(Sizes[b]) /\ sg[b] = Addresses(b)
           /\ sg[b][ent[b] + 1] = Base[b] + Live(b) /\ Base[b] \in Nat
           /\ Live(b) \in Nat /\ NextIova(b) = rng[b].lo + Live(b)
           /\ Sizes[b][ent[b] + 1] \in Nat \ {0}
           /\ Entry(b, (ent[b] + 1) + 1) - Base[b] = Live(b) + Sizes[b][ent[b] + 1]
           /\ Live(b) + Sizes[b][ent[b] + 1] <= rng[b].n
           /\ rng[b].n \in Nat /\ rng[b].lo + rng[b].n - 1 <= Top /\ Top \in Nat
<1>1. /\ b \in Buffers /\ SizeOf(b) = Total(b) /\ ent[b] \in Nat /\ rng[b] \in IovaRanges
      /\ Placed(b) /\ SgOK(b)
  BY SgFacts, Zenon
<1>2. /\ Len(Sizes[b]) \in Nat \ {0} /\ DOMAIN Sizes[b] = 1 .. Len(Sizes[b])
      /\ \A e \in 1 .. Len(Sizes[b]) : Sizes[b][e] \in Nat \ {0}
      /\ Base[b] \in Nat /\ Total(b) \in Nat
      /\ Entry(b, 1) = Base[b] /\ Entry(b, Len(Sizes[b]) + 1) = Base[b] + Total(b)
      /\ \A e \in 1 .. Len(Sizes[b]) + 1 : Entry(b, e) \in Nat
      /\ \A e \in 1 .. Len(Sizes[b]) : Entry(b, e + 1) = Entry(b, e) + Sizes[b][e]
      /\ \A d, e \in 1 .. Len(Sizes[b]) + 1 : d <= e => Entry(b, d) <= Entry(b, e)
  BY Entries, Zenon
<1>3. /\ rng[b] # NoRange /\ rng[b].lo \in Nat /\ rng[b].n = Total(b)
      /\ rng[b].lo + rng[b].n - 1 <= Top /\ ent[b] <= Len(Sizes[b]) /\ ent[b] # Len(Sizes[b])
      /\ nents[b] = 0 /\ sg[b] = Addresses(b)
  BY <1>1, Zenon DEF SgOK, Placed
<1>4. PICK k : k = ent[b] + 1
  BY Zenon
<1>5. /\ k \in 1 .. Len(Sizes[b]) /\ k \in 1 .. Len(Sizes[b]) + 1 /\ k + 1 \in 1 .. Len(Sizes[b]) + 1
      /\ ~(k <= ent[b]) /\ 1 <= k /\ k + 1 <= Len(Sizes[b]) + 1 /\ 1 \in 1 .. Len(Sizes[b]) + 1
      /\ Len(Sizes[b]) + 1 \in 1 .. Len(Sizes[b]) + 1
  <2>1. \A L \in Nat \ {0}, d \in Nat : d <= L /\ d # L =>
           /\ d + 1 \in 1 .. L /\ d + 1 \in 1 .. L + 1 /\ (d + 1) + 1 \in 1 .. L + 1
           /\ ~(d + 1 <= d) /\ 1 <= d + 1 /\ (d + 1) + 1 <= L + 1 /\ 1 \in 1 .. L + 1
           /\ L + 1 \in 1 .. L + 1
    OBVIOUS
  <2> QED  BY <1>1, <1>2, <1>3, <1>4, <2>1, Zenon
<1>6. /\ Entry(b, k) \in Nat /\ Base[b] <= Entry(b, k) /\ Sizes[b][k] \in Nat \ {0}
      /\ Entry(b, k + 1) = Entry(b, k) + Sizes[b][k]
      /\ Entry(b, k + 1) <= Base[b] + Total(b)
  BY <1>2, <1>5, Zenon
<1>7. Live(b) = Entry(b, k) - Base[b] /\ NextIova(b) = rng[b].lo + Entry(b, k) - Base[b]
  BY <1>3, <1>4, Zenon DEF Live, Depth, Mapping, NextIova
<1>8. sg[b][k] = Entry(b, k)
  BY <1>2, <1>3, <1>5, Zenon DEF Addresses
<1>9. /\ sg[b][k] = Base[b] + Live(b) /\ Live(b) \in Nat /\ NextIova(b) = rng[b].lo + Live(b)
      /\ Entry(b, k + 1) - Base[b] = Live(b) + Sizes[b][k]
      /\ Live(b) + Sizes[b][k] <= rng[b].n
  <2>1. PICK s, t, x, z, lo :
           /\ s = Base[b] /\ t = Total(b) /\ x = Entry(b, k) /\ z = Sizes[b][k] /\ lo = rng[b].lo
    BY Zenon
  <2>3. /\ s \in Nat /\ t \in Nat /\ x \in Nat /\ z \in Nat \ {0} /\ lo \in Nat
        /\ s <= x /\ x + z <= s + t
    BY <1>2, <1>3, <1>6, <2>1, Zenon
  <2>4. /\ x = s + (x - s) /\ x - s \in Nat /\ lo + x - s = lo + (x - s)
        /\ (x + z) - s = (x - s) + z /\ (x - s) + z <= t
    BY <2>3
  <2> QED  BY <1>3, <1>6, <1>7, <1>8, <2>1, <2>4, Zenon
<1> QED  BY <1>2, <1>3, <1>4, <1>5, <1>6, <1>9, Numbers, Zenon

\* An entry is mapped: its pages follow those mapped before.
LEMMA MapEntryStep ==
    ASSUME Induction, RangesInv, Unmapped, MapInv, NEW b \in Sg, MapEntry(b)
    PROVE  StepOf(b, NextIova(b) .. NextIova(b) + Sizes[b][ent[b] + 1] - 1)
<1> DEFINE k == ent[b] + 1
           n == Sizes[b][k]
           i == NextIova(b)
           W == i .. i + n - 1
           r == rng[b]
<1>1. /\ b \in Buffers /\ b \notin Coherent
      /\ DOMAIN pc = Buffers /\ DOMAIN rng = Buffers /\ DOMAIN ent = Buffers
      /\ DOMAIN sg = Sg /\ DOMAIN nents = Sg
      /\ Placed(b) /\ SgOK(b) /\ pt \in Tables
      /\ BufOK(b)' <=> Placed(b)' /\ SgOK(b)'
  BY SgFacts, Zenon
<1>2. /\ pc[b] = "map" /\ pt' = l2_map(i, sg[b][k], n) /\ sg' = [sg EXCEPT ![b][k] = i]
      /\ ent' = [ent EXCEPT ![b] = k]
      /\ IF k = Len(Sizes[b])
         THEN pc' = [pc EXCEPT ![b] = "on"] /\ nents' = [nents EXCEPT ![b] = Len(Sizes[b])]
         ELSE pc' = pc /\ nents' = nents
      /\ rng' = rng /\ inuse' = inuse
  BY Zenon DEF MapEntry, Goto, cohVars
<1>3. /\ r # NoRange /\ r.lo \in Nat /\ nents[b] = 0
      /\ k \in 1 .. Len(Sizes[b]) /\ sg[b] = Addresses(b)
      /\ sg[b][k] = Base[b] + Live(b) /\ Base[b] \in Nat
      /\ Live(b) \in Nat /\ i = r.lo + Live(b)
      /\ n \in Nat \ {0} /\ Entry(b, k + 1) - Base[b] = Live(b) + n
      /\ Live(b) + n <= r.n /\ r.n \in Nat /\ r.lo + r.n - 1 <= Top /\ Top \in Nat
  BY <1>2, NextChunk, Zenon
<1>4. Len(Sizes[b]) \in Nat \ {0} /\ DOMAIN Sizes[b] = 1 .. Len(Sizes[b])
  BY Entries, Zenon
<1> HIDE DEF k, n, i
<1>5. /\ ent'[b] = k /\ sg'[b] = [sg[b] EXCEPT ![k] = i] /\ rng'[b] = r
      /\ IF k = Len(Sizes[b]) THEN pc'[b] = "on" /\ nents'[b] = Len(Sizes[b])
         ELSE pc'[b] = "map" /\ nents'[b] = 0
  BY <1>1, <1>2, <1>3, Zenon
<1>6. Live(b)' = Live(b) + n
  <2>1. pc'[b] \in Mapping
    BY <1>5, Zenon DEF Mapping
  <2> QED  BY <1>3, <1>5, <2>1, Zenon DEF Live, Depth
<1>7. /\ i \in Nat /\ i + n - 1 \in 0 .. Top /\ Base[b] + Live(b) \in Nat
      /\ W \subseteq r.lo .. r.lo + r.n - 1
      /\ \A p : p \in r.lo .. r.lo + (Live(b) + n) - 1 <=> p \in r.lo .. r.lo + Live(b) - 1 \/ p \in W
      /\ \A p \in W : p \in 0 .. Top /\ (Base[b] + Live(b)) + p - i = Base[b] + (p - r.lo)
      /\ \A p \in r.lo .. r.lo + Live(b) - 1 : p \in 0 .. Top /\ p \notin W
  <2>1. PICK lo, live, m, s : lo = r.lo /\ live = Live(b) /\ m = r.n /\ s = Base[b]
    BY Zenon
  <2>2. /\ lo \in Nat /\ live \in Nat /\ m \in Nat /\ s \in Nat /\ n \in Nat \ {0} /\ Top \in Nat
        /\ i = lo + live /\ live + n <= m /\ lo + m - 1 <= Top
    BY <1>3, <2>1, Zenon
  <2>3. /\ i \in Nat /\ i + n - 1 \in 0 .. Top /\ s + live \in Nat
        /\ i .. i + n - 1 \subseteq lo .. lo + m - 1
        /\ \A p : p \in lo .. lo + (live + n) - 1 <=> p \in lo .. lo + live - 1 \/ p \in i .. i + n - 1
        /\ \A p \in i .. i + n - 1 : p \in 0 .. Top /\ (s + live) + p - i = s + (p - lo)
        /\ \A p \in lo .. lo + live - 1 : p \in 0 .. Top /\ p \notin i .. i + n - 1
    BY <2>2
  <2> QED  BY <2>1, <2>3, Zenon
<1>8. /\ pt' \in Tables
      /\ \A p \in 0 .. Top : At(pt', p) = IF p \in i .. i + n - 1 THEN (Base[b] + Live(b)) + p - i
                                           ELSE At(pt, p)
  <2>1. /\ l2_map(i, Base[b] + Live(b), n) \in Tables
        /\ \A p \in 0 .. Top : At(l2_map(i, Base[b] + Live(b), n), p) =
              IF p \in i .. i + n - 1 THEN (Base[b] + Live(b)) + p - i ELSE At(pt, p)
    <3>1. PICK f : f = Base[b] + Live(b)
      BY Zenon
    <3>2. pt \in Tables /\ i \in Nat /\ n \in Nat \ {0} /\ i + n - 1 \in 0 .. Top /\ f \in Nat
      BY <1>1, <1>3, <1>7, <3>1, Zenon
    <3>3. /\ l2_map(i, f, n) \in Tables
          /\ \A p \in 0 .. Top : At(l2_map(i, f, n), p) =
                IF p \in i .. i + n - 1 THEN f + p - i ELSE At(pt, p)
      BY <3>2, MapAt, ZenonT(30)
    <3> QED  BY <3>1, <3>3, Zenon
  <2>2. pt' = l2_map(i, Base[b] + Live(b), n)
    BY <1>2, <1>3, Zenon
  <2> QED  BY <2>1, <2>2, Zenon
<1>9. Others(b) /\ Shaped'
  <2>1. sg' = [sg EXCEPT ![b] = [sg[b] EXCEPT ![k] = i]]
    BY <1>1, <1>2, Zenon
  <2>2. k \in Nat
    BY <1>3
  <2> QED  BY <1>1, <1>2, <1>8, <2>1, <2>2, OwnStep, Zenon
<1>10. Addresses(b)' = sg'[b]
  <2>1. \A e \in DOMAIN Sizes[b] : e <= k <=> e = k \/ e <= ent[b]
    <3>1. ent[b] \in Nat /\ k = ent[b] + 1
      BY SgFacts, Zenon DEF k
    <3> QED  BY <1>4, <3>1
  <2>2. r.lo + Entry(b, k) - Base[b] = i
    BY Zenon DEF i, k, NextIova
  <2>3. k \in DOMAIN Sizes[b]
    BY <1>3, <1>4, Zenon
  <2>4. Addresses(b)' = [e \in DOMAIN Sizes[b] |->
            IF e = k \/ e <= ent[b] THEN r.lo + Entry(b, e) - Base[b] ELSE Entry(b, e)]
    BY <1>5, <2>1, Zenon DEF Addresses
  <2>5. sg[b] = [e \in DOMAIN Sizes[b] |->
            IF e <= ent[b] THEN r.lo + Entry(b, e) - Base[b] ELSE Entry(b, e)]
    BY <1>3, Zenon DEF Addresses
  <2>6. sg'[b] = [e \in DOMAIN Sizes[b] |-> IF e = k THEN i ELSE sg[b][e]]
    BY <1>5, <2>5, Zenon
  <2>7. \A e \in DOMAIN Sizes[b] : sg[b][e] =
            IF e <= ent[b] THEN r.lo + Entry(b, e) - Base[b] ELSE Entry(b, e)
    BY <2>5, Zenon
  <2>8. \A e \in DOMAIN Sizes[b] :
            (IF e = k \/ e <= ent[b] THEN r.lo + Entry(b, e) - Base[b] ELSE Entry(b, e))
              = IF e = k THEN i ELSE sg[b][e]
    BY <2>2, <2>7, Zenon
  <2> QED  BY <2>4, <2>6, <2>8, Zenon
<1>11. SgOK(b)'
  <2>1. k <= Len(Sizes[b]) /\ Len(Sizes[b]) # 0
    BY <1>3, <1>4
  <2>2. CASE k = Len(Sizes[b])
    BY <1>3, <1>5, <1>10, <2>1, <2>2, Zenon DEF SgOK
  <2>3. CASE k # Len(Sizes[b])
    BY <1>3, <1>5, <1>10, <2>1, <2>3, Zenon DEF SgOK
  <2> QED  BY <2>2, <2>3, Zenon
<1>12. Placed(b)'
  BY <1>1, <1>5, Zenon DEF Placed
<1>13. Watched(b, W)
  BY <1>2, Zenon DEF Watched, Given
<1>14. \A p \in Prefix(b) : p \in 0 .. Top /\ At(pt, p) = Base[b] + (p - r.lo)
  <2>1. \A p \in Prefix(b) : At(pt, p) = Base[b] + (p - r.lo)
    BY <1>1, Zenon DEF MapInv, Exact
  <2>2. Prefix(b) \subseteq 0 .. Top
    BY <1>7, Zenon DEF Prefix
  <2> QED  BY <2>1, <2>2, Zenon
<1>15. /\ W \subseteq Pages(r) /\ \A p : p \in Prefix(b)' <=> p \in Prefix(b) \/ p \in W
       /\ \A p \in W : p \in 0 .. Top /\ (Base[b] + Live(b)) + p - i = Base[b] + (p - r.lo)
       /\ \A p \in Prefix(b) : p \notin W
  <2>1. Prefix(b)' = r.lo .. r.lo + (Live(b) + n) - 1 /\ Prefix(b) = r.lo .. r.lo + Live(b) - 1
    BY <1>5, <1>6, Zenon DEF Prefix
  <2> QED  BY <1>7, <2>1, Zenon DEF Pages
<1>16. \A p \in Prefix(b)' : At(pt', p) = Base[b] + (p - r.lo)
  BY <1>8, <1>14, <1>15, Zenon
<1>17. \A p \in 0 .. Top : p \notin W => At(pt', p) = At(pt, p)
  BY <1>8, Zenon
<1>18. BufOK(b)' /\ rng'[b] = r
  BY <1>1, <1>5, <1>11, <1>12, Zenon
<1> HIDE DEF r, W
<1>19. StepOf(b, W)
  BY <1>9, <1>13, <1>15, <1>16, <1>17, <1>18, Zenon DEF StepOf, Changes, r
<1> QED  BY <1>19, Zenon DEF W, i, n, k

\* A table cannot be allocated: the part of the entry below it is unmapped again.
LEMMA MapEntryFailsStep ==
    ASSUME Induction, RangesInv, Unmapped, MapInv, NEW b \in Sg, MapEntryFails(b)
    PROVE  \E W : StepOf(b, W)
<1> DEFINE k == ent[b] + 1
           n == Sizes[b][k]
           i == NextIova(b)
           r == rng[b]
<1>1. /\ b \in Buffers /\ b \notin Coherent
      /\ DOMAIN pc = Buffers /\ DOMAIN rng = Buffers /\ DOMAIN ent = Buffers
      /\ Placed(b) /\ SgOK(b) /\ pt \in Tables
      /\ BufOK(b)' <=> Placed(b)' /\ SgOK(b)'
  BY SgFacts, Zenon
<1>2. /\ pc[b] = "map" /\ \E f \in Missing(i, n) : pt' = l2_map_fails(i, n, f)
      /\ IF ent[b] = 0 THEN pc' = [pc EXCEPT ![b] = "on"] /\ rng' = [rng EXCEPT ![b] = NoRange]
         ELSE pc' = [pc EXCEPT ![b] = "restore"] /\ rng' = rng
      /\ ent' = ent /\ sg' = sg /\ nents' = nents /\ inuse' = inuse
  BY Zenon DEF MapEntryFails, Goto, dmaVars, cohVars
<1>3. /\ r # NoRange /\ r.lo \in Nat /\ nents[b] = 0 /\ sg[b] = Addresses(b)
      /\ Live(b) \in Nat /\ i = r.lo + Live(b) /\ n \in Nat \ {0}
      /\ Live(b) + n <= r.n /\ r.n \in Nat /\ r.lo + r.n - 1 <= Top /\ Top \in Nat
  BY <1>2, NextChunk, Zenon
<1> HIDE DEF k, n, i
<1>4. PICK f \in Missing(i, n) : pt' = l2_map_fails(i, n, f)
  BY <1>2, Zenon
<1> DEFINE hi == f * NL2
           W == i .. hi - 1
<1>5. PICK lo, live, m : lo = r.lo /\ live = Live(b) /\ m = r.n
  BY Zenon
<1>6. /\ lo \in Nat /\ live \in Nat /\ m \in Nat /\ n \in Nat \ {0} /\ Top \in Nat
      /\ i = lo + live /\ live + n <= m /\ lo + m - 1 <= Top
  BY <1>3, <1>5, Zenon
<1>7. i \in Nat /\ i + n - 1 \in 0 .. Top
  BY <1>6
<1>8. pt' \in Tables /\ Cleared(pt, pt', i, hi) /\ hi \in Nat /\ hi <= i + n - 1
  <2>1. n \in Nat \ {0}
    BY <1>6, Zenon
  <2> QED  BY <1>1, <1>4, <1>7, <2>1, MapFailsAt, Zenon
<1> HIDE DEF hi
<1>9. /\ W \subseteq lo .. lo + m - 1
      /\ \A p \in lo .. lo + live - 1 : p \in 0 .. Top /\ p \notin W
  BY <1>6, <1>8
<1>10. \A p \in 0 .. Top : At(pt', p) = IF p \in W THEN Dummy ELSE At(pt, p)
  BY <1>8, Zenon DEF Cleared
<1>11. Others(b) /\ Shaped'
  BY <1>1, <1>2, <1>8, OwnStep, Zenon
<1>12. Watched(b, W)
  BY <1>2, Zenon DEF Watched, Given
<1>13. W \subseteq Pages(r)
  BY <1>5, <1>9, Zenon DEF Pages
<1>14. \A p \in 0 .. Top : p \notin W => At(pt', p) = At(pt, p)
  BY <1>10, Zenon
<1>15. Prefix(b) = lo .. lo + live - 1 /\ \A p \in Prefix(b) : At(pt, p) = Base[b] + (p - r.lo)
  BY <1>1, <1>5, Zenon DEF MapInv, Exact, Prefix
<1>16. CASE ent[b] = 0
  <2>1. pc'[b] = "on" /\ rng'[b] = NoRange
    BY <1>1, <1>2, <1>16, Zenon
  <2>2. Live(b)' = 0 /\ NoRange \in IovaRanges
    <3>1. NoRange \in IovaRanges
      BY Trashing, Zenon
    <3> QED  BY <2>1, <3>1, Zenon DEF Live
  <2>3. Prefix(b)' = {}
    BY <1>1, <2>1, <2>2, NoPrefix, Zenon
  <2>4. live = 0
    <3>1. Depth(b) = Entry(b, 0 + 1) - Base[b] /\ Live(b) = Depth(b)
      BY <1>2, <1>3, <1>16, Zenon DEF Live, Depth, Mapping
    <3>2. 0 + 1 = 1 /\ Base[b] - Base[b] = 0 /\ Entry(b, 1) = Base[b]
      BY Entries
    <3> QED  BY <1>5, <3>1, <3>2, Zenon
  <2>5. Prefix(b) = {}
    <3>1. lo .. lo + 0 - 1 = {}
      BY <1>6
    <3> QED  BY <1>15, <2>4, <3>1, Zenon
  <2>6. BufOK(b)'
    <3>1. sg'[b] = PciAddresses(b)
      BY <1>2, <1>3, <1>16, NoneMapped, Zenon
    <3>2. ent'[b] <= Len(Sizes[b])
      BY <1>1, <1>2, Zenon DEF SgOK
    <3> QED  BY <1>1, <1>2, <1>3, <2>1, <3>1, <3>2, Zenon DEF SgOK, Placed
  <2>7. StepOf(b, W)
    BY <1>10, <1>11, <1>12, <1>13, <1>14, <2>3, <2>5, <2>6, Zenon DEF StepOf, Changes
  <2> QED  BY <2>7, Zenon
<1>17. CASE ent[b] # 0
  <2>1. pc'[b] = "restore" /\ rng'[b] = r /\ ent'[b] = ent[b]
    BY <1>1, <1>2, <1>17, Zenon
  <2>2. Live(b)' = Live(b)
    BY <1>2, <1>3, <2>1, Zenon DEF Live, Mapping, Depth
  <2>3. Prefix(b)' = Prefix(b)
    BY <2>1, <2>2, Zenon DEF Prefix
  <2>4. BufOK(b)'
    <3>1. Addresses(b)' = sg'[b]
      BY <1>2, <1>3, <2>1, Zenon DEF Addresses
    <3> QED  BY <1>1, <1>2, <1>3, <2>1, <3>1, Zenon DEF SgOK, Placed
  <2>5. \A p \in Prefix(b)' : At(pt', p) = Base[b] + (p - rng'[b].lo)
    BY <1>9, <1>14, <1>15, <2>1, <2>3, Zenon
  <2>6. \A p \in 0 .. Top : p \in Prefix(b) \/ p \in W => p \in Prefix(b)' \/ At(pt', p) = Dummy
    BY <1>10, <2>3, Zenon
  <2>7. StepOf(b, W)
    BY <1>11, <1>12, <1>13, <1>14, <2>4, <2>5, <2>6, Zenon DEF StepOf, Changes
  <2> QED  BY <2>7, Zenon
<1> QED  BY <1>16, <1>17, Zenon

\* ipu6_mmu_iova_to_phys of an entry's address is where the entry is in memory.
LEMMA RestoreQuiet ==
    ASSUME Induction, RangesInv, Unmapped, MapInv, NEW b \in Sg, Restore(b)
    PROVE  Quiet(b)
<1>1. /\ b \in Buffers /\ b \notin Coherent /\ SizeOf(b) = Total(b)
      /\ DOMAIN pc = Buffers /\ DOMAIN rng = Buffers /\ DOMAIN ent = Buffers /\ DOMAIN sg = Sg
      /\ ent[b] \in Nat /\ rng[b] \in IovaRanges
      /\ Placed(b) /\ SgOK(b) /\ BufOK(b) /\ pt \in Tables
      /\ BufOK(b)' <=> Placed(b)' /\ SgOK(b)'
  BY SgFacts, Zenon DEF MapInv
<1> DEFINE back == [e \in DOMAIN sg[b] |-> IF e <= ent[b] THEN iova_to_phys(sg[b][e]) ELSE sg[b][e]]
<1>2. /\ pc[b] = "restore" /\ sg' = [sg EXCEPT ![b] = back]
      /\ pc' = [pc EXCEPT ![b] = "table"]
      /\ pt' = pt /\ rng' = rng /\ ent' = ent /\ nents' = nents /\ inuse' = inuse
  BY Zenon DEF Restore, Goto, cohVars
<1>3. /\ rng[b] # NoRange /\ sg[b] = Addresses(b) /\ ent[b] <= Len(Sizes[b])
      /\ rng[b].lo \in Nat
  BY <1>1, <1>2, Zenon DEF SgOK, Placed
<1>4. /\ Len(Sizes[b]) \in Nat \ {0} /\ DOMAIN Sizes[b] = 1 .. Len(Sizes[b])
      /\ \A e \in 1 .. Len(Sizes[b]) : Sizes[b][e] \in Nat \ {0}
      /\ Base[b] \in Nat /\ Base[b] > Trash /\ Entry(b, 1) = Base[b]
      /\ \A e \in 1 .. Len(Sizes[b]) + 1 : Entry(b, e) \in Nat
      /\ \A e \in 1 .. Len(Sizes[b]) : Entry(b, e + 1) = Entry(b, e) + Sizes[b][e]
      /\ \A d, e \in 1 .. Len(Sizes[b]) + 1 : d <= e => Entry(b, d) <= Entry(b, e)
  BY Entries, Zenon
<1>5. Live(b) = Entry(b, ent[b] + 1) - Base[b]
  BY <1>2, <1>3, Zenon DEF Live, Depth, Mapping
<1>6. ASSUME NEW e \in DOMAIN Sizes[b], e <= ent[b]
      PROVE  iova_to_phys(sg[b][e]) = Entry(b, e)
  <2>1. PICK L, d : L = Len(Sizes[b]) /\ d = ent[b]
    BY Zenon
  <2>2. L \in Nat \ {0} /\ d \in Nat /\ d <= L /\ e \in 1 .. L /\ e <= d
    BY <1>1, <1>3, <1>4, <1>6, <2>1, Zenon
  <2>3. /\ e \in 1 .. L + 1 /\ e + 1 \in 1 .. L + 1 /\ d + 1 \in 1 .. L + 1 /\ 1 \in 1 .. L + 1
        /\ 1 <= e /\ e + 1 <= d + 1
    BY <2>2
  <2>4. PICK lo, s, x, z, w : /\ lo = rng[b].lo /\ s = Base[b] /\ x = Entry(b, e) /\ z = Sizes[b][e]
                              /\ w = Entry(b, d + 1)
    BY Zenon
  <2>5. /\ lo \in Nat /\ s \in Nat /\ x \in Nat /\ z \in Nat \ {0} /\ w \in Nat
        /\ s <= x /\ x + z <= w /\ s > Trash
    BY <1>3, <1>4, <2>1, <2>2, <2>3, <2>4, Zenon
  <2>6. PICK p : p = lo + x - s
    BY Zenon
  <2>7. /\ p \in lo .. lo + (w - s) - 1 /\ s + (p - lo) = x /\ x # Dummy
    BY <2>5, <2>6, Numbers
  <2>8. p \in Prefix(b)
    BY <1>5, <2>1, <2>4, <2>7, Zenon DEF Prefix
  <2>9. At(pt, p) = x
    BY <1>1, <2>4, <2>7, <2>8, Zenon DEF MapInv, Exact
  <2>10. iova_to_phys(p) = x
    BY <2>7, <2>9, Zenon DEF At, iova_to_phys
  <2>11. sg[b][e] = p
    BY <1>3, <1>6, <2>4, <2>6, Zenon DEF Addresses
  <2> QED  BY <2>4, <2>10, <2>11, Zenon
<1>7. back = PciAddresses(b)
  <2>1. DOMAIN sg[b] = DOMAIN Sizes[b]
        /\ \A e \in DOMAIN Sizes[b] : ~(e <= ent[b]) => sg[b][e] = Entry(b, e)
    BY <1>3, Zenon DEF Addresses
  <2>2. \A e \in DOMAIN Sizes[b] :
           (IF e <= ent[b] THEN iova_to_phys(sg[b][e]) ELSE sg[b][e]) = Entry(b, e)
    BY <1>6, <2>1, Zenon
  <2> QED  BY <2>1, <2>2, Zenon DEF PciAddresses
<1> HIDE DEF back
<1>8. /\ sg'[b] = PciAddresses(b) /\ pc'[b] = "table" /\ ent'[b] = ent[b] /\ rng'[b] = rng[b]
      /\ nents'[b] = nents[b]
  BY <1>1, <1>2, <1>7, Zenon
<1>9. Others(b) /\ Shaped'
  BY <1>1, <1>2, OwnStep, Zenon
<1>10. Placed(b)' /\ SgOK(b)'
  BY <1>1, <1>3, <1>8, Zenon DEF Placed, SgOK
<1>11. Live(b)' = Live(b) /\ Watched(b, {})
  BY <1>2, <1>3, <1>8, Zenon DEF Live, Mapping, Depth, Watched, Given
<1> QED  BY <1>1, <1>2, <1>8, <1>9, <1>10, <1>11, Zenon DEF Quiet

\* The whole range of a buffer is unmapped.
LEMMA UnmapStep ==
    ASSUME Induction, RangesInv, Unmapped, MapInv, NEW o \in Buffers, NEW next \in {"inval", "drop"},
           rng[o] # NoRange, UnmapRange(o, next), ~skipped', BufOK(o)',
           UNCHANGED <<rng, ent, sg, nents, inuse>>
    PROVE  StepOf(o, Pages(rng[o]))
<1> DEFINE u == l2_unmap(pt, rng[o].lo, rng[o].n)
<1>1. pt' = u.pt /\ ~u.skipped /\ pc' = [pc EXCEPT ![o] = next]
  BY Zenon DEF UnmapRange, Goto
<1> HIDE DEF u
<1>2. /\ BufOK(o) /\ ent[o] \in Nat /\ rng[o] \in IovaRanges /\ pt \in Tables
      /\ DOMAIN pc = Buffers
  BY Zenon DEF MapInv, RangesInv, Unmapped
<1>3. /\ SizeOf(o) \in Nat \ {0} /\ Prefix(o) \subseteq Pages(rng[o]) /\ Pages(rng[o]) \subseteq 0 .. Top
  BY <1>2, PrefixIn, Zenon
<1>4. /\ rng[o].lo \in Nat /\ rng[o].n = SizeOf(o) /\ rng[o].lo + rng[o].n - 1 <= Top
  BY <1>2, Zenon DEF BufOK, Placed
<1>5. PICK lo, n : lo = rng[o].lo /\ n = rng[o].n
  BY Zenon
<1>6. lo \in Nat /\ n \in Nat \ {0} /\ lo + n - 1 <= Top /\ Top \in Nat
  BY <1>3, <1>4, <1>5, Numbers, Zenon
<1>7. lo + n - 1 \in 0 .. Top
  BY <1>6
<1>8. u.pt \in Tables /\ Cleared(pt, u.pt, lo, lo + n)
  <2>1. u = l2_unmap(pt, lo, n)
    BY <1>5, Zenon DEF u
  <2> QED  BY <1>1, <1>2, <1>6, <1>7, <2>1, UnmapAt, Zenon
<1>9. \A p \in 0 .. Top : At(pt', p) = IF p \in Pages(rng[o]) THEN Dummy ELSE At(pt, p)
  <2>1. PICK hi : hi = lo + n
    BY Zenon
  <2>2. Cleared(pt, u.pt, lo, hi) /\ Pages(rng[o]) = lo .. hi - 1
    <3>1. Cleared(pt, u.pt, lo, hi)
      BY <1>8, <2>1, Zenon
    <3>2. lo + n - 1 = hi - 1
      BY <1>6, <2>1
    <3>3. Pages(rng[o]) = lo .. lo + n - 1
      BY <1>5, Zenon DEF Pages
    <3> QED  BY <3>1, <3>2, <3>3, Zenon
  <2>3. \A p \in 0 .. Top : At(u.pt, p) = IF p \in lo .. hi - 1 THEN Dummy ELSE At(pt, p)
    BY <2>2, Zenon DEF Cleared
  <2> QED  BY <1>1, <2>2, <2>3, Zenon
<1>10. pc'[o] = next /\ pc'[o] \in {"inval", "drop"} /\ rng'[o] = rng[o]
  BY <1>1, <1>2, Zenon
<1>11. Others(o) /\ Shaped'
  <2>1. pt' \in Tables
    BY <1>1, <1>8, Zenon
  <2> QED  BY <1>1, <2>1, OwnStep, Zenon
<1>12. Watched(o, Pages(rng[o]))
  BY <1>10, Zenon DEF Watched
<1>13. Prefix(o)' = {}
  <2>1. Live(o)' = 0
    BY <1>10, Zenon DEF Live, Mapping
  <2> QED  BY <1>2, <1>10, <2>1, NoPrefix, Zenon
<1> QED  BY <1>3, <1>9, <1>11, <1>12, <1>13, Zenon DEF StepOf, Changes

\* The end of ipu6_dma_unmap_sg, where it skips nothing.
LEMMA UnmapTableStep ==
    ASSUME Induction, RangesInv, Unmapped, MapInv, NEW b \in Sg, UnmapTable(b), ~skipped'
    PROVE  StepOf(b, Pages(rng[b]))
<1>1. /\ b \in Buffers /\ DOMAIN pc = Buffers /\ Placed(b) /\ SgOK(b)
      /\ BufOK(b)' <=> Placed(b)' /\ SgOK(b)'
  BY SgFacts, Zenon
<1>2. /\ pc[b] = "table" /\ UnmapRange(b, "inval") /\ UNCHANGED <<rng, ent, sg, nents, inuse>>
  BY Zenon DEF UnmapTable, dmaVars, cohVars
<1>3. pc'[b] = "inval" /\ rng'[b] = rng[b] /\ ent'[b] = ent[b] /\ sg'[b] = sg[b] /\ nents'[b] = nents[b]
  BY <1>1, <1>2, Zenon DEF UnmapRange, Goto
<1>4. rng[b] # NoRange /\ Placed(b)' /\ SgOK(b)'
  BY <1>1, <1>2, <1>3, Zenon DEF Placed, SgOK
<1> QED  BY <1>1, <1>2, <1>4, UnmapStep, Zenon

-----------------------------------------------------------------------------
(* The threads that allocate and free coherent buffers.                    *)

\* The facts about a coherent buffer that most of its steps need.
LEMMA CohFacts ==
    ASSUME RangesInv, Unmapped, MapInv, NEW c \in Coherent
    PROVE  /\ c \in Buffers /\ c \notin Sg /\ SizeOf(c) = CohSize /\ CohSize \in Nat \ {0}
           /\ DOMAIN pc = Buffers /\ DOMAIN rng = Buffers /\ DOMAIN ent = Buffers
           /\ ent[c] \in Nat /\ rng[c] \in IovaRanges /\ Base[c] \in Nat
           /\ Placed(c) /\ CohOK(c) /\ pt \in Tables
           /\ BufOK(c)' <=> Placed(c)' /\ CohOK(c)'
           /\ Live(c) = IF pc[c] \in Mapping /\ rng[c] # NoRange THEN ent[c] ELSE 0
           /\ Live(c)' = IF pc'[c] \in Mapping /\ rng'[c] # NoRange THEN ent'[c] ELSE 0
<1>1. c \in Buffers /\ c \notin Sg
  BY SizesAssumption, Zenon DEF Buffers
<1> QED  BY <1>1, DmaAssumption, Zenon DEF RangesInv, Unmapped, MapInv, BufOK, SizeOf, Live, Depth

\* Steps that leave the range, and what is mapped of it.
Onward(c) ==
    \/ pc[c] = "map" /\ pc'[c] = "unwind"
    \/ pc[c] = "vmap" /\ pc'[c] = "list"
    \/ pc[c] = "vmap" /\ pc'[c] = "unwind"
    \/ pc[c] = "list" /\ pc'[c] = "on"
    \/ pc[c] = "on" /\ pc'[c] = "table"
    \/ pc[c] = "on" /\ pc'[c] = "lost"
Ends(c) ==
    \/ pc[c] = "pages" /\ pc'[c] = "free" /\ inuse' = inuse
    \/ pc[c] = "pages" /\ pc'[c] = "map" /\ inuse' = inuse \cup {c}
    \/ pc[c] = "unwind" /\ pc'[c] = "free" /\ ent[c] = 0 /\ inuse' = inuse \ {c}
    \/ pc[c] = "drop" /\ pc'[c] = "inval" /\ inuse' = inuse \ {c}
CohMoves(c) ==
    /\ pt' = pt /\ rng' = rng /\ ent' = ent /\ sg' = sg /\ nents' = nents
    /\ (Onward(c) /\ inuse' = inuse) \/ Ends(c)
    /\ \E v : pc' = [pc EXCEPT ![c] = v]

\* So it is with the steps that only lead on in ipu6_dma_alloc or ipu6_dma_free,
LEMMA CohMoving ==
    ASSUME RangesInv, Unmapped, MapInv, NEW c \in Coherent,
           \/ CohPages(c) \/ CohPagesFail(c) \/ CohMapFails(c) \/ CohVmap(c) \/ CohVmapFails(c)
           \/ CohListAdd(c) \/ CohUnwound(c) \/ CohFree(c) \/ CohFreeLost(c) \/ CohDrop(c)
    PROVE  CohMoves(c)
<1>1. c \in DOMAIN pc
  BY CohFacts, Zenon
<1> USE DEF CohMoves, Onward, Ends, Goto, dmaVars, cohVars
<1>2. CASE CohPages(c)        BY <1>1, <1>2, Zenon DEF CohPages
<1>3. CASE CohPagesFail(c)    BY <1>1, <1>3, Zenon DEF CohPagesFail
<1>4. CASE CohMapFails(c)     BY <1>1, <1>4, Zenon DEF CohMapFails
<1>5. CASE CohVmap(c)         BY <1>1, <1>5, Zenon DEF CohVmap
<1>6. CASE CohVmapFails(c)    BY <1>1, <1>6, Zenon DEF CohVmapFails
<1>7. CASE CohListAdd(c)      BY <1>1, <1>7, Zenon DEF CohListAdd
<1>8. CASE CohUnwound(c)      BY <1>1, <1>8, Zenon DEF CohUnwound
<1>9. CASE CohFree(c)         BY <1>1, <1>9, Zenon DEF CohFree
<1>10. CASE CohFreeLost(c)    BY <1>1, <1>10, Zenon DEF CohFreeLost
<1>11. CASE CohDrop(c)        BY <1>1, <1>11, Zenon DEF CohDrop
<1> QED  BY <1>2, <1>3, <1>4, <1>5, <1>6, <1>7, <1>8, <1>9, <1>10, <1>11, Zenon

\* and they keep what CohOK says.
LEMMA CohMovesQuiet ==
    ASSUME RangesInv, Unmapped, MapInv, NEW c \in Coherent, CohMoves(c)
    PROVE  Quiet(c)
<1>1. /\ c \in Buffers /\ CohSize \in Nat \ {0} /\ Placed(c) /\ CohOK(c) /\ pt \in Tables
      /\ BufOK(c)' <=> Placed(c)' /\ CohOK(c)'
      /\ Live(c) = IF pc[c] \in Mapping /\ rng[c] # NoRange THEN ent[c] ELSE 0
      /\ Live(c)' = IF pc'[c] \in Mapping /\ rng'[c] # NoRange THEN ent'[c] ELSE 0
  BY CohFacts, Zenon
<1>2. /\ pt' = pt /\ rng' = rng /\ ent' = ent /\ sg' = sg /\ nents' = nents
      /\ \E v : pc' = [pc EXCEPT ![c] = v]
      /\ inuse' = inuse \/ inuse' = inuse \cup {c} \/ inuse' = inuse \ {c}
  BY Zenon DEF CohMoves, Ends
<1>3. Others(c) /\ Shaped' /\ Placed(c)'
  BY <1>1, <1>2, OwnStep, Zenon DEF Placed
<1>4. CohSize # 0
  BY <1>1
<1>5. ASSUME inuse' = inuse, Onward(c)
      PROVE  CohOK(c)' /\ Live(c)' = Live(c) /\ Watched(c, {})
  <2>1. CohOK(c)'
    BY <1>1, <1>2, <1>5, Zenon DEF CohOK, Mapping, Onward
  <2>2. Live(c)' = Live(c)
    BY <1>1, <1>2, <1>5, Zenon DEF Mapping, Onward
  <2>3. Watched(c, {})
    BY <1>2, <1>5, Zenon DEF Watched, Given, Onward
  <2> QED  BY <2>1, <2>2, <2>3, Zenon
<1>6. ASSUME Ends(c)
      PROVE  CohOK(c)' /\ Live(c) = 0 /\ Live(c)' = 0 /\ Watched(c, {})
  <2>1. CohOK(c)'
    BY <1>1, <1>2, <1>4, <1>6, Zenon DEF CohOK, Mapping, Ends
  <2>2. Live(c) = 0 /\ Live(c)' = 0
    BY <1>1, <1>2, <1>6, Zenon DEF Mapping, Ends, CohOK
  <2>3. Watched(c, {})
    BY <1>2, <1>6, Zenon DEF Watched, Given, Ends
  <2> QED  BY <2>1, <2>2, <2>3, Zenon
<1>7. CASE Onward(c) /\ inuse' = inuse
  BY <1>1, <1>2, <1>3, <1>5, <1>7, Zenon DEF Quiet
<1>8. CASE Ends(c)
  BY <1>1, <1>2, <1>3, <1>6, <1>8, Zenon DEF Quiet
<1> QED  BY <1>7, <1>8, Zenon DEF CohMoves

\* alloc_iova and free_iova for a coherent buffer.
LEMMA CohRangeQuiet ==
    ASSUME RangesInv, Unmapped, MapInv, NEW c \in Coherent, CohAlloc(c) \/ CohFreeIova(c)
    PROVE  Quiet(c)
<1>1. /\ c \in Buffers /\ SizeOf(c) = CohSize /\ CohSize \in Nat \ {0} /\ pt \in Tables
      /\ DOMAIN pc = Buffers /\ DOMAIN rng = Buffers /\ DOMAIN ent = Buffers
      /\ BufOK(c)' <=> Placed(c)' /\ CohOK(c)'
      /\ Live(c) = IF pc[c] \in Mapping /\ rng[c] # NoRange THEN ent[c] ELSE 0
      /\ Live(c)' = IF pc'[c] \in Mapping /\ rng'[c] # NoRange THEN ent'[c] ELSE 0
  BY CohFacts, Zenon
<1>2. 0 \in Nat /\ 0 <= CohSize
  BY <1>1
<1>3. CASE CohAlloc(c)
  <2>1. PICK r \in Gaps(CohSize) :
           /\ rng' = [rng EXCEPT ![c] = r] /\ ent' = [ent EXCEPT ![c] = 0]
           /\ pc' = [pc EXCEPT ![c] = "pages"]
    BY <1>3, Zenon DEF CohAlloc, AllocIova, Goto
  <2>2. /\ pc[c] = "off" /\ rng[c] = NoRange /\ rng'[c] = r /\ ent'[c] = 0 /\ pc'[c] = "pages"
        /\ sg' = sg /\ nents' = nents /\ inuse' = inuse /\ pt' = pt
    BY <1>1, <1>3, <2>1, Zenon DEF CohAlloc, dmaVars, cohVars, Unmapped
  <2>3. r # NoRange /\ r.lo \in Nat /\ r.lo >= 1 /\ r.n = CohSize /\ r.lo + r.n - 1 <= Top
    BY <1>1, GapPlaced, Zenon
  <2>4. Others(c) /\ Shaped'
    BY <1>1, <1>2, <2>1, <2>2, OwnStep, Zenon
  <2>5. Placed(c)' /\ CohOK(c)'
    BY <1>1, <1>2, <2>2, <2>3, Zenon DEF Placed, CohOK
  <2>6. Live(c) = 0 /\ Live(c)' = 0 /\ Watched(c, {})
    BY <1>1, <2>2, Zenon DEF Watched
  <2> QED  BY <1>1, <2>2, <2>4, <2>5, <2>6, Zenon DEF Quiet
<1>4. CASE CohFreeIova(c)
  <2>1. /\ pc[c] = "free" /\ rng' = [rng EXCEPT ![c] = NoRange] /\ ent' = [ent EXCEPT ![c] = 0]
        /\ pc' = [pc EXCEPT ![c] = "off"]
        /\ sg' = sg /\ nents' = nents /\ inuse' = inuse /\ pt' = pt
    BY <1>4, Zenon DEF CohFreeIova, Goto, dmaVars, cohVars
  <2>2. rng'[c] = NoRange /\ ent'[c] = 0 /\ pc'[c] = "off"
    BY <1>1, <2>1, Zenon
  <2>3. Others(c) /\ Shaped'
    BY <1>1, <1>2, <2>1, OwnStep, Zenon
  <2>4. Placed(c)' /\ CohOK(c)'
    BY <1>1, <1>2, <2>2, Zenon DEF Placed, CohOK, Mapping
  <2>5. Live(c) = 0 /\ Live(c)' = 0 /\ Watched(c, {})
    BY <1>1, <2>1, <2>2, Zenon DEF Watched, Mapping, Given
  <2> QED  BY <1>1, <2>1, <2>3, <2>4, <2>5, Zenon DEF Quiet
<1> QED  BY <1>3, <1>4, Zenon

\* A page is mapped: the next one.
LEMMA CohMapPageStep ==
    ASSUME RangesInv, Unmapped, MapInv, NEW c \in Coherent, CohMapPage(c)
    PROVE  \E W : StepOf(c, W)
<1>1. /\ c \in Buffers /\ SizeOf(c) = CohSize /\ CohSize \in Nat \ {0} /\ pt \in Tables
      /\ DOMAIN pc = Buffers /\ DOMAIN rng = Buffers /\ DOMAIN ent = Buffers
      /\ ent[c] \in Nat /\ Base[c] \in Nat /\ Placed(c) /\ CohOK(c)
      /\ BufOK(c)' <=> Placed(c)' /\ CohOK(c)'
      /\ Live(c) = IF pc[c] \in Mapping /\ rng[c] # NoRange THEN ent[c] ELSE 0
      /\ Live(c)' = IF pc'[c] \in Mapping /\ rng'[c] # NoRange THEN ent'[c] ELSE 0
  BY CohFacts, Zenon
<1>2. PICK k, lo, s, i, f : k = ent[c] /\ lo = rng[c].lo /\ s = Base[c] /\ i = lo + k /\ f = s + k
  BY Zenon
<1>3. /\ pc[c] = "map" /\ pt' = l2_map(i, f, 1)
      /\ ent' = [ent EXCEPT ![c] = k + 1]
      /\ pc' = [pc EXCEPT ![c] = IF k + 1 = CohSize THEN "vmap" ELSE "map"]
      /\ rng' = rng /\ sg' = sg /\ nents' = nents /\ inuse' = inuse
  BY <1>2, Zenon DEF CohMapPage, Goto, dmaVars, cohVars
<1>4. /\ rng[c] # NoRange /\ lo \in Nat /\ rng[c].n = CohSize /\ lo + CohSize - 1 <= Top
      /\ k # CohSize /\ k <= CohSize /\ c \in inuse /\ Live(c) = k
  BY <1>1, <1>2, <1>3, Zenon DEF Placed, CohOK, Mapping
<1>5. /\ ent'[c] = k + 1 /\ pc'[c] = (IF k + 1 = CohSize THEN "vmap" ELSE "map") /\ rng'[c] = rng[c]
  BY <1>1, <1>3, Zenon
<1>6. k \in Nat /\ s \in Nat /\ Top \in Nat /\ CohSize \in Nat
  <2>1. CohSize \in Nat /\ ent[c] \in Nat /\ Base[c] \in Nat
    BY <1>1, Zenon
  <2> QED  BY <1>2, <2>1, Numbers, Zenon
<1> DEFINE W == i .. i + 1 - 1
<1>7. /\ k + 1 \in Nat /\ k + 1 <= CohSize /\ i \in Nat /\ 1 \in Nat \ {0} /\ i + 1 - 1 \in 0 .. Top
      /\ f \in Nat
      /\ W \subseteq lo .. lo + CohSize - 1
      /\ \A p : p \in lo .. lo + (k + 1) - 1 <=> p \in lo .. lo + k - 1 \/ p \in W
      /\ \A p \in W : p \in 0 .. Top /\ f + p - i = s + (p - lo)
      /\ \A p \in lo .. lo + k - 1 : p \in 0 .. Top /\ p \notin W
  <2>1. /\ i = lo + k /\ f = s + k /\ lo + CohSize - 1 <= Top /\ k # CohSize /\ k <= CohSize
        /\ lo \in Nat /\ k \in Nat /\ s \in Nat /\ Top \in Nat /\ CohSize \in Nat
    BY <1>2, <1>4, <1>6, Zenon
  <2>2. /\ k + 1 \in Nat /\ k + 1 <= CohSize /\ i \in Nat /\ 1 \in Nat \ {0} /\ f \in Nat
        /\ i + 1 - 1 = i /\ i <= lo + CohSize - 1 /\ i <= Top
    BY <2>1
  <2>3. i + 1 - 1 \in 0 .. Top /\ W \subseteq lo .. lo + CohSize - 1
    BY <2>1, <2>2
  <2>4. \A p : p \in lo .. lo + (k + 1) - 1 <=> p \in lo .. lo + k - 1 \/ p \in W
    BY <2>1, <2>2, SMTT(20)
  <2>5. \A p \in W : p \in 0 .. Top /\ f + p - i = s + (p - lo)
    BY <2>1, <2>2, SMTT(20)
  <2>6. \A p \in lo .. lo + k - 1 : p \in 0 .. Top /\ p \notin W
    BY <2>1, <2>2, SMTT(20)
  <2> HIDE DEF W
  <2> QED  BY <2>2, <2>3, <2>4, <2>5, <2>6, Zenon
<1>8. /\ pt' \in Tables
      /\ \A p \in 0 .. Top : At(pt', p) = IF p \in W THEN f + p - i ELSE At(pt, p)
  <2>1. /\ l2_map(i, f, 1) \in Tables
        /\ \A p \in 0 .. Top : At(l2_map(i, f, 1), p) =
              IF p \in i .. i + 1 - 1 THEN f + p - i ELSE At(pt, p)
    <3>1. pt \in Tables /\ i \in Nat /\ 1 \in Nat \ {0} /\ i + 1 - 1 \in 0 .. Top /\ f \in Nat
      BY <1>1, <1>7, Zenon
    <3> QED  BY <3>1, MapAt, ZenonT(30)
  <2> QED  BY <1>3, <2>1, Zenon
<1>9. Others(c) /\ Shaped'
  BY <1>1, <1>3, <1>7, <1>8, OwnStep, Zenon
<1>10. BufOK(c)' /\ Live(c)' = k + 1
  <2>1. CASE k + 1 = CohSize
    BY <1>1, <1>3, <1>4, <1>5, <1>7, <2>1, Zenon DEF Placed, CohOK, Mapping
  <2>2. CASE k + 1 # CohSize
    BY <1>1, <1>3, <1>4, <1>5, <1>7, <2>2, Zenon DEF Placed, CohOK, Mapping
  <2> QED  BY <2>1, <2>2, Zenon
<1>11. Watched(c, W)
  BY <1>3, Zenon DEF Watched, Given
<1>12. Prefix(c) = lo .. lo + k - 1 /\ Prefix(c)' = lo .. lo + (k + 1) - 1 /\ Pages(rng[c]) = lo .. lo + CohSize - 1
  BY <1>2, <1>4, <1>5, <1>10, Zenon DEF Prefix, Pages
<1>13. \A p \in Prefix(c) : At(pt, p) = s + (p - lo)
  BY <1>1, <1>2, Zenon DEF MapInv, Exact
<1> HIDE DEF W
<1>14. \A p \in Prefix(c)' : At(pt', p) = Base[c] + (p - rng'[c].lo)
  <2>1. \A p \in Prefix(c)' : At(pt', p) = s + (p - lo)
    BY <1>7, <1>8, <1>12, <1>13, Zenon
  <2> QED  BY <1>2, <1>5, <2>1, Zenon
<1>15. \A p \in 0 .. Top : p \in Prefix(c) \/ p \in W => p \in Prefix(c)'
  BY <1>7, <1>12, Zenon
<1>16. W \subseteq Pages(rng[c]) /\ \A p \in 0 .. Top : p \notin W => At(pt', p) = At(pt, p)
  BY <1>7, <1>8, <1>12, Zenon
<1>17. StepOf(c, W)
  BY <1>9, <1>10, <1>11, <1>14, <1>15, <1>16, Zenon DEF StepOf, Changes
<1> QED  BY <1>17, Zenon

\* The last page mapped is unmapped: its table is there.
LEMMA CohUnwindStep ==
    ASSUME Induction, RangesInv, Unmapped, MapInv, NEW c \in Coherent, CohUnwind(c)
    PROVE  \E W : StepOf(c, W)
<1>1. /\ c \in Buffers /\ SizeOf(c) = CohSize /\ CohSize \in Nat \ {0} /\ pt \in Tables
      /\ DOMAIN pc = Buffers /\ DOMAIN rng = Buffers /\ DOMAIN ent = Buffers
      /\ ent[c] \in Nat /\ Base[c] \in Nat /\ Placed(c) /\ CohOK(c)
      /\ BufOK(c)' <=> Placed(c)' /\ CohOK(c)'
      /\ Live(c) = IF pc[c] \in Mapping /\ rng[c] # NoRange THEN ent[c] ELSE 0
      /\ Live(c)' = IF pc'[c] \in Mapping /\ rng'[c] # NoRange THEN ent'[c] ELSE 0
  BY CohFacts, Zenon
<1>2. PICK k, lo, s, i : k = ent[c] /\ lo = rng[c].lo /\ s = Base[c] /\ i = lo + k - 1
  BY Zenon
<1>3. /\ pc[c] = "unwind" /\ k > 0 /\ pt' = l2_unmap(pt, i, 1).pt
      /\ ent' = [ent EXCEPT ![c] = k - 1]
      /\ pc' = pc /\ rng' = rng /\ sg' = sg /\ nents' = nents /\ inuse' = inuse
  BY <1>2, Zenon DEF CohUnwind, Goto, dmaVars, cohVars
<1>4. /\ rng[c] # NoRange /\ lo \in Nat /\ rng[c].n = CohSize /\ lo + CohSize - 1 <= Top
      /\ k <= CohSize /\ c \in inuse /\ Live(c) = k
  BY <1>1, <1>2, <1>3, Zenon DEF Placed, CohOK, Mapping
<1>5. ent'[c] = k - 1 /\ pc'[c] = "unwind" /\ rng'[c] = rng[c]
  BY <1>1, <1>3, Zenon
<1>6. k \in Nat /\ s \in Nat /\ Top \in Nat /\ CohSize \in Nat /\ s > Trash /\ Dummy < Trash
      /\ Trash \in Nat /\ Dummy \in Nat
  BY <1>1, <1>2, Numbers, DmaAssumption
<1> DEFINE W == i .. i + 1 - 1
<1>7. /\ k - 1 \in Nat /\ k - 1 <= CohSize /\ i \in Nat /\ 1 \in Nat \ {0} /\ i + 1 - 1 \in 0 .. Top
      /\ W \subseteq lo .. lo + CohSize - 1 /\ (i + 1) - 1 = i + 1 - 1
      /\ \A p : p \in lo .. lo + (k - 1) - 1 <=> p \in lo .. lo + k - 1 /\ p \notin W
      /\ \A p \in W : p = i /\ p \in lo .. lo + k - 1
      /\ s + (i - lo) # Dummy
      /\ \A p \in lo .. lo + k - 1 : p \in 0 .. Top
  <2>1. /\ i = lo + k - 1 /\ lo + CohSize - 1 <= Top /\ k <= CohSize /\ k > 0
        /\ lo \in Nat /\ k \in Nat /\ s \in Nat /\ Top \in Nat /\ CohSize \in Nat
        /\ s > Trash /\ Dummy < Trash /\ Trash \in Nat /\ Dummy \in Nat
    BY <1>2, <1>3, <1>4, <1>6, Zenon
  <2>2. /\ k - 1 \in Nat /\ k - 1 <= CohSize /\ i \in Nat /\ 1 \in Nat \ {0}
        /\ i + 1 - 1 = i /\ (i + 1) - 1 = i + 1 - 1 /\ i <= Top /\ s + (i - lo) # Dummy
    BY <2>1
  <2>3. i + 1 - 1 \in 0 .. Top /\ W \subseteq lo .. lo + CohSize - 1
    BY <2>1, <2>2
  <2>4. \A p : p \in lo .. lo + (k - 1) - 1 <=> p \in lo .. lo + k - 1 /\ p \notin W
    BY <2>1, <2>2, SMTT(20)
  <2>5. \A p \in W : p = i /\ p \in lo .. lo + k - 1
    BY <2>1, <2>2, SMTT(20)
  <2>6. \A p \in lo .. lo + k - 1 : p \in 0 .. Top
    BY <2>1, <2>2, SMTT(20)
  <2> HIDE DEF W
  <2> QED  BY <2>2, <2>3, <2>4, <2>5, <2>6, Zenon
<1>8. Prefix(c) = lo .. lo + k - 1 /\ Pages(rng[c]) = lo .. lo + CohSize - 1
      /\ \A p \in Prefix(c) : At(pt, p) = s + (p - lo)
  BY <1>1, <1>2, <1>4, Zenon DEF Prefix, Pages, MapInv, Exact
<1>9. \A p \in W : pt[l1(p)] # NoTable
  <2>1. ASSUME NEW p \in W PROVE At(pt, p) # Dummy
    BY <1>7, <1>8, <2>1, Zenon
  <2> QED  BY <2>1, Zenon DEF At
<1>10. pt' \in Tables /\ Cleared(pt, pt', i, i + 1)
  <2>1. /\ l2_unmap(pt, i, 1).pt \in Tables
        /\ ~l2_unmap(pt, i, 1).skipped => Cleared(pt, l2_unmap(pt, i, 1).pt, i, i + 1)
        /\ (\A p \in i .. i + 1 - 1 : pt[l1(p)] # NoTable) => ~l2_unmap(pt, i, 1).skipped
    <3>1. pt \in Tables /\ i \in Nat /\ 1 \in Nat \ {0} /\ i + 1 - 1 \in 0 .. Top
      BY <1>1, <1>7, Zenon
    <3> QED  BY <3>1, UnmapAt, Zenon
  <2> QED  BY <1>3, <1>9, <2>1, Zenon
<1>11. \A p \in 0 .. Top : At(pt', p) = IF p \in W THEN Dummy ELSE At(pt, p)
  <2>1. \A p \in 0 .. Top : At(pt', p) = IF p \in i .. (i + 1) - 1 THEN Dummy ELSE At(pt, p)
    BY <1>10, Zenon DEF Cleared
  <2>2. W = i .. (i + 1) - 1
    BY <1>7, Zenon
  <2> HIDE DEF W
  <2> QED  BY <2>1, <2>2, Zenon
<1>12. Others(c) /\ Shaped'
  BY <1>1, <1>3, <1>7, <1>10, OwnStep, Zenon
<1>13. BufOK(c)' /\ Live(c)' = k - 1
  BY <1>1, <1>3, <1>4, <1>5, <1>7, Zenon DEF Placed, CohOK, Mapping
<1>14. Watched(c, W)
  BY <1>3, Zenon DEF Watched, Given
<1>15. Prefix(c)' = lo .. lo + (k - 1) - 1
  BY <1>2, <1>5, <1>13, Zenon DEF Prefix
<1> HIDE DEF W
<1>16. \A p \in Prefix(c)' : At(pt', p) = Base[c] + (p - rng'[c].lo)
  <2>1. \A p \in Prefix(c)' : At(pt', p) = s + (p - lo)
    BY <1>7, <1>8, <1>11, <1>15, Zenon
  <2> QED  BY <1>2, <1>5, <2>1, Zenon
<1>17. \A p \in 0 .. Top : p \in Prefix(c) \/ p \in W => p \in Prefix(c)' \/ At(pt', p) = Dummy
  BY <1>7, <1>8, <1>11, <1>15, Zenon
<1>18. W \subseteq Pages(rng[c]) /\ \A p \in 0 .. Top : p \notin W => At(pt', p) = At(pt, p)
  BY <1>7, <1>8, <1>11, Zenon
<1>19. StepOf(c, W)
  BY <1>12, <1>13, <1>14, <1>16, <1>17, <1>18, Zenon DEF StepOf, Changes
<1> QED  BY <1>19, Zenon

\* ipu6_mmu_unmap in ipu6_dma_free, where it skips nothing.
LEMMA CohUnmapStep ==
    ASSUME Induction, RangesInv, Unmapped, MapInv, NEW c \in Coherent, CohUnmap(c), ~skipped'
    PROVE  StepOf(c, Pages(rng[c]))
<1>1. /\ c \in Buffers /\ DOMAIN pc = Buffers /\ Placed(c) /\ CohOK(c)
      /\ BufOK(c)' <=> Placed(c)' /\ CohOK(c)'
  BY CohFacts, Zenon
<1>2. /\ pc[c] = "table" /\ UnmapRange(c, "drop") /\ UNCHANGED <<rng, ent, sg, nents, inuse>>
  BY Zenon DEF CohUnmap, dmaVars, cohVars
<1>3. pc'[c] = "drop" /\ rng'[c] = rng[c] /\ ent'[c] = ent[c]
  BY <1>1, <1>2, Zenon DEF UnmapRange, Goto
<1>4. rng[c] # NoRange /\ Placed(c)' /\ CohOK(c)'
  BY <1>1, <1>2, <1>3, Zenon DEF Placed, CohOK, Mapping
<1> QED  BY <1>1, <1>2, <1>4, UnmapStep, Zenon

-----------------------------------------------------------------------------
(* The threads together, and the device.                                   *)

\* tlb_invalidate: nothing of the buffer is mapped, before or after, and the
\* device holds no translation afterwards, unless it is running and the MMU is
\* not set up.
LEMMA InvalidateKeeps ==
    ASSUME Induction, RangesInv, RangesInv', Unmapped, MapInv, PowerOK, NEW o \in Buffers, Invalidate(o)
    PROVE  MapInv' /\ TlbOK' /\ PowerOK'
<1>1. /\ pc[o] = "inval" /\ pc' = [pc EXCEPT ![o] = "free"]
      /\ pt' = pt /\ rng' = rng /\ ent' = ent /\ sg' = sg /\ nents' = nents /\ inuse' = inuse
      /\ ready' = ready /\ power' = power
      /\ tlb' = (IF ready THEN NoTlb ELSE tlb) /\ unflushed' = (unflushed \/ (power /\ ~ready))
  BY Zenon DEF Invalidate, Goto, cohVars
<1>2. DOMAIN pc = Buffers /\ BufOK(o) /\ pt \in Tables
  BY Zenon DEF Unmapped, MapInv
<1>3. pc'[o] = "free"
  BY <1>1, <1>2, Zenon
<1>4. Others(o) /\ Shaped'
  BY <1>1, <1>2, OwnStep, Zenon
<1>5. Prefix(o) = {} /\ Prefix(o)' = {}
  <2>1. Live(o) = 0 /\ Live(o)' = 0
    BY <1>1, <1>3, Zenon DEF Live, Mapping
  <2> QED  BY <2>1, NoPrefix, Zenon DEF RangesInv
<1>6. Placed(o)'
  BY <1>1, <1>2, Zenon DEF BufOK, Placed
<1>7. o \in Sg => SgOK(o)'
  BY <1>1, <1>2, <1>3, Zenon DEF BufOK, SgOK
<1>8. o \in Coherent => CohOK(o)'
  BY <1>1, <1>2, <1>3, Zenon DEF BufOK, CohOK, Mapping
<1>9. Changes(o, {})
  BY <1>1, <1>4, <1>5, <1>6, <1>7, <1>8, Zenon DEF Changes, BufOK
<1>10. MapInv'
  BY <1>9, StepKeeps, Zenon
<1>11. TlbOK' /\ PowerOK'
  BY <1>1, Zenon DEF TlbOK, PowerOK
<1> QED  BY <1>10, <1>11, Zenon

\* Every other step of a thread is a StepOf, of its buffer.
LEMMA SgSteps ==
    ASSUME Induction, RangesInv, RangesInv', Unmapped, MapInv, ~skipped', NEW b \in Sg,
           SgStep(b), ~Invalidate(b)
    PROVE  (\E W : StepOf(b, W)) /\ UNCHANGED hwVars
<1>0. b \in Buffers
  BY Zenon DEF Buffers
<1>1. CASE MapSg(b) \/ MapSgFull(b)
  BY <1>0, <1>1, MapSgQuiet, QuietStep, Zenon DEF MapSg, MapSgFull
<1>2. CASE UnmapSg(b) \/ FreeIova(b)
  BY <1>0, <1>2, UnmapSgQuiet, QuietStep, Zenon DEF UnmapSg, FreeIova
<1>3. CASE MapEntry(b)
  BY <1>3, MapEntryStep, Zenon DEF MapEntry
<1>4. CASE MapEntryFails(b)
  BY <1>4, MapEntryFailsStep, Zenon DEF MapEntryFails
<1>5. CASE Restore(b)
  BY <1>0, <1>5, RestoreQuiet, QuietStep, Zenon DEF Restore
<1>6. CASE UnmapTable(b)
  BY <1>6, UnmapTableStep, Zenon DEF UnmapTable
<1> QED  BY <1>1, <1>2, <1>3, <1>4, <1>5, <1>6, Zenon DEF SgStep

\* The same for a coherent buffer.
LEMMA CohSteps ==
    ASSUME Induction, RangesInv, RangesInv', Unmapped, MapInv, ~skipped', NEW c \in Coherent,
           CohStep(c), ~Invalidate(c)
    PROVE  (\E W : StepOf(c, W)) /\ UNCHANGED hwVars
<1>0. c \in Buffers
  BY Zenon DEF Buffers
<1>1. CASE CohAlloc(c) \/ CohFreeIova(c)
  BY <1>0, <1>1, CohRangeQuiet, QuietStep, Zenon DEF CohAlloc, CohFreeIova
<1>2. CASE \/ CohPages(c) \/ CohPagesFail(c) \/ CohMapFails(c) \/ CohVmap(c) \/ CohVmapFails(c)
           \/ CohListAdd(c) \/ CohUnwound(c) \/ CohFree(c) \/ CohFreeLost(c) \/ CohDrop(c)
  <2>1. UNCHANGED hwVars
    BY <1>2, Zenon DEF CohPages, CohPagesFail, CohMapFails, CohVmap, CohVmapFails, CohListAdd,
                       CohUnwound, CohFree, CohFreeLost, CohDrop
  <2>2. Quiet(c)
    BY <1>2, CohMoving, CohMovesQuiet, Zenon
  <2> QED  BY <1>0, <2>1, <2>2, QuietStep, Zenon
<1>3. CASE CohMapPage(c)
  BY <1>3, CohMapPageStep, Zenon DEF CohMapPage
<1>4. CASE CohUnwind(c)
  BY <1>4, CohUnwindStep, Zenon DEF CohUnwind
<1>5. CASE CohUnmap(c)
  BY <1>5, CohUnmapStep, Zenon DEF CohUnmap
<1> QED  BY <1>1, <1>2, <1>3, <1>4, <1>5, Zenon DEF CohStep

\* The mapping is that of the page table and of where the threads are.
LEMMA SameMapping ==
    ASSUME MapInv, UNCHANGED <<pt, rng, pc, ent, sg, nents, inuse>>
    PROVE  MapInv'
<1>1. \A o \in Buffers : Prefix(o)' = Prefix(o)
  BY Zenon DEF Prefix, Live, Depth
<1>2. \A b \in Sg : Addresses(b)' = Addresses(b)
  BY Zenon DEF Addresses
<1>3. \A b \in Sg : SgOK(b) => SgOK(b)'
  BY <1>2, Zenon DEF SgOK
<1>4. \A c \in Coherent : CohOK(c) => CohOK(c)'
  BY Zenon DEF CohOK
<1>5. \A o \in Buffers : Placed(o) => Placed(o)'
  BY Zenon DEF Placed
<1>6. Exact => Exact'
  BY <1>1, Zenon DEF Exact
<1> QED  BY <1>3, <1>4, <1>5, <1>6, Zenon DEF MapInv, BufOK

\* While the device is off it holds no translation and the MMU is not set up.
LEMMA DevicePower ==
    ASSUME PowerOK, Device
    PROVE  PowerOK'
<1>1. CASE HwInit
  BY <1>1 DEF PowerOK, HwInit
<1>2. CASE HwCleanup
  BY <1>2, Zenon DEF PowerOK, HwCleanup
<1>3. CASE PowerOff
  BY <1>3, Zenon DEF PowerOK, PowerOff
<1>4. CASE PowerOffFails
  BY <1>4, Zenon DEF PowerOK, PowerOffFails
<1>5. CASE \E p \in 1 .. Top : Fetch(p)
  <2>1. ready /\ ready' = ready /\ power' = power
    BY <1>5, Zenon DEF Fetch
  <2> QED  BY <2>1, Zenon DEF PowerOK
<1> QED  BY <1>1, <1>2, <1>3, <1>4, <1>5, Zenon DEF Device

\* What the device does with the MMU and the TLB.
LEMMA DeviceKeeps ==
    ASSUME MapInv, TlbOK, Device
    PROVE  MapInv' /\ TlbOK'
<1>1. UNCHANGED <<pt, rng, pc, ent, sg, nents, inuse>>
  BY Zenon DEF Device, HwInit, HwCleanup, PowerOff, PowerOffFails, Fetch, dmaVars, cohVars
<1>2. MapInv'
  BY <1>1, SameMapping, Zenon
<1>3. CASE HwInit \/ HwCleanup \/ PowerOffFails
  <2>1. tlb' = tlb /\ unflushed' = unflushed
    BY <1>3, Zenon DEF HwInit, HwCleanup, PowerOffFails
  <2> QED  BY <1>1, <1>2, <2>1, Zenon DEF TlbOK
<1>4. CASE PowerOff
  BY <1>2, <1>4, Zenon DEF PowerOff, TlbOK
<1>5. ASSUME NEW p \in 1 .. Top, Fetch(p) PROVE TlbOK'
  <2>1. /\ tlb' = [page |-> p, frame |-> Translate(p)]
        /\ \/ p \in TrashRange.lo .. Top
           \/ \E o \in Buffers : Published(o) /\ p \in rng[o].lo .. rng[o].lo + rng[o].n - 1
    BY <1>5, Zenon DEF Fetch
  <2>2. tlb'.page = p /\ tlb'.frame = At(pt', tlb'.page)
    BY <1>1, <2>1, Zenon DEF Translate, At
  <2>3. TrashRange.lo .. Top = Pages(TrashRange)
    BY DmaAssumption, Numbers DEF TrashRange, Pages
  <2>4. CASE p \in TrashRange.lo .. Top
    BY <2>2, <2>3, <2>4, Zenon DEF TlbOK
  <2>5. CASE \E o \in Buffers : Published(o) /\ p \in rng[o].lo .. rng[o].lo + rng[o].n - 1
    <3>1. PICK o \in Buffers : Published(o) /\ p \in Pages(rng[o])
      BY <2>5, Zenon DEF Pages
    <3>2. p \in Pages(rng'[o]) /\ pc'[o] \in Given
      BY <1>1, <3>1, Zenon DEF Published, Given
    <3> QED  BY <2>2, <3>2, Zenon DEF TlbOK
  <2> QED  BY <2>1, <2>4, <2>5, Zenon
<1> QED  BY <1>2, <1>3, <1>4, <1>5, Zenon DEF Device

\* The whole invariant.
DmaInv ==
    /\ RangesInv /\ Unmapped /\ PowerOK
    /\ ~skipped => MapInv /\ TlbOK

\* What was skipped stays skipped.
LEMMA SkippedStays ==
    ASSUME Next, ~skipped'
    PROVE  ~skipped
<1>1. CASE \E b \in Sg : SgStep(b)
  BY <1>1, Zenon DEF SgStep, MapSg, MapSgFull, MapEntry, MapEntryFails, UnmapSg, Restore,
       UnmapTable, UnmapRange, Invalidate, FreeIova
<1>2. CASE \E c \in Coherent : CohStep(c)
  BY <1>2, Zenon DEF CohStep, CohAlloc, CohPages, CohPagesFail, CohMapPage, CohMapFails,
       CohVmap, CohVmapFails, CohListAdd, CohUnwind, CohUnwound, CohFree, CohFreeLost,
       CohUnmap, UnmapRange, CohDrop, Invalidate, CohFreeIova
<1>3. CASE Device
  BY <1>3, Zenon DEF Device, HwInit, HwCleanup, PowerOff, PowerOffFails, Fetch
<1> QED  BY <1>1, <1>2, <1>3, Zenon DEF Next

\* The MMU and the TLB are left alone by the threads, but for tlb_invalidate.
LEMMA ThreadsLeave ==
    ASSUME NEW o \in Buffers, (o \in Sg /\ SgStep(o)) \/ (o \in Coherent /\ CohStep(o)), PowerOK
    PROVE  PowerOK'
<1>1. Invalidate(o) \/ UNCHANGED hwVars
  <2>1. CASE o \in Sg /\ SgStep(o)
    BY <2>1, Zenon DEF SgStep, MapSg, MapSgFull, MapEntry, MapEntryFails, UnmapSg, Restore,
         UnmapTable, FreeIova
  <2>2. CASE o \in Coherent /\ CohStep(o)
    BY <2>2, Zenon DEF CohStep, CohAlloc, CohPages, CohPagesFail, CohMapPage, CohMapFails,
         CohVmap, CohVmapFails, CohListAdd, CohUnwind, CohUnwound, CohFree, CohFreeLost,
         CohUnmap, CohDrop, CohFreeIova
  <2> QED  BY <2>1, <2>2, Zenon
<1> QED  BY <1>1, Zenon DEF PowerOK, hwVars, Invalidate

\* No step breaks the invariant, whoever takes it.
LEMMA DmaStep ==
    Induction /\ DmaInv /\ [Next]_vars => DmaInv'
<1> SUFFICES ASSUME Induction, DmaInv, [Next]_vars PROVE DmaInv'
  BY Zenon
<1>1. RangesInv /\ Unmapped /\ PowerOK /\ (~skipped => MapInv /\ TlbOK)
  BY Zenon DEF DmaInv
<1>2. RangesInv' /\ Unmapped'
  BY <1>1, RangesStep, ZenonT(30)
<1>3. CASE UNCHANGED vars
  <2>1. UNCHANGED <<pt, rng, pc, ent, sg, nents, inuse, tlb, ready, power, skipped, unflushed>>
    BY <1>3, Zenon DEF vars
  <2>2. PowerOK' /\ (TlbOK => TlbOK')
    BY <1>1, <2>1, Zenon DEF PowerOK, TlbOK
  <2>3. MapInv => MapInv'
    BY <2>1, SameMapping, Zenon
  <2> QED  BY <1>1, <1>2, <2>1, <2>2, <2>3, Zenon DEF DmaInv
<1>4. ASSUME Next PROVE PowerOK'
  <2>1. CASE Device
    BY <1>1, <2>1, DevicePower, Zenon
  <2>2. CASE ~Device
    BY <1>1, <1>4, <2>2, ThreadsLeave, Zenon DEF Next, Buffers
  <2> QED  BY <2>1, <2>2, Zenon
<1>5. ASSUME Next, ~skipped' PROVE MapInv' /\ TlbOK'
  <2>1. MapInv /\ TlbOK
    BY <1>1, <1>5, SkippedStays, Zenon
  <2>2. CASE Device
    BY <1>1, <2>1, <2>2, DeviceKeeps, Zenon
  <2>3. ASSUME NEW o \in Buffers, (\E W : StepOf(o, W)) /\ UNCHANGED hwVars
        PROVE  MapInv' /\ TlbOK'
    <3>1. PICK W : StepOf(o, W)
      BY <2>3, Zenon
    <3>2. Changes(o, W)
      BY <3>1, Zenon DEF StepOf
    <3>3. MapInv'
      BY <1>1, <2>1, <3>2, StepKeeps, Zenon
    <3>4. TlbOK'
      BY <1>1, <2>1, <2>3, <3>1, StepWatched, Zenon
    <3> QED  BY <3>3, <3>4, Zenon
  <2>4. ASSUME NEW b \in Sg, SgStep(b) PROVE MapInv' /\ TlbOK'
    <3>1. b \in Buffers
      BY Zenon DEF Buffers
    <3>2. CASE Invalidate(b)
      BY <1>1, <1>2, <2>1, <3>1, <3>2, InvalidateKeeps, Zenon
    <3>3. CASE ~Invalidate(b)
      BY <1>1, <1>2, <1>5, <2>1, <2>3, <2>4, <3>1, <3>3, SgSteps, Zenon
    <3> QED  BY <3>2, <3>3, Zenon
  <2>5. ASSUME NEW c \in Coherent, CohStep(c) PROVE MapInv' /\ TlbOK'
    <3>1. c \in Buffers
      BY Zenon DEF Buffers
    <3>2. CASE Invalidate(c)
      BY <1>1, <1>2, <2>1, <3>1, <3>2, InvalidateKeeps, Zenon
    <3>3. CASE ~Invalidate(c)
      BY <1>1, <1>2, <1>5, <2>1, <2>3, <2>5, <3>1, <3>3, CohSteps, Zenon
    <3> QED  BY <3>2, <3>3, Zenon
  <2> QED  BY <1>5, <2>2, <2>4, <2>5, Zenon DEF Next
<1> QED  BY <1>2, <1>3, <1>4, <1>5, Zenon DEF DmaInv

\* It holds when the device has been probed: the tables have the trash range.
LEMMA DmaInit == Induction /\ Init => DmaInv
<1> SUFFICES ASSUME Induction, Init PROVE DmaInv
  BY Zenon
<1>1. RangesInv /\ Unmapped
  BY Trashing, Zenon DEF Init, RangesInv, Unmapped, PCs, Buffers
<1>2. PowerOK /\ TlbOK
  BY Zenon DEF Init, PowerOK, TlbOK
<1>3. PICK lo : lo = TrashRange.lo
  BY Zenon
<1>4. lo \in Nat /\ Pages(TrashRange) = lo .. Top
  BY <1>3, DmaAssumption, Numbers DEF TrashRange, Pages
<1> DEFINE T(l) == [j \in L2s |-> IF l * NL2 + j >= lo THEN Trash ELSE Dummy]
<1>5. pt = [l \in L1s |-> IF l < l1(lo) THEN NoTable ELSE T(l)]
  BY <1>3, Zenon DEF Init
<1>6. pt \in Tables
  <2>1. \A l : T(l) \in [L2s -> Nat]
    BY Numbers, Zenon
  <2> HIDE DEF T
  <2> QED  BY <1>5, <2>1, Zenon DEF Tables
<1>7. ASSUME NEW p \in 0 .. Top
      PROVE  At(pt, p) = IF p \in lo .. Top THEN Trash ELSE Dummy
  <2>1. p \in Nat /\ l1(p) \in L1s
    BY Aperture, Zenon
  <2>2. /\ l1(p) \in Nat /\ l2(p) \in L2s /\ p = l1(p) * NL2 + l2(p) /\ l1(lo) \in Nat
    BY <1>4, <2>1, Split, Zenon
  <2>3. p \in lo .. Top <=> p >= lo
    BY <1>4, <1>7, <2>1, Numbers
  <2>4. CASE l1(p) < l1(lo)
    <3>1. ~(p >= lo)
      <4> SUFFICES ASSUME p >= lo PROVE FALSE
        BY Zenon
      <4>1. lo <= p
        BY <1>4, <2>1
      <4>2. l1(lo) <= l1(p)
        BY <1>4, <2>1, <4>1, Ordered, Zenon
      <4>3. PICK x, y : x = l1(p) /\ y = l1(lo)
        BY Zenon
      <4>4. x \in Nat /\ y \in Nat /\ y <= x /\ x < y
        BY <2>2, <2>4, <4>2, <4>3, Zenon
      <4> QED  BY <4>4
    <3>2. pt[l1(p)] = NoTable
      BY <1>5, <2>1, <2>4, Zenon
    <3> QED  BY <2>3, <3>1, <3>2, Zenon DEF At
  <2>5. CASE ~(l1(p) < l1(lo))
    <3>1. pt[l1(p)] = T(l1(p))
      BY <1>5, <2>1, <2>5, Zenon
    <3>2. T(l1(p)) # NoTable
      BY TableThere, Zenon
    <3>3. T(l1(p))[l2(p)] = IF p >= lo THEN Trash ELSE Dummy
      BY <2>2, Zenon
    <3> HIDE DEF T
    <3> QED  BY <2>3, <3>1, <3>2, <3>3, Zenon DEF At
  <2> QED  BY <2>4, <2>5, Zenon
<1>8. \A o \in Buffers : Prefix(o) = {}
  <2>1. \A o \in Buffers : Live(o) = 0
    BY Zenon DEF Init, Live
  <2> QED  BY <1>1, <2>1, NoPrefix, Zenon DEF RangesInv
<1>9. Exact
  <2>1. lo .. Top \subseteq 0 .. Top
    BY <1>4, Numbers
  <2> QED  BY <1>4, <1>7, <1>8, <2>1, Zenon DEF Exact
<1>10. \A o \in Buffers : BufOK(o)
  <2>1. \A b \in Sg : 0 <= Len(Sizes[b])
    <3>1. \A b \in Sg : Len(Sizes[b]) \in Nat
      BY Entries
    <3> QED  BY <3>1
  <2>2. 0 <= CohSize
    BY DmaAssumption
  <2>3. \A b \in Sg : b \in Buffers
    BY Zenon DEF Buffers
  <2>4. \A b \in Sg : SgOK(b)
    BY <2>1, <2>3, Zenon DEF Init, SgOK
  <2>5. \A c \in Coherent : CohOK(c)
    BY <2>2, Zenon DEF Init, CohOK, Mapping, Buffers
  <2>6. \A o \in Buffers : Placed(o)
    BY Zenon DEF Init, Placed
  <2> QED  BY <2>4, <2>5, <2>6, Zenon DEF BufOK
<1>11. ent \in [Buffers -> Nat] /\ sg = [b \in Sg |-> sg[b]]
  <2>1. 0 \in Nat
    OBVIOUS
  <2> QED  BY <2>1, Zenon DEF Init
<1> QED  BY <1>1, <1>2, <1>6, <1>9, <1>10, <1>11, Zenon DEF DmaInv, MapInv

\* What the device finds is what the table holds.
LEMMA Translates == \A p : Translate(p) = At(pt, p)
BY Zenon DEF Translate, At

\* A buffer that is mapped is mapped to the end.
LEMMA WholeLive ==
    ASSUME Induction, DmaInv, ~skipped
    PROVE  /\ \A b \in Sg : pc[b] = "on" /\ nents[b] > 0 =>
                 /\ rng[b].lo \in Nat /\ sg[b][1] = rng[b].lo /\ Live(b) = Total(b)
           /\ \A c \in Coherent : pc[c] = "on" => rng[c].lo \in Nat /\ Live(c) = CohSize
<1>1. RangesInv /\ Unmapped /\ MapInv
  BY Zenon DEF DmaInv
<1>2. ASSUME NEW b \in Sg, pc[b] = "on", nents[b] > 0
      PROVE  rng[b].lo \in Nat /\ sg[b][1] = rng[b].lo /\ Live(b) = Total(b)
  <2>1. /\ nents[b] \in Nat /\ Placed(b) /\ SgOK(b)
    BY <1>1, SgFacts, Zenon
  <2>2. nents[b] # 0
    BY <1>2, <2>1
  <2>3. /\ rng[b] # NoRange /\ rng[b].lo \in Nat /\ ent[b] = Len(Sizes[b]) /\ sg[b] = Addresses(b)
    BY <1>2, <2>1, <2>2, Zenon DEF SgOK, Placed
  <2>4. /\ Len(Sizes[b]) \in Nat \ {0} /\ DOMAIN Sizes[b] = 1 .. Len(Sizes[b])
        /\ Base[b] \in Nat /\ Total(b) \in Nat
        /\ Entry(b, 1) = Base[b] /\ Entry(b, Len(Sizes[b]) + 1) = Base[b] + Total(b)
    BY Entries
  <2>5. PICK L, lo, s, t : L = Len(Sizes[b]) /\ lo = rng[b].lo /\ s = Base[b] /\ t = Total(b)
    BY Zenon
  <2>6. L \in Nat \ {0} /\ lo \in Nat /\ s \in Nat /\ t \in Nat
    BY <2>3, <2>4, <2>5, Zenon
  <2>7. 1 \in 1 .. L /\ 1 <= L /\ lo + s - s = lo /\ (s + t) - s = t
    BY <2>6
  <2>8. sg[b][1] = rng[b].lo + Entry(b, 1) - Base[b]
    BY <2>3, <2>4, <2>5, <2>7, Zenon DEF Addresses
  <2>9. Live(b) = Entry(b, Len(Sizes[b]) + 1) - Base[b]
    BY <1>2, <2>3, Zenon DEF Live, Depth, Mapping
  <2> QED  BY <2>3, <2>4, <2>5, <2>7, <2>8, <2>9, Zenon
<1>3. ASSUME NEW c \in Coherent, pc[c] = "on" PROVE rng[c].lo \in Nat /\ Live(c) = CohSize
  <2>1. /\ Placed(c) /\ CohOK(c)
        /\ Live(c) = IF pc[c] \in Mapping /\ rng[c] # NoRange THEN ent[c] ELSE 0
    BY <1>1, CohFacts, Zenon
  <2> QED  BY <1>3, <2>1, Zenon DEF Placed, CohOK, Mapping
<1> QED  BY <1>2, <1>3, Zenon

\* What the invariant says of a buffer that is mapped,
LEMMA InvMapped == Induction /\ DmaInv => MappedTranslates
<1> SUFFICES ASSUME Induction, DmaInv, ~skipped
             PROVE  /\ \A b \in Sg : pc[b] = "on" /\ nents[b] > 0 =>
                          \A k \in 0 .. Total(b) - 1 : Translate(sg[b][1] + k) = Base[b] + k
                    /\ \A c \in Coherent : pc[c] = "on" =>
                          \A k \in 0 .. CohSize - 1 : Translate(rng[c].lo + k) = Base[c] + k
                    /\ \A p \in Pages(TrashRange) : Translate(p) = Trash
  BY Zenon DEF MappedTranslates
<1>1. Exact
  BY Zenon DEF DmaInv, MapInv
<1>2. ASSUME NEW o \in Buffers, NEW n \in Nat, Live(o) = n, rng[o].lo \in Nat, Base[o] \in Nat,
             NEW k \in 0 .. n - 1
      PROVE  Translate(rng[o].lo + k) = Base[o] + k
  <2>1. PICK lo, s : lo = rng[o].lo /\ s = Base[o]
    BY Zenon
  <2>2. lo \in Nat /\ s \in Nat
    BY <1>2, <2>1, Zenon
  <2>3. lo + k \in lo .. lo + n - 1 /\ s + ((lo + k) - lo) = s + k
    BY <2>2
  <2>4. lo + k \in Prefix(o)
    BY <1>2, <2>1, <2>3, Zenon DEF Prefix
  <2>5. At(pt, lo + k) = s + ((lo + k) - lo)
    BY <1>1, <2>1, <2>4, Zenon DEF Exact
  <2> QED  BY <2>1, <2>3, <2>5, Translates, Zenon
<1>3. /\ \A b \in Sg : b \in Buffers /\ Total(b) \in Nat /\ Base[b] \in Nat
      /\ \A c \in Coherent : c \in Buffers /\ Base[c] \in Nat
      /\ CohSize \in Nat
  <2>1. \A b \in Sg : Total(b) \in Nat
    BY Entries
  <2>2. CohSize \in Nat
    BY DmaAssumption
  <2> QED  BY <2>1, <2>2, DmaAssumption, Zenon DEF Buffers
<1>4. ASSUME NEW b \in Sg, pc[b] = "on" /\ nents[b] > 0, NEW k \in 0 .. Total(b) - 1
      PROVE  Translate(sg[b][1] + k) = Base[b] + k
  BY <1>2, <1>3, <1>4, WholeLive, Zenon
<1>5. ASSUME NEW c \in Coherent, pc[c] = "on", NEW k \in 0 .. CohSize - 1
      PROVE  Translate(rng[c].lo + k) = Base[c] + k
  BY <1>2, <1>3, <1>5, WholeLive, Zenon
<1>6. \A p \in Pages(TrashRange) : Translate(p) = Trash
  BY <1>1, Translates, Zenon DEF Exact
<1> QED  BY <1>4, <1>5, <1>6, Zenon

\* of the addresses in a scatter list,
LEMMA InvRestored == Induction /\ DmaInv => PciAddressesBack
<1> SUFFICES ASSUME Induction, DmaInv, ~skipped, NEW b \in Sg, pc[b] \in {"off", "inval", "free"}
             PROVE  sg[b] = PciAddresses(b)
  BY Zenon DEF PciAddressesBack
<1>1. SgOK(b)
  BY SgFacts, Zenon DEF DmaInv
<1> QED  BY <1>1, Zenon DEF SgOK

\* of the TLB,
LEMMA InvTlb == Induction /\ DmaInv => TlbCurrent
<1> SUFFICES ASSUME Induction, DmaInv, ~skipped PROVE TlbCurrent
  BY Zenon DEF TlbCurrent
<1>1. TlbOK
  BY Zenon DEF DmaInv
<1> QED  BY <1>1, Translates, Zenon DEF TlbOK, TlbCurrent

\* and of the pages that the table leads to.
LEMMA InvAllocated == Induction /\ DmaInv => (skipped \/ TableAllocated)
<1> SUFFICES ASSUME Induction, DmaInv, ~skipped, NEW p \in 1 .. Top, NEW c \in Coherent,
                    Translate(p) \in MemoryOf(c)
             PROVE  c \in inuse
  BY Zenon DEF TableAllocated
<1>1. RangesInv /\ Unmapped /\ MapInv /\ c \in Buffers
  BY Zenon DEF DmaInv, Buffers
<1>2. Base[c] \in Nat /\ Base[c] > Trash /\ SizeOf(c) \in Nat
  <2>1. CohSize \in Nat /\ SizeOf(c) = CohSize
    BY <1>1, CohFacts
  <2> QED  BY <1>1, <2>1, DmaAssumption, Zenon
<1>3. At(pt, p) \in Base[c] .. Base[c] + SizeOf(c) - 1
  BY Translates, Zenon DEF MemoryOf
<1>4. At(pt, p) # Dummy /\ At(pt, p) # Trash /\ p \in 0 .. Top
  BY <1>2, <1>3, Numbers
<1>5. PICK o \in Buffers : p \in Prefix(o)
  BY <1>1, <1>4, Zenon DEF MapInv, Exact
<1>6. At(pt, p) = Base[o] + (p - rng[o].lo)
  BY <1>1, <1>5, Zenon DEF MapInv, Exact
<1>7. BufOK(o) /\ ent[o] \in Nat /\ rng[o] \in IovaRanges
  BY <1>1, Zenon DEF MapInv, RangesInv
<1>8. Live(o) \in Nat /\ Live(o) <= SizeOf(o) /\ SizeOf(o) \in Nat
  BY <1>7, PrefixIn, Zenon
<1>9. Live(o) # 0
  BY <1>5, <1>7, NoPrefix, Zenon
<1>10. rng[o] # NoRange /\ rng[o].lo \in Nat
  BY <1>7, <1>9, Zenon DEF Live, BufOK, Placed
<1>11. At(pt, p) \in MemoryOf(o)
  <2>1. PICK lo, s, n, m, x : lo = rng[o].lo /\ s = Base[o] /\ n = Live(o) /\ m = SizeOf(o) /\ x = At(pt, p)
    BY Zenon
  <2>2. lo \in Nat /\ s \in Nat /\ n \in Nat /\ m \in Nat /\ n <= m /\ p \in lo .. lo + n - 1
        /\ x = s + (p - lo)
    BY <1>5, <1>6, <1>8, <1>10, <2>1, DmaAssumption, Zenon DEF Prefix
  <2>3. x \in s .. s + m - 1
    BY <2>2
  <2> QED  BY <2>1, <2>3, Zenon DEF MemoryOf
<1>12. At(pt, p) \in MemoryOf(c)
  BY Translates, Zenon
<1>13. o = c
  BY <1>11, <1>12, MemoryAssumption, Zenon
<1>14. /\ CohOK(c) /\ Live(c) = IF pc[c] \in Mapping /\ rng[c] # NoRange THEN ent[c] ELSE 0
  BY <1>1, CohFacts, Zenon
<1> QED  BY <1>9, <1>13, <1>14, Zenon DEF CohOK

-----------------------------------------------------------------------------
(* The theorems.                                                           *)

WF == INSTANCE WellFoundedInduction

\* The order of the natural numbers is well founded.
LEMMA NatLeast == Induction
<1> SUFFICES ASSUME NEW T \in SUBSET Nat, T # {}
             PROVE  \E x \in T : \A y \in T : x <= y
  BY Zenon DEF Induction
<1> DEFINE R == WF!OpToRel(<, Nat)
<1>1. WF!IsWellFoundedOn(R, Nat)
  BY WF!NatLessThanWellFounded, Zenon
<1>2. \A x, y \in Nat : <<y, x>> \in R <=> y < x
  BY DEF WF!OpToRel
<1> HIDE DEF R
<1>3. PICK x \in T : \A y \in T : ~(<<y, x>> \in R)
  BY <1>1, WF!WFMin, Zenon
<1>4. \A y \in T : ~(y < x)
  BY <1>2, <1>3, Zenon
<1> QED
  BY <1>3, <1>4

\* The invariant holds throughout.
LEMMA DmaAlways == Spec => []DmaInv
<1>1. Init => DmaInv
  BY DmaInit, NatLeast, Zenon
<1>2. DmaInv /\ [Next]_vars => DmaInv'
  BY DmaStep, NatLeast, Zenon
<1> QED  BY <1>1, <1>2, PTL DEF Spec

-----------------------------------------------------------------------------
\* Two buffers never share an address of the IPU, for any aperture, buffers and
\* failures of ipu6_dma_map_sg and ipu6_dma_alloc.
THEOREM AddressesExclusive == Spec => []RangesApart
<1>1. DmaInv => RangesApart
  BY Apart, Zenon DEF DmaInv
<1> QED  BY <1>1, DmaAlways, PTL

\* MappedTranslates for every aperture, every list of buffers and every number of
\* threads: a frame buffer or a message buffer that is mapped is found, page by
\* page, where it is in memory, as long as l2_unmap has skipped nothing.
THEOREM MappingFaithful == Spec => []MappedTranslates
BY InvMapped, NatLeast, DmaAlways, PTL

\* PciAddressesBack for every scatter list: once ipu6_dma_unmap_sg has restored
\* them, the addresses are those that the list had before it was mapped.
THEOREM AddressesRestored == Spec => []PciAddressesBack
BY InvRestored, NatLeast, DmaAlways, PTL

\* TlbCurrent for every sequence of suspends, failed power-offs and unmaps: a
\* translation that the device uses is the table's, or about to be invalidated,
\* or left by a tlb_invalidate that was skipped.
THEOREM TlbFollowsTable == Spec => []TlbCurrent
BY InvTlb, NatLeast, DmaAlways, PTL

\* TableAllocated, as long as l2_unmap has skipped nothing: no page table entry
\* leads to pages of a coherent buffer that ipu6_dma_free, or ipu6_dma_alloc when
\* it fails, has given back.
THEOREM TableFollowsPages == Spec => [](skipped \/ TableAllocated)
BY InvAllocated, NatLeast, DmaAlways, PTL
=============================================================================
