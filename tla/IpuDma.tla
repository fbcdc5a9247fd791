-------------------------------- MODULE IpuDma --------------------------------
(***************************************************************************)
(* The IPU's own address translation: the two-level page table of          *)
(* ipu6-mmu.c, and ipu6-dma.c on top of it, which maps the user's frame    *)
(* buffers (scatter lists) and allocates memory shared with the firmware   *)
(* ("coherent" below: message buffers, the syscom context).                *)
(*                                                                         *)
(* Every buffer is worked on by a thread of its own; threads meet in the   *)
(* page table (mmu_info->lock makes one l2_map or l2_unmap atomic), in the *)
(* allocator of address ranges, in vma_list, which no lock protects, and   *)
(* in the device's TLB.  Addresses count pages: IOVAs are 1 .. Top, and    *)
(* the frames of main memory, as the PCI bus sees them, lie above.         *)
(*                                                                         *)
(* The L1 entry and the pointer in l2_pts are always set together; NoTable *)
(* stands for both being unset.  skipped and unflushed record two events   *)
(* that the properties have to except.                                     *)
(*                                                                         *)
(* GapsOverlapping, InvalidateNever, RestoreNothing, FreeIovaKept and      *)
(* CohFreeEarly are mistaken variants of the definition below them, kept   *)
(* to show that the properties notice such mistakes.                       *)
(***************************************************************************)
EXTENDS Integers, Sequences

CONSTANTS
    NL1, NL2,       \* entries of the L1 table and of an L2 table
    Sg, Sizes,      \* frame buffers; the pages of each scatter list entry
    Coherent, CohSize,  \* coherent buffers and their pages
    Base,           \* the first frame of every buffer
    TrashSize,      \* pages of the trash range at the top of the aperture
    Faults          \* what may fail: an L2 table, pages, vmap, the power-off

FaultKinds == {"l2", "pages", "vmap", "power"}

Top == NL1 * NL2 - 1
Dummy == Top + 1
Trash == Top + 2
Buffers == Sg \cup Coherent

ASSUME DmaAssumption ==
    /\ NL1 \in Nat \ {0} /\ NL2 \in Nat \ {0}
    /\ TrashSize \in 1 .. Top /\ CohSize \in Nat \ {0}
    /\ Sizes \in [Sg -> Seq(Nat \ {0})]
    /\ Base \in [Buffers -> Nat] /\ \A o \in Buffers : Base[o] > Trash
    /\ Faults \subseteq FaultKinds

VARIABLES
    pt,         \* l1_pt and l2_pts
    ranges,     \* the allocated address ranges (iovad)
    rng,        \* the range of each buffer
    pc, ent,    \* where each thread is; entries or pages mapped so far
    sg, nents,  \* sg_dma_address of each entry, sgt->nents
    inuse,      \* the coherent buffers whose pages are allocated
    vma, seen,  \* mmu->vma_list; the list as list_add read it
    tlb,        \* one of the translations the device holds, any one
    ready, power,
    skipped,    \* l2_unmap met an address without a table
    unflushed   \* tlb_invalidate was skipped since power-on

vars == <<pt, ranges, rng, pc, ent, sg, nents, inuse, vma, seen, tlb, ready,
          power, skipped, unflushed>>
dmaVars == <<sg, nents>>
cohVars == <<inuse, vma, seen>>
hwVars == <<tlb, ready, power, unflushed>>

L1s == 0 .. NL1 - 1
L2s == 0 .. NL2 - 1
NoTable == <<>>
NoRange == [lo |-> 0, n |-> 0]
PCs == {"off", "map", "on", "restore", "table", "inval", "free",
        "pages", "vmap", "list", "unwind", "drop", "lost"}

\* Where each entry of b's scatter list starts, and where the last one ends.
EntryStarts(b) ==
    LET at[e \in 1 .. Len(Sizes[b]) + 1] == IF e = 1 THEN Base[b] ELSE at[e - 1] + Sizes[b][e - 1]
    IN  at
Entry(b, e) == EntryStarts(b)[e]
Total(b) == EntryStarts(b)[Len(Sizes[b]) + 1] - Base[b]
PciAddresses(b) == [e \in DOMAIN Sizes[b] |-> Entry(b, e)]

\* A scatter list has an entry, so a frame buffer has a page.
ASSUME SizesAssumption ==
    /\ Sg \cap Coherent = {}
    /\ \A b \in Sg : Sizes[b] # <<>>

SizeOf(o) == IF o \in Sg THEN Total(o) ELSE CohSize
MemoryOf(o) == Base[o] .. Base[o] + SizeOf(o) - 1

\* The memory shared with the firmware is no other buffer's.
ASSUME MemoryAssumption ==
    \A c \in Coherent, o \in Buffers : c # o => MemoryOf(c) \cap MemoryOf(o) = {}

l1(p) == p \div NL2
l2(p) == p % NL2

\* The range allocate_trash_buffer took when the device was probed.
TrashRange == [lo |-> Top - TrashSize + 1, n |-> TrashSize]
NoTlb == [page |-> 0, frame |-> 0]
EmptyTable == [j \in L2s |-> Dummy]

Init ==
    /\ pt = [l \in L1s |-> IF l < l1(TrashRange.lo) THEN NoTable
                           ELSE [j \in L2s |-> IF l * NL2 + j >= TrashRange.lo THEN Trash ELSE Dummy]]
    /\ ranges = {TrashRange}
    /\ rng = [o \in Buffers |-> NoRange]
    /\ pc = [o \in Buffers |-> "off"]
    /\ ent = [o \in Buffers |-> 0]
    /\ sg = [b \in Sg |-> PciAddresses(b)]
    /\ nents = [b \in Sg |-> 0]
    /\ inuse = {} /\ vma = {} /\ seen = [c \in Coherent |-> {}]
    /\ tlb = NoTlb /\ ready = FALSE /\ power = FALSE
    /\ skipped = FALSE /\ unflushed = FALSE

-----------------------------------------------------------------------------
(* The page table.                                                         *)

\* What the device finds: tables that are missing are the dummy table.
Translate(p) == IF pt[l1(p)] = NoTable THEN Dummy ELSE pt[l1(p)][l2(p)]

\* ipu6_mmu_iova_to_phys
iova_to_phys(p) == pt[l1(p)][l2(p)]

Missing(lo, n) == {l \in l1(lo) .. l1(lo + n - 1) : pt[l] = NoTable}
WithTables(ls) == [l \in L1s |-> IF l \in ls THEN EmptyTable ELSE pt[l]]

\* l2_map when every table it needs can be allocated.
l2_map(lo, frame, n) ==
    LET t == WithTables(Missing(lo, n))
    IN  [l \in L1s |-> IF t[l] = NoTable THEN NoTable
         ELSE [j \in L2s |-> LET p == l * NL2 + j
                             IN  IF p \in lo .. lo + n - 1 THEN frame + p - lo ELSE t[l][j]]]

\* One turn of l2_unmap's outer loop.  Where there is no table the code goes on
\* to the next L1 entry without moving its address.
UnmapTurn(acc, l) ==
    IF acc.size = 0 THEN acc
    ELSE IF acc.pt[l] = NoTable THEN [acc EXCEPT !.skipped = TRUE]
    ELSE LET first == l2(acc.iova)
             n == IF acc.size < NL2 - first THEN acc.size ELSE NL2 - first
         IN  [acc EXCEPT !.pt[l] = [j \in L2s |-> IF j \in first .. first + n - 1 THEN Dummy ELSE @[j]],
                         !.iova = @ + n, !.size = @ - n]

\* The state of that loop before each turn, and after the last.
UnmapTurns(t, lo, n) ==
    LET before[l \in l1(lo) .. NL1] ==
            IF l = l1(lo) THEN [pt |-> t, iova |-> lo, size |-> n, skipped |-> FALSE]
            ELSE UnmapTurn(before[l - 1], l - 1)
    IN  before
l2_unmap(t, lo, n) == UnmapTurns(t, lo, n)[NL1]

\* l2_map when the table for L1 entry f cannot be allocated: what was mapped
\* below it is unmapped again, the tables stay.
l2_map_fails(lo, n, f) ==
    LET t == WithTables({l \in Missing(lo, n) : l < f})
    IN  IF l1(lo) = f THEN t ELSE l2_unmap(t, lo, f * NL2 - lo).pt

-----------------------------------------------------------------------------
(* Address ranges.  alloc_iova looks downwards for a gap, so that a range  *)
(* ends just below another one or at the end of the aperture.              *)

Taken == UNION {r.lo .. r.lo + r.n - 1 : r \in ranges}
GapsOverlapping(n) ==
    {r \in [lo : 1 .. Top, n : {n}] :
        /\ r.lo + n - 1 <= Top
        /\ (r.lo .. r.lo + n - 2) \cap Taken = {}
        /\ r.lo + n - 1 = Top \/ r.lo + n \in Taken}
Gaps(n) ==
    {r \in [lo : 1 .. Top, n : {n}] :
        /\ r.lo + n - 1 <= Top
        /\ (r.lo .. r.lo + n - 1) \cap Taken = {}
        /\ r.lo + n - 1 = Top \/ r.lo + n \in Taken}

Goto(o, l) == pc' = [pc EXCEPT ![o] = l]

AllocIova(o, n, next) ==
    \E r \in Gaps(n) :
        /\ ranges' = ranges \cup {r}
        /\ rng' = [rng EXCEPT ![o] = r]
        /\ ent' = [ent EXCEPT ![o] = 0]
        /\ Goto(o, next)

\* l2_unmap of the buffer's whole range.
UnmapRange(o, next) ==
    LET u == l2_unmap(pt, rng[o].lo, rng[o].n)
    IN  /\ pt' = u.pt
        /\ skipped' = (skipped \/ u.skipped)
        /\ Goto(o, next)

\* tlb_invalidate: nothing is done while the MMU is not set up.
InvalidateNever(o) ==
    /\ pc[o] = "inval"
    /\ UNCHANGED tlb
    /\ unflushed' = (unflushed \/ (power /\ ~ready))
    /\ Goto(o, "free")
    /\ UNCHANGED <<pt, ranges, rng, ent, sg, nents, cohVars, ready, power, skipped>>
Invalidate(o) ==
    /\ pc[o] = "inval"
    /\ tlb' = IF ready THEN NoTlb ELSE tlb
    /\ unflushed' = (unflushed \/ (power /\ ~ready))
    /\ Goto(o, "free")
    /\ UNCHANGED <<pt, ranges, rng, ent, sg, nents, cohVars, ready, power, skipped>>

-----------------------------------------------------------------------------
(* Frame buffers: ipu6_isys_buf_init maps them, ipu6_isys_buf_cleanup      *)
(* unmaps them.                                                            *)

MapSg(b) ==
    /\ pc[b] = "off"
    /\ AllocIova(b, Total(b), "map")
    /\ UNCHANGED <<pt, dmaVars, cohVars, hwVars, skipped>>

\* ipu6_dma_map_sg returns 0, which ipu6_dma_map_sgtable does not take for an
\* error: the buffer counts as mapped with the addresses it had.
MapSgFull(b) ==
    /\ pc[b] = "off"
    /\ Gaps(Total(b)) = {}
    /\ Goto(b, "on")
    /\ UNCHANGED <<pt, ranges, rng, ent, dmaVars, cohVars, hwVars, skipped>>

NextIova(b) == rng[b].lo + Entry(b, ent[b] + 1) - Base[b]

MapEntry(b) ==
    /\ pc[b] = "map" /\ b \in Sg
    /\ pt' = l2_map(NextIova(b), sg[b][ent[b] + 1], Sizes[b][ent[b] + 1])
    /\ sg' = [sg EXCEPT ![b][ent[b] + 1] = NextIova(b)]
    /\ ent' = [ent EXCEPT ![b] = @ + 1]
    /\ IF ent[b] + 1 = Len(Sizes[b])
       THEN Goto(b, "on") /\ nents' = [nents EXCEPT ![b] = Len(Sizes[b])]
       ELSE UNCHANGED <<pc, nents>>
    /\ UNCHANGED <<ranges, rng, cohVars, hwVars, skipped>>

\* ipu6_dma_unmap_sg undoes the entries mapped so far.  It returns at once when
\* there are none, and the range stays allocated.
MapEntryFails(b) ==
    /\ pc[b] = "map" /\ b \in Sg
    /\ "l2" \in Faults
    /\ \E f \in Missing(NextIova(b), Sizes[b][ent[b] + 1]) :
        pt' = l2_map_fails(NextIova(b), Sizes[b][ent[b] + 1], f)
    /\ IF ent[b] = 0
       THEN Goto(b, "on") /\ rng' = [rng EXCEPT ![b] = NoRange]
       ELSE Goto(b, "restore") /\ UNCHANGED rng
    /\ UNCHANGED <<ranges, ent, dmaVars, cohVars, hwVars, skipped>>

UnmapSg(b) ==
    /\ pc[b] = "on" /\ b \in Sg
    /\ Goto(b, IF nents[b] = 0 THEN "off" ELSE "restore")
    /\ UNCHANGED <<pt, ranges, rng, ent, dmaVars, cohVars, hwVars, skipped>>

\* The PCI addresses go back into the scatter list.
RestoreNothing(b) ==
    /\ pc[b] = "restore"
    /\ Goto(b, "table")
    /\ UNCHANGED <<pt, ranges, rng, ent, sg, nents, cohVars, hwVars, skipped>>
Restore(b) ==
    /\ pc[b] = "restore"
    /\ sg' = [sg EXCEPT ![b] = [e \in DOMAIN @ |-> IF e <= ent[b] THEN iova_to_phys(@[e]) ELSE @[e]]]
    /\ Goto(b, "table")
    /\ UNCHANGED <<pt, ranges, rng, ent, nents, cohVars, hwVars, skipped>>

UnmapTable(b) ==
    /\ pc[b] = "table" /\ b \in Sg
    /\ UnmapRange(b, "inval")
    /\ UNCHANGED <<ranges, rng, ent, dmaVars, cohVars, hwVars>>

\* Back in ipu6_isys_buf_cleanup or, after a failure, in ipu6_dma_map_sg.
FreeIovaKept(b) ==
    /\ pc[b] = "free" /\ b \in Sg
    /\ ranges' = ranges \ {rng[b]}
    /\ Goto(b, IF nents[b] = 0 THEN "on" ELSE "off")
    /\ nents' = [nents EXCEPT ![b] = 0]
    /\ ent' = [ent EXCEPT ![b] = 0]
    /\ UNCHANGED <<pt, rng, sg, cohVars, hwVars, skipped>>
FreeIova(b) ==
    /\ pc[b] = "free" /\ b \in Sg
    /\ ranges' = ranges \ {rng[b]}
    /\ rng' = [rng EXCEPT ![b] = NoRange]
    /\ Goto(b, IF nents[b] = 0 THEN "on" ELSE "off")
    /\ nents' = [nents EXCEPT ![b] = 0]
    /\ ent' = [ent EXCEPT ![b] = 0]
    /\ UNCHANGED <<pt, sg, cohVars, hwVars, skipped>>

SgStep(b) ==
    \/ MapSg(b) \/ MapSgFull(b) \/ MapEntry(b) \/ MapEntryFails(b)
    \/ UnmapSg(b) \/ Restore(b) \/ UnmapTable(b) \/ Invalidate(b) \/ FreeIova(b)

-----------------------------------------------------------------------------
(* Coherent buffers: ipu6_dma_alloc and ipu6_dma_free.                     *)

CohAlloc(c) ==
    /\ pc[c] = "off"
    /\ AllocIova(c, CohSize, "pages")
    /\ UNCHANGED <<pt, dmaVars, cohVars, hwVars, skipped>>

CohPages(c) ==
    /\ pc[c] = "pages"
    /\ inuse' = inuse \cup {c}
    /\ Goto(c, "map")
    /\ UNCHANGED <<pt, ranges, rng, ent, dmaVars, vma, seen, hwVars, skipped>>

CohPagesFail(c) ==
    /\ pc[c] = "pages"
    /\ "pages" \in Faults
    /\ Goto(c, "free")
    /\ UNCHANGED <<pt, ranges, rng, ent, dmaVars, cohVars, hwVars, skipped>>

CohMapPage(c) ==
    /\ pc[c] = "map" /\ c \in Coherent
    /\ pt' = l2_map(rng[c].lo + ent[c], Base[c] + ent[c], 1)
    /\ ent' = [ent EXCEPT ![c] = @ + 1]
    /\ Goto(c, IF ent[c] + 1 = CohSize THEN "vmap" ELSE "map")
    /\ UNCHANGED <<ranges, rng, dmaVars, cohVars, hwVars, skipped>>

CohMapFails(c) ==
    /\ pc[c] = "map" /\ c \in Coherent
    /\ \/ "l2" \in Faults /\ Missing(rng[c].lo + ent[c], 1) # {}
       \/ "pages" \in Faults
    /\ Goto(c, "unwind")
    /\ UNCHANGED <<pt, ranges, rng, ent, dmaVars, cohVars, hwVars, skipped>>

\* list_add reads the head of vma_list, then writes it.
CohVmap(c) ==
    /\ pc[c] = "vmap"
    /\ seen' = [seen EXCEPT ![c] = vma]
    /\ Goto(c, "list")
    /\ UNCHANGED <<pt, ranges, rng, ent, dmaVars, inuse, vma, hwVars, skipped>>

CohVmapFails(c) ==
    /\ pc[c] = "vmap"
    /\ "vmap" \in Faults
    /\ Goto(c, "unwind")
    /\ UNCHANGED <<pt, ranges, rng, ent, dmaVars, cohVars, hwVars, skipped>>

CohListAdd(c) ==
    /\ pc[c] = "list"
    /\ vma' = seen[c] \cup {c}
    /\ seen' = [seen EXCEPT ![c] = {}]
    /\ Goto(c, "on")
    /\ UNCHANGED <<pt, ranges, rng, ent, dmaVars, inuse, hwVars, skipped>>

\* out_unmap: the pages mapped so far, the last one first.
CohUnwind(c) ==
    /\ pc[c] = "unwind"
    /\ ent[c] > 0
    /\ pt' = l2_unmap(pt, rng[c].lo + ent[c] - 1, 1).pt
    /\ ent' = [ent EXCEPT ![c] = @ - 1]
    /\ UNCHANGED <<ranges, rng, pc, dmaVars, cohVars, hwVars, skipped>>

CohUnwound(c) ==
    /\ pc[c] = "unwind"
    /\ ent[c] = 0
    /\ inuse' = inuse \ {c}
    /\ Goto(c, "free")
    /\ UNCHANGED <<pt, ranges, rng, ent, dmaVars, vma, seen, hwVars, skipped>>

CohFreeEarly(c) ==
    /\ pc[c] = "on" /\ c \in vma
    /\ inuse' = inuse \ {c}
    /\ vma' = vma \ {c}
    /\ Goto(c, "table")
    /\ UNCHANGED <<pt, ranges, rng, ent, dmaVars, seen, hwVars, skipped>>
CohFree(c) ==
    /\ pc[c] = "on" /\ c \in vma
    /\ vma' = vma \ {c}
    /\ Goto(c, "table")
    /\ UNCHANGED <<pt, ranges, rng, ent, dmaVars, inuse, seen, hwVars, skipped>>

\* get_vm_info does not find the buffer: a warning, and nothing is freed.
CohFreeLost(c) ==
    /\ pc[c] = "on" /\ c \in Coherent \ vma
    /\ Goto(c, "lost")
    /\ UNCHANGED <<pt, ranges, rng, ent, dmaVars, cohVars, hwVars, skipped>>

CohUnmap(c) ==
    /\ pc[c] = "table" /\ c \in Coherent
    /\ UnmapRange(c, "drop")
    /\ UNCHANGED <<ranges, rng, ent, dmaVars, cohVars, hwVars>>

\* __free_buffer, before the TLB is invalidated.
CohDrop(c) ==
    /\ pc[c] = "drop"
    /\ inuse' = inuse \ {c}
    /\ Goto(c, "inval")
    /\ UNCHANGED <<pt, ranges, rng, ent, dmaVars, vma, seen, hwVars, skipped>>

CohFreeIova(c) ==
    /\ pc[c] = "free" /\ c \in Coherent
    /\ ranges' = ranges \ {rng[c]}
    /\ rng' = [rng EXCEPT ![c] = NoRange]
    /\ Goto(c, "off")
    /\ ent' = [ent EXCEPT ![c] = 0]
    /\ UNCHANGED <<pt, dmaVars, cohVars, hwVars, skipped>>

CohStep(c) ==
    \/ CohAlloc(c) \/ CohPages(c) \/ CohPagesFail(c) \/ CohMapPage(c) \/ CohMapFails(c)
    \/ CohVmap(c) \/ CohVmapFails(c) \/ CohListAdd(c) \/ CohUnwind(c) \/ CohUnwound(c)
    \/ CohFree(c) \/ CohFreeLost(c) \/ CohUnmap(c) \/ CohDrop(c) \/ Invalidate(c)
    \/ CohFreeIova(c)

-----------------------------------------------------------------------------
(* The device.                                                             *)

\* ipu6_mmu_hw_init when the device is resumed.
HwInit ==
    /\ ~power
    /\ power' = TRUE /\ ready' = TRUE
    /\ UNCHANGED <<pt, ranges, rng, pc, ent, dmaVars, cohVars, tlb, skipped, unflushed>>

\* ipu6_mmu_hw_cleanup when it is suspended.
HwCleanup ==
    /\ ready
    /\ ready' = FALSE
    /\ UNCHANGED <<pt, ranges, rng, pc, ent, dmaVars, cohVars, tlb, power, skipped, unflushed>>

\* The TLB does not survive the power-off ...
PowerOff ==
    /\ power /\ ~ready
    /\ power' = FALSE /\ tlb' = NoTlb /\ unflushed' = FALSE
    /\ UNCHANGED <<pt, ranges, rng, pc, ent, dmaVars, cohVars, ready, skipped>>

\* ... but when that fails the device is resumed with what it had.
PowerOffFails ==
    /\ power /\ ~ready
    /\ "power" \in Faults
    /\ ready' = TRUE
    /\ UNCHANGED <<pt, ranges, rng, pc, ent, dmaVars, cohVars, tlb, power, skipped, unflushed>>

\* The device uses an address it was given, also while it is being taken away.
Published(o) == pc[o] \in {"on", "restore", "table"}
Fetch(p) ==
    /\ ready /\ tlb = NoTlb
    /\ \/ p \in TrashRange.lo .. Top
       \/ \E o \in Buffers : Published(o) /\ p \in rng[o].lo .. rng[o].lo + rng[o].n - 1
    /\ Translate(p) # Dummy
    /\ tlb' = [page |-> p, frame |-> Translate(p)]
    /\ UNCHANGED <<pt, ranges, rng, pc, ent, dmaVars, cohVars, ready, power, skipped, unflushed>>

Device == HwInit \/ HwCleanup \/ PowerOff \/ PowerOffFails \/ \E p \in 1 .. Top : Fetch(p)

Next == (\E b \in Sg : SgStep(b)) \/ (\E c \in Coherent : CohStep(c)) \/ Device
Spec == Init /\ [][Next]_vars

-----------------------------------------------------------------------------
Pages(r) == r.lo .. r.lo + r.n - 1

\* A page of the aperture belongs to one buffer at a time, and none to the trash
\* range, whatever maps fail half-way: ipu6_dma_map_sg and ipu6_dma_alloc give up
\* a range only when nothing of it is left in use.
RangesApart ==
    /\ \A a, b \in Buffers : a # b => Pages(rng[a]) \cap Pages(rng[b]) = {}
    /\ \A a \in Buffers : Pages(rng[a]) \cap Pages(TrashRange) = {}

\* A mapped buffer's addresses lead to its own memory, page by page, whatever
\* the other threads map, unmap or give up in the same tables, but for the
\* l2_unmap that skipped an address without a table.
MappedTranslates ==
    ~skipped =>
        /\ \A b \in Sg : pc[b] = "on" /\ nents[b] > 0 =>
            \A k \in 0 .. Total(b) - 1 : Translate(sg[b][1] + k) = Base[b] + k
        /\ \A c \in Coherent : pc[c] = "on" =>
            \A k \in 0 .. CohSize - 1 : Translate(rng[c].lo + k) = Base[c] + k
        /\ \A p \in Pages(TrashRange) : Translate(p) = Trash

\* A scatter list that is not mapped for the IPU holds its PCI addresses again,
\* for the caller's dma_unmap_sgtable: ipu6_dma_unmap_sg reads them back from
\* the page table it is about to clear.
PciAddressesBack ==
    ~skipped => \A b \in Sg : pc[b] \in {"off", "inval", "free"} => sg[b] = PciAddresses(b)

\* The page table never leads to pages given back to the system: ipu6_dma_free
\* and the error path of ipu6_dma_alloc clear the entries first.
TableAllocated ==
    \A p \in 1 .. Top, c \in Coherent : Translate(p) \in MemoryOf(c) => c \in inuse

\* A translation the device holds is the table's, unless its invalidation is
\* still to come or was skipped because the device was being suspended.
TlbCurrent ==
    \/ skipped \/ unflushed
    \/ tlb = NoTlb
    \/ tlb.frame = Translate(tlb.page)
    \/ \E o \in Buffers : pc[o] \in {"drop", "inval"} /\ tlb.page \in Pages(rng[o])

\* l2_unmap clears as many entries as it was told to: its WARN_ON_ONCE(size).
UnmapComplete ==
    \A o \in Buffers : pc[o] = "table" => l2_unmap(pt, rng[o].lo, rng[o].n).size = 0
=============================================================================
