---------------------------- MODULE SyscallProofs ----------------------------
(***************************************************************************)
(* Proofs about Syscall, for every page size, table size, pool, layout of  *)
(* the program and set of arguments: every frame has one owner and the     *)
(* bitmap knows it, the heap is exactly the pages up to the break, neither *)
(* a refused call nor a shrinking one can make free_page panic, and what   *)
(* the program sees of its memory is the heap that Break promises.         *)
(***************************************************************************)
EXTENDS Syscall, FiniteSetTheorems, WellFoundedInduction, TLAPS

-----------------------------------------------------------------------------
(* Page tables: what alloc_page returns, and that insert_mapping changes   *)
(* the mapping of one page and no other.                                   *)

LEMMA PageTableTypes ==
    /\ NumBits \in Nat \ {0} /\ PtSize \in Nat \ {0} /\ NumSlots \in Nat \ {0}
    /\ NoPage \notin Frames /\ Image \notin Frames /\ Image # NoPage
  BY BitmapAssumption, PageTableAssumption DEF Frames, Bits

LEMMA NatMin ==
    ASSUME NEW S \in SUBSET Nat, S # {}
    PROVE  \E x \in S : \A y \in S : x <= y
<1>1. PICK x \in S : \A y \in S : ~ (<<y, x>> \in OpToRel(<, Nat))
  BY NatLessThanWellFounded, WFMin
<1>2. \A y \in S : ~ (y < x)
  BY <1>1 DEF OpToRel
<1> QED
  BY <1>2

\* alloc_page(1) returns a free frame, or NoPage when every frame is taken.
LEMMA AllocPage ==
    ASSUME NEW bm \in Bitmaps
    PROVE  \/ alloc_page(bm) = NoPage /\ \A f \in Frames : bm[f]
           \/ alloc_page(bm) \in Frames /\ ~bm[alloc_page(bm)]
<1> USE PageTableTypes DEF Frames, Bits
<1> DEFINE F == Fits(bm, NumBits, 1)
<1>1. \A f \in Frames : f \in F <=> ~bm[f]
  <2>1. \A f \in Frames : Run(f, 1) = {f} /\ f + 1 <= NumBits
    BY DEF Run
  <2> QED
    BY <2>1 DEF Fits, FreeRun, is_page_allocated
<1>2. F \in SUBSET Nat /\ F \subseteq Frames
  BY DEF Fits
<1>3. CASE F = {}
  BY <1>1, <1>3 DEF alloc_page, FirstFit
<1>4. CASE F # {}
  <2>1. \E p \in F : \A q \in F : p <= q
    BY <1>2, <1>4, NatMin
  <2>2. alloc_page(bm) = CHOOSE p \in F : \A q \in F : p <= q
    BY <1>4 DEF alloc_page, FirstFit
  <2>3. alloc_page(bm) \in F
    BY <2>1, <2>2
  <2> QED
    BY <1>1, <1>2, <2>3
<1> QED
  BY <1>3, <1>4

LEMMA DivMod ==
    ASSUME NEW w \in Nat, w # 0, NEW x \in Nat
    PROVE  /\ x = w * (x \div w) + (x % w)
           /\ x \div w \in Nat
           /\ x % w \in 0 .. w - 1
  BY SMT

\* A pg number is given by its slot and its index.
LEMMA SlotIndex ==
    /\ \A p \in Nat : Slot(p) \in Nat /\ Index(p) \in Indices
    /\ \A p, q \in Nat : Slot(p) = Slot(q) /\ Index(p) = Index(q) => p = q
<1> USE PageTableTypes DEF Slot, Index, Indices
<1>1. ASSUME NEW p \in Nat
      PROVE  /\ p \div PtSize \in Nat /\ p % PtSize \in 0 .. PtSize - 1
             /\ p = PtSize * (p \div PtSize) + (p % PtSize)
  BY DivMod
<1>2. ASSUME NEW p \in Nat, NEW q \in Nat,
             p \div PtSize = q \div PtSize, p % PtSize = q % PtSize
      PROVE  p = q
  BY <1>1, <1>2
<1> QED
  BY <1>1, <1>2

Directory == [Slots -> Frames \cup {NoPage}]
Tables    == [Frames -> [Indices -> Entries]]

LEMMA MappingType ==
    ASSUME NEW pd \in Directory, NEW pt \in Tables,
           NEW p \in Nat, Slot(p) \in Slots
    PROVE  get_mapping(pd, pt, p) \in Entries
  BY SlotIndex, PageTableTypes DEF get_mapping, Directory, Tables, Entries

\* insert_mapping sets one entry and leaves the other mappings; the table it
\* takes when there is none was a free frame; it fails only when there is no
\* table and no free frame.
NotInserted(bm, pd, pt, pg, r) ==
    /\ ~r.ok
    /\ r.bitmap = bm /\ r.pdir = pd /\ r.ptab = pt
    /\ pd[Slot(pg)] = NoPage
    /\ \A f \in Frames : bm[f]

Inserted(bm, pd, pt, pg, entry, r) ==
    /\ r.ok
    /\ r.ptab \in Tables
    /\ \E t \in Frames :
          /\ r.pdir = [pd EXCEPT ![Slot(pg)] = t]
          /\ r.bitmap = [bm EXCEPT ![t] = TRUE]
          /\ \/ pd[Slot(pg)] = t
             \/ pd[Slot(pg)] = NoPage /\ ~bm[t]
    /\ \A p \in Nat : Slot(p) \in Slots =>
          get_mapping(r.pdir, r.ptab, p) =
              IF p = pg THEN entry ELSE get_mapping(pd, pt, p)

LEMMA InsertMapping ==
    ASSUME NEW bm \in Bitmaps, NEW pd \in Directory, NEW pt \in Tables,
           \A s, t \in Slots : pd[s] = pd[t] /\ pd[s] # NoPage => s = t,
           \A s \in Slots : pd[s] # NoPage => bm[pd[s]],
           NEW pg \in Nat, Slot(pg) \in Slots, NEW entry \in Entries,
           NEW r, r = insert_mapping(bm, pd, pt, pg, entry)
    PROVE  \/ NotInserted(bm, pd, pt, pg, r)
           \/ Inserted(bm, pd, pt, pg, entry, r)
<1> USE PageTableTypes DEF Tables, Entries
<1> DEFINE missing == pd[Slot(pg)] = NoPage
           table == IF missing THEN alloc_page(bm) ELSE pd[Slot(pg)]
           old == IF missing THEN EmptyTable ELSE pt[table]
           new == [old EXCEPT ![Index(pg)] = entry]
<1>1. CASE table = NoPage
  <2>1. missing
    BY <1>1
  <2>2. r = [ok |-> FALSE, bitmap |-> bm, pdir |-> pd, ptab |-> pt]
    BY <1>1 DEF insert_mapping
  <2> QED
    BY <1>1, <2>1, <2>2, AllocPage DEF NotInserted
<1>2. CASE table # NoPage
  <2>1. r = [ok |-> TRUE,
             bitmap |-> [bm EXCEPT ![table] = TRUE],
             pdir   |-> [pd EXCEPT ![Slot(pg)] = table],
             ptab   |-> [pt EXCEPT ![table] = new]]
    BY <1>2 DEF insert_mapping, mark_page_allocated
  <2>2. /\ table \in Frames
        /\ \/ pd[Slot(pg)] = table
           \/ pd[Slot(pg)] = NoPage /\ ~bm[table]
    BY <1>2, AllocPage DEF Directory
  <2>3. old \in [Indices -> Entries]
    BY <2>2 DEF EmptyTable
  <2>4. Index(pg) \in Indices /\ new \in [Indices -> Entries]
    BY <2>3, SlotIndex
  <2> HIDE DEF new
  <2>5. r.ptab \in Tables
    BY <2>1, <2>2, <2>4
  <2>6. ASSUME NEW p \in Nat, Slot(p) \in Slots
        PROVE  get_mapping(r.pdir, r.ptab, p) =
                   IF p = pg THEN entry ELSE get_mapping(pd, pt, p)
    <3>1. Index(p) \in Indices
      BY SlotIndex
    <3>2. CASE Slot(p) = Slot(pg)
      <4>1. get_mapping(r.pdir, r.ptab, p) = new[Index(p)]
        <5>1. r.pdir[Slot(p)] = table
          BY <2>1, <3>2 DEF Directory
        <5>2. r.ptab[table] = new
          BY <2>1, <2>2
        <5> QED
          BY <1>2, <5>1, <5>2 DEF get_mapping
      <4>2. CASE p = pg
        BY <2>3, <2>4, <4>1, <4>2 DEF new
      <4>3. CASE p # pg
        <5>1. Index(p) # Index(pg)
          BY <3>2, <4>3, SlotIndex
        <5>2. new[Index(p)] = old[Index(p)]
          BY <2>3, <2>4, <3>1, <5>1 DEF new
        <5>3. old[Index(p)] = get_mapping(pd, pt, p)
          BY <3>1, <3>2 DEF get_mapping, EmptyTable
        <5> QED
          BY <4>1, <4>3, <5>2, <5>3
      <4> QED
        BY <4>2, <4>3
    <3>3. CASE Slot(p) # Slot(pg)
      <4>1. r.pdir[Slot(p)] = pd[Slot(p)] /\ p # pg
        BY <2>1, <3>3 DEF Directory
      <4>2. CASE pd[Slot(p)] = NoPage
        BY <4>1, <4>2 DEF get_mapping
      <4>3. CASE pd[Slot(p)] # NoPage
        <5>1. pd[Slot(p)] # table /\ pd[Slot(p)] \in Frames
          <6>1. pd[Slot(p)] \in Frames /\ bm[pd[Slot(p)]]
            <7>1. pd[Slot(p)] \in Frames
              BY <2>6, <4>3 DEF Directory
            <7> QED
              BY <2>6, <4>3, <7>1
          <6>2. CASE pd[Slot(pg)] = table
            <7> HIDE DEF table
            <7> QED
              BY <1>2, <2>6, <3>3, <4>3, <6>1, <6>2
          <6>3. CASE ~bm[table]
            BY <6>1, <6>3
          <6> QED
            BY <2>2, <6>1, <6>2, <6>3
        <5>2. r.ptab[pd[Slot(p)]] = pt[pd[Slot(p)]]
          BY <2>1, <5>1
        <5> QED
          BY <4>1, <4>3, <5>2 DEF get_mapping
      <4> QED
        BY <4>2, <4>3
    <3> QED
      BY <3>2, <3>3
  <2> HIDE DEF table, missing, old
  <2> QED
    <3>1. /\ r.ok
          /\ r.pdir = [pd EXCEPT ![Slot(pg)] = table]
          /\ r.bitmap = [bm EXCEPT ![table] = TRUE]
      BY <2>1
    <3> QED
      BY <2>2, <2>5, <2>6, <3>1 DEF Inserted
<1> QED
  BY <1>1, <1>2

-----------------------------------------------------------------------------
(* Pages and addresses *)

LEMMA SyscallTypes ==
    /\ PageSize \in Nat \ {0} /\ StackPage \in Nat \ {0} /\ WordSize \in Nat \ {0}
    /\ BreakTop \in Nat /\ 0 \in Bytes
    /\ NumSlots = StackPage \div PtSize + 1
  BY SyscallAssumption DEF BreakTop

LEMMA MulLess ==
    ASSUME NEW w \in Nat \ {0}, NEW n \in Nat, NEW m \in Nat, n * w < m * w + w
    PROVE  n <= m
<1>1. SUFFICES ASSUME n >= m + 1 PROVE FALSE
  OBVIOUS
<1>2. n * w >= (m + 1) * w
  BY <1>1, SMT
<1>3. (m + 1) * w = m * w + w
  BY SMT
<1> QED
  BY <1>2, <1>3

\* align_up: the least page number whose start is not below a.
LEMMA Ceil ==
    ASSUME NEW a \in Nat
    PROVE  /\ CeilPage(a) \in Nat
           /\ a <= CeilPage(a) * PageSize
           /\ CeilPage(a) * PageSize < a + PageSize
<1> USE SyscallTypes
<1> DEFINE x == a + PageSize - 1
           q == x \div PageSize
           r == x % PageSize
<1>1. x \in Nat
  OBVIOUS
<1>2. x = PageSize * q + r /\ q \in Nat /\ r \in 0 .. PageSize - 1
  BY <1>1, DivMod
<1> HIDE DEF q, r
<1>3. PageSize * q = q * PageSize
  BY <1>2
<1> QED
  BY <1>2, <1>3 DEF q, CeilPage

LEMMA CeilMono ==
    ASSUME NEW a \in Nat, NEW b \in Nat, a <= b
    PROVE  CeilPage(a) <= CeilPage(b)
<1> DEFINE c == CeilPage(a)
           d == CeilPage(b)
<1>1. c \in Nat /\ d \in Nat /\ c * PageSize < a + PageSize /\ b <= d * PageSize
  BY Ceil
<1> HIDE DEF c, d
<1>2. c * PageSize < d * PageSize + PageSize
  BY <1>1, SyscallTypes
<1> QED
  BY <1>1, <1>2, MulLess, SyscallTypes DEF c, d

LEMMA CeilExact ==
    ASSUME NEW n \in Nat
    PROVE  /\ CeilPage(n * PageSize) = n
           /\ (n * PageSize) \div PageSize = n
           /\ (n * PageSize) % PageSize = 0
           /\ CeilPage(n * PageSize + 1) = n + 1
<1> USE SyscallTypes
<1> DEFINE a == n * PageSize
           c == CeilPage(a)
           d == CeilPage(a + 1)
           q == a \div PageSize
<1>1. a \in Nat
  OBVIOUS
<1>2. c \in Nat /\ a <= c * PageSize /\ c * PageSize < a + PageSize
  BY <1>1, Ceil
<1>3. d \in Nat /\ a + 1 <= d * PageSize /\ d * PageSize < a + 1 + PageSize
  <2> HIDE DEF a
  <2>1. a + 1 \in Nat
    BY <1>1
  <2> QED
    BY <2>1, Ceil
<1>4. q \in Nat /\ a % PageSize \in 0 .. PageSize - 1
      /\ a = PageSize * q + (a % PageSize)
  BY <1>1, DivMod
<1>5. PageSize * q = q * PageSize
  BY <1>4
<1> HIDE DEF a, c, d, q
<1>6. a = n * PageSize
  BY DEF a
<1>7. c = n
  <2>1. c <= n
    BY <1>2, <1>6, MulLess
  <2>2. n * PageSize < c * PageSize + PageSize
    BY <1>1, <1>2, <1>6
  <2> QED
    BY <1>2, <2>1, <2>2, MulLess
<1>8. d = n + 1
  <2>1. (n + 1) * PageSize = n * PageSize + PageSize
    BY SMT
  <2>2. d <= n + 1
    <3>1. d * PageSize < (n + 1) * PageSize + PageSize
      BY <1>1, <1>3, <1>6, <2>1
    <3> QED
      BY <1>3, <3>1, MulLess
  <2>3. d # n /\ n <= d
    <3>1. n * PageSize < d * PageSize + PageSize
      BY <1>1, <1>3, <1>6
    <3> QED
      BY <1>1, <1>3, <1>6, <3>1, MulLess
  <2> QED
    BY <1>3, <2>2, <2>3
<1>9. q = n
  <2>1. q * PageSize < n * PageSize + PageSize
    BY <1>1, <1>4, <1>5, <1>6
  <2>2. n * PageSize < q * PageSize + PageSize
    BY <1>1, <1>4, <1>5, <1>6
  <2> QED
    BY <1>4, <2>1, <2>2, MulLess
<1>10. a % PageSize = 0
  BY <1>1, <1>4, <1>5, <1>6, <1>9
<1> QED
  BY <1>7, <1>8, <1>9, <1>10 DEF a, c, d, q

\* Every page below 0xc0000000 has a slot in the page directory.
LEMMA PageSlot ==
    /\ \A p \in Pages : p \in Nat /\ Slot(p) \in Slots
    /\ StackPage \in Pages
<1> USE SyscallTypes, PageTableTypes
<1>1. SUFFICES ASSUME NEW p \in Pages PROVE p \div PtSize <= StackPage \div PtSize
  BY SlotIndex DEF Pages, Slots, Slot
<1> DEFINE q == p \div PtSize
           m == StackPage \div PtSize
<1>2. q \in Nat /\ p = PtSize * q + (p % PtSize) /\ p % PtSize \in 0 .. PtSize - 1
  <2>1. p \in Nat /\ PtSize \in Nat /\ PtSize # 0
    BY DEF Pages
  <2> QED
    BY <2>1, DivMod
<1>3. m \in Nat /\ StackPage = PtSize * m + (StackPage % PtSize)
      /\ StackPage % PtSize \in 0 .. PtSize - 1
  BY DivMod
<1> HIDE DEF q, m
<1>4. PtSize * q = q * PtSize /\ PtSize * m = m * PtSize
      /\ PtSize * q \in Nat /\ PtSize * m \in Nat
  BY <1>2, <1>3
<1>5. q * PtSize < m * PtSize + PtSize
  BY <1>2, <1>3, <1>4 DEF Pages
<1> QED
  BY <1>2, <1>3, <1>5, MulLess DEF q, m
-----------------------------------------------------------------------------
(* Ownership, as facts about the bitmap, the directory and the function m  *)
(* from pages to what they are mapped to.                                  *)

Map(pd, pt) == [p \in Pages |-> get_mapping(pd, pt, p)]

MapSet == [Pages -> Entries]

Own(bm, pd, m) ==
    /\ \A s, t \in Slots : pd[s] = pd[t] /\ pd[s] # NoPage => s = t
    /\ \A p, q \in Pages : m[p] \in Frames /\ m[p] = m[q] => p = q
    /\ \A s \in Slots, p \in Pages : pd[s] \in Frames => pd[s] # m[p]
    /\ \A s \in Slots : pd[s] \notin KernelFrames
    /\ \A p \in Pages : m[p] \notin KernelFrames
    /\ \A f \in Frames : bm[f] <=> \/ f \in KernelFrames
                                   \/ \E s \in Slots : pd[s] = f
                                   \/ \E p \in Pages : m[p] = f

LEMMA MapType ==
    ASSUME NEW pd \in Directory, NEW pt \in Tables
    PROVE  Map(pd, pt) \in MapSet
  BY MappingType, PageSlot DEF Map, MapSet

LEMMA OwnIsOwnership ==
    ASSUME NEW bm \in Bitmaps, NEW pd \in Directory, NEW pt \in Tables
    PROVE  Own(bm, pd, Map(pd, pt)) <=>
               /\ OneUse(pd, pt)
               /\ \A f \in Frames : bm[f] <=> f \in InUse(pd, pt)
<1> DEFINE m == Map(pd, pt)
<1>1. m \in MapSet /\ \A p \in Pages : get_mapping(pd, pt, p) = m[p]
  BY MapType DEF Map
<1>2. KernelFrames \subseteq Frames /\ NoPage \notin Frames
  BY SyscallAssumption, PageTableTypes
<1> HIDE DEF m
<1>3. \A s \in Slots : pd[s] \in Frames \/ pd[s] = NoPage
  BY DEF Directory
<1>4. \A f : f \in TableFrames(pd) <=> f # NoPage /\ \E s \in Slots : pd[s] = f
  BY DEF TableFrames
<1>5. \A f : f \in MappedFrames(pd, pt) <=> f \in Frames /\ \E p \in Pages : m[p] = f
  BY <1>1 DEF MappedFrames
<1>6. \A f \in Frames :
         f \in InUse(pd, pt) <=> \/ f \in KernelFrames
                                 \/ \E s \in Slots : pd[s] = f
                                 \/ \E p \in Pages : m[p] = f
  BY <1>2, <1>4, <1>5 DEF InUse
<1>7. OneUse(pd, pt) <=>
        /\ \A s, t \in Slots : pd[s] = pd[t] /\ pd[s] # NoPage => s = t
        /\ \A p, q \in Pages : m[p] \in Frames /\ m[p] = m[q] => p = q
        /\ \A s \in Slots, p \in Pages : pd[s] \in Frames => pd[s] # m[p]
        /\ \A s \in Slots : pd[s] \notin KernelFrames
        /\ \A p \in Pages : m[p] \notin KernelFrames
  <2>1. TableFrames(pd) \cap MappedFrames(pd, pt) = {}
          <=> \A s \in Slots, p \in Pages : pd[s] \in Frames => pd[s] # m[p]
    BY <1>2, <1>3, <1>4, <1>5
  <2>2. KernelFrames \cap (TableFrames(pd) \cup MappedFrames(pd, pt)) = {}
          <=> /\ \A s \in Slots : pd[s] \notin KernelFrames
              /\ \A p \in Pages : m[p] \notin KernelFrames
    BY <1>2, <1>3, <1>4, <1>5
  <2>3. (\A p, q \in Pages :
            /\ get_mapping(pd, pt, p) \in Frames
            /\ get_mapping(pd, pt, p) = get_mapping(pd, pt, q)
            => p = q)
          <=> \A p, q \in Pages : m[p] \in Frames /\ m[p] = m[q] => p = q
    BY <1>1
  <2> QED
    BY <2>1, <2>2, <2>3 DEF OneUse
<1>8. Own(bm, pd, m) <=> /\ OneUse(pd, pt)
                         /\ \A f \in Frames : bm[f] <=> f \in InUse(pd, pt)
  BY <1>6, <1>7 DEF Own
<1> QED
  BY <1>8 DEF m

\* A free frame f mapped at an unmapped page, with a table in frame t that is
\* the slot's own or was free, and is not f.
LEMMA OwnGrow ==
    ASSUME NEW bm \in Bitmaps, NEW pd \in Directory, NEW m \in MapSet,
           Own(bm, pd, m),
           NEW f \in Frames, ~bm[f],
           NEW p \in Pages, m[p] = NoPage,
           NEW t \in Frames, t # f,
           NEW u \in Slots, pd[u] = t \/ (pd[u] = NoPage /\ ~bm[t])
    PROVE  Own([[bm EXCEPT ![f] = TRUE] EXCEPT ![t] = TRUE],
               [pd EXCEPT ![u] = t], [m EXCEPT ![p] = f])
<1> DEFINE b == [[bm EXCEPT ![f] = TRUE] EXCEPT ![t] = TRUE]
           d == [pd EXCEPT ![u] = t]
           n == [m EXCEPT ![p] = f]
<1>1. \A g \in Frames : b[g] <=> bm[g] \/ g = f \/ g = t
  BY Zenon DEF Bitmaps, Frames
<1>2. d \in Directory /\ \A s \in Slots : d[s] = IF s = u THEN t ELSE pd[s]
  BY DEF Directory
<1>3. n \in MapSet /\ \A q \in Pages : n[q] = IF q = p THEN f ELSE m[q]
  BY DEF MapSet, Entries
<1> HIDE DEF b, d, n
<1>4. KernelFrames \subseteq Frames /\ NoPage \notin Frames
  BY SyscallAssumption, PageTableTypes
\* A free frame is nobody's.
<1>5. ASSUME NEW g \in Frames, ~bm[g]
      PROVE  /\ g \notin KernelFrames
             /\ \A s \in Slots : pd[s] # g
             /\ \A q \in Pages : m[q] # g
  BY <1>5 DEF Own
<1>6. \A s, v \in Slots : d[s] = d[v] /\ d[s] # NoPage => s = v
  BY <1>2, <1>4, <1>5 DEF Own
<1>7. \A q, r \in Pages : n[q] \in Frames /\ n[q] = n[r] => q = r
  BY <1>3, <1>5 DEF Own
<1>8. \A s \in Slots, q \in Pages : d[s] \in Frames => d[s] # n[q]
  <2>1. SUFFICES ASSUME NEW s \in Slots, NEW q \in Pages, d[s] \in Frames
                 PROVE  d[s] # n[q]
    OBVIOUS
  <2>2. d[s] # f
    BY <1>2, <1>5
  <2>3. q # p => d[s] # m[q]
    BY <1>2, <1>5, <2>1 DEF Own
  <2> QED
    BY <1>3, <2>2, <2>3
<1>9. \A s \in Slots : d[s] \notin KernelFrames
  BY <1>2, <1>5 DEF Own
<1>10. \A q \in Pages : n[q] \notin KernelFrames
  BY <1>3, <1>5 DEF Own
<1>11. ASSUME NEW g \in Frames
       PROVE  b[g] <=> \/ g \in KernelFrames
                       \/ \E s \in Slots : d[s] = g
                       \/ \E q \in Pages : n[q] = g
  <2>1. (\E s \in Slots : d[s] = g) <=> g = t \/ \E s \in Slots : pd[s] = g
    BY <1>2, <1>4
  <2>2. (\E q \in Pages : n[q] = g) <=> g = f \/ \E q \in Pages : m[q] = g
    BY <1>3, <1>4
  <2> QED
    BY <1>1, <2>1, <2>2 DEF Own
<1> QED
  BY <1>6, <1>7, <1>8, <1>9, <1>10, <1>11 DEF Own, b, d, n

\* The frame of a page freed and the page unmapped.
LEMMA OwnRelease ==
    ASSUME NEW bm \in Bitmaps, NEW pd \in Directory, NEW m \in MapSet,
           Own(bm, pd, m), NEW p \in Pages, m[p] \in Frames
    PROVE  Own([bm EXCEPT ![m[p]] = FALSE], pd, [m EXCEPT ![p] = NoPage])
<1> DEFINE f == m[p]
           b == [bm EXCEPT ![f] = FALSE]
           n == [m EXCEPT ![p] = NoPage]
<1>1. \A g \in Frames : b[g] <=> bm[g] /\ g # f
  BY Zenon DEF Bitmaps, Frames
<1>2. \A q \in Pages : n[q] = IF q = p THEN NoPage ELSE m[q]
  BY DEF MapSet
<1>3. KernelFrames \subseteq Frames /\ NoPage \notin Frames /\ pd \in [Slots -> Frames \cup {NoPage}]
  BY SyscallAssumption, PageTableTypes DEF Directory
<1>4. f \in Frames /\ f \notin KernelFrames /\ \A s \in Slots : pd[s] # f
  BY <1>3 DEF Own
<1>5. \A q \in Pages : q # p => m[q] # f
  BY DEF Own
<1> HIDE DEF b, n, f
<1>6. ASSUME NEW g \in Frames
      PROVE  b[g] <=> \/ g \in KernelFrames
                      \/ \E s \in Slots : pd[s] = g
                      \/ \E q \in Pages : n[q] = g
  <2>1. (\E q \in Pages : n[q] = g) <=> g # f /\ \E q \in Pages : m[q] = g
    BY <1>2, <1>3, <1>5 DEF f
  <2> QED
    BY <1>1, <1>4, <2>1 DEF Own
<1>7. \A q, r \in Pages : n[q] \in Frames /\ n[q] = n[r] => q = r
  BY <1>2, <1>3 DEF Own
<1>8. \A s \in Slots, q \in Pages : pd[s] \in Frames => pd[s] # n[q]
  BY <1>2, <1>3 DEF Own
<1>9. \A q \in Pages : n[q] \notin KernelFrames
  BY <1>2, <1>3 DEF Own
<1> QED
  BY <1>6, <1>7, <1>8, <1>9 DEF Own, b, n, f
-----------------------------------------------------------------------------
(* The heap, as a fact about m. *)

HeapM(m, low, bound) ==
    /\ bound \in low .. StackPage
    /\ \A p \in low .. bound - 1 : m[p] \in Frames
    /\ \A p \in bound .. StackPage - 1 : m[p] = NoPage
    /\ m[StackPage] \in Frames

LEMMA HeapIsHeapM ==
    ASSUME NEW pd, NEW pt, NEW low \in Nat, NEW bound
    PROVE  HeapIs(pd, pt, low, bound) <=> HeapM(Map(pd, pt), low, bound)
<1>1. ASSUME bound \in low .. StackPage
      PROVE  /\ \A p \in low .. bound - 1 : p \in Pages
             /\ \A p \in bound .. StackPage - 1 : p \in Pages
             /\ StackPage \in Pages
  BY <1>1, SyscallTypes DEF Pages
<1> QED
  BY <1>1 DEF HeapIs, HeapM, Map

\* The pool has too few frames for the heap to reach the stack page.
LEMMA HeapBelowStack ==
    ASSUME NEW m \in MapSet, NEW low \in Nat,
           \A p, q \in Pages : m[p] \in Frames /\ m[p] = m[q] => p = q,
           NumBits <= StackPage - low,
           NEW bound, HeapM(m, low, bound)
    PROVE  bound < StackPage
<1> USE SyscallTypes, PageTableTypes
<1>1. SUFFICES ASSUME bound = StackPage PROVE FALSE
  BY DEF HeapM
<1> DEFINE S == low .. StackPage
           g == [p \in S |-> m[p]]
<1>2. \A p \in S : p \in Pages /\ m[p] \in Frames
  BY <1>1 DEF HeapM, Pages
<1>3. g \in [S -> Frames]
  BY <1>2
<1>4. IsFiniteSet(S) /\ Cardinality(S) = StackPage - low + 1
  <2>1. low \in Int /\ StackPage \in Int /\ ~(low > StackPage)
    BY <1>1 DEF HeapM
  <2> QED
    BY <2>1, FS_Interval
<1>5. IsFiniteSet(Frames) /\ Cardinality(Frames) = NumBits
  <2>1. 0 \in Int /\ NumBits - 1 \in Int
    OBVIOUS
  <2> QED
    BY <2>1, FS_Interval DEF Frames, Bits
<1>6. Cardinality(Frames) < Cardinality(S)
  BY <1>4, <1>5
<1>7. \A p \in S : g[p] = m[p]
  OBVIOUS
<1> HIDE DEF S, g
<1>8. \E p, q \in S : p # q /\ g[p] = g[q]
  BY <1>3, <1>4, <1>5, <1>6, FS_PigeonHole
<1> QED
  BY <1>2, <1>7, <1>8
-----------------------------------------------------------------------------
(* The inductive invariant *)

SInv == TypeOK /\ Ownership /\ HeapExtent /\ LoopBounds /\ NoPanic

Low == break_min \div PageSize

m == Map(pdir, ptab)

LEMMA InvFacts ==
    ASSUME TypeOK, LoopBounds
    PROVE  /\ Low \in Nat /\ break_min = Low * PageSize
           /\ CeilPage(break_min) = Low
           /\ Low <= CeilPage(break_current)
           /\ break_current % PageSize # 0 => Low < CeilPage(break_current)
           /\ NumBits <= StackPage - Low
<1> USE SyscallTypes
<1>1. Low \in Nat /\ break_min = PageSize * Low + (break_min % PageSize)
  BY DivMod DEF TypeOK, Low
<1>2. break_min = Low * PageSize
  BY <1>1 DEF LoopBounds
<1>3. CeilPage(break_min) = Low /\ CeilPage(break_min + 1) = Low + 1
  BY <1>1, <1>2, CeilExact
<1>4. break_current \in Nat /\ break_min \in Nat /\ break_min <= break_current
  BY DEF TypeOK, LoopBounds
<1>5. Low <= CeilPage(break_current)
  BY <1>3, <1>4, CeilMono
<1>6. ASSUME break_current % PageSize # 0 PROVE Low < CeilPage(break_current)
  <2>1. break_current # break_min
    BY <1>6 DEF LoopBounds
  <2>2. break_min + 1 <= break_current /\ break_min + 1 \in Nat
    BY <1>4, <2>1
  <2>3. CeilPage(break_min + 1) <= CeilPage(break_current)
    BY <1>4, <2>2, CeilMono
  <2> QED
    BY <1>1, <1>3, <1>4, <2>3, Ceil
<1> QED
  BY <1>1, <1>2, <1>3, <1>5, <1>6 DEF LoopBounds, Low

LEMMA MemoryFacts ==
    ASSUME TypeOK, Ownership, HeapExtent, LoopBounds
    PROVE  /\ m \in MapSet
           /\ \A p \in Pages : Frame(p) = m[p]
           /\ Own(bitmap, pdir, m)
           /\ HeapM(m, Low, HeapBound)
           /\ HeapBound < StackPage
<1>1. pdir \in Directory /\ ptab \in Tables /\ bitmap \in Bitmaps
  BY DEF TypeOK, Directory, Tables
<1>2. m \in MapSet /\ \A p \in Pages : Frame(p) = m[p]
  BY <1>1, MapType DEF m, Map, Frame
<1>3. Own(bitmap, pdir, m)
  BY <1>1, OwnIsOwnership DEF Ownership, m
<1>4. HeapM(m, Low, HeapBound)
  BY InvFacts, HeapIsHeapM DEF HeapExtent, Low, m
<1>5. HeapBound < StackPage
  BY <1>2, <1>3, <1>4, InvFacts, HeapBelowStack DEF Own
<1> QED
  BY <1>2, <1>3, <1>4, <1>5

\* What the tables and the bitmap satisfy after a step, from the same facts
\* about the new map.
LEMMA MemoryInvNext ==
    ASSUME bitmap' \in Bitmaps, pdir' \in Directory, ptab' \in Tables,
           Own(bitmap', pdir', m'), break_min' \in Nat, Low' \in Nat,
           HeapM(m', Low', HeapBound')
    PROVE  Ownership' /\ HeapExtent'
<1>1. m' = Map(pdir', ptab')
  BY DEF m
<1>2. OneUse(pdir', ptab') /\ \A f \in Frames : bitmap'[f] <=> f \in InUse(pdir', ptab')
  BY <1>1, OwnIsOwnership
<1>3. HeapIs(pdir', ptab', Low', HeapBound')
  BY <1>1, HeapIsHeapM
<1> QED
  BY <1>2, <1>3 DEF Ownership, HeapExtent, Low
-----------------------------------------------------------------------------
(* The steps *)

LEMMA InitSInv == Init => SInv
<1> SUFFICES ASSUME Init PROVE SInv
  OBVIOUS
<1> USE SyscallTypes
<1>1. PICK l \in Layouts :
        /\ break_min = l.low * PageSize
        /\ break_current = l.low * PageSize
        /\ pdir = l.pdir /\ ptab = l.ptab
        /\ bitmap = [f \in Frames |-> f \in InUse(l.pdir, l.ptab)]
        /\ data = [f \in Frames |-> ZeroPage]
        /\ eax = 0 /\ esi = 0 /\ page = 0 /\ pc = "user"
  BY DEF Init
<1> DEFINE low == l.low
<1>2. LayoutOK(l)
  BY SyscallAssumption
<1>3. /\ low \in Nat /\ low <= StackPage - 1 /\ NumBits <= StackPage - low
      /\ pdir \in [Slots -> Frames \cup {NoPage}]
      /\ ptab \in [Frames -> [Indices -> Entries]]
      /\ OneUse(pdir, ptab) /\ HeapIs(pdir, ptab, low, low)
  BY <1>1, <1>2 DEF LayoutOK
<1> HIDE DEF low
<1>4. break_min = low * PageSize /\ break_current = break_min
  BY <1>1 DEF low
<1>5. /\ CeilPage(break_min) = low /\ break_min \div PageSize = low
      /\ break_min % PageSize = 0 /\ break_min \in Nat
  BY <1>3, <1>4, CeilExact
<1>6. bitmap \in Bitmaps /\ \A f \in Frames : bitmap[f] <=> f \in InUse(pdir, ptab)
  <2> DEFINE X == InUse(pdir, ptab)
  <2>1. bitmap = [f \in Frames |-> f \in X]
    BY <1>1
  <2> HIDE DEF X
  <2>2. bitmap \in Bitmaps
    BY <2>1 DEF Bitmaps, Frames
  <2>3. \A f \in Frames : bitmap[f] <=> f \in X
    BY <2>1, Zenon
  <2> QED
    BY <2>2, <2>3 DEF X
<1>7. data \in [Frames -> [Offsets -> Bytes]]
  BY <1>1 DEF ZeroPage
<1>8. TypeOK
  BY <1>1, <1>3, <1>4, <1>5, <1>6, <1>7 DEF TypeOK
<1>9. Ownership
  BY <1>3, <1>6 DEF Ownership
<1>10. HeapExtent
  BY <1>1, <1>3, <1>4, <1>5 DEF HeapExtent, HeapBound, Loops
<1>11. break_min <= BreakTop
  <2>1. low + 1 <= StackPage + 1 /\ low * PageSize <= (StackPage + 1) * PageSize
    BY <1>3, SMT
  <2> QED
    BY <1>4, <2>1 DEF BreakTop
<1>12. LoopBounds
  BY <1>1, <1>3, <1>4, <1>5, <1>11 DEF LoopBounds, Loops
<1> QED
  BY <1>1, <1>8, <1>9, <1>10, <1>12 DEF SInv, NoPanic

\* Steps that leave the break, the tables and the bitmap alone, between calls.
LEMMA QuietStep ==
    ASSUME SInv, UNCHANGED <<break_min, break_current, memory, esi, page>>,
           pc = "user", pc' \in {"user", "fault"},
           data' \in [Frames -> [Offsets -> Bytes]], eax' \in Nat
    PROVE  SInv'
<1>1. TypeOK'
  BY DEF SInv, TypeOK, memory
<1>2. Ownership'
  BY DEF SInv, Ownership, memory
<1>3. HeapExtent'
  BY DEF SInv, HeapExtent, HeapBound, Loops, memory
<1>4. LoopBounds' /\ NoPanic'
  BY DEF SInv, LoopBounds, NoPanic, Loops
<1> QED
  BY <1>1, <1>2, <1>3, <1>4 DEF SInv

LEMMA UserWriteInv ==
    ASSUME SInv, NEW a \in WriteAddrs, NEW byte \in Bytes, UserWrite(a, byte)
    PROVE  SInv'
<1> USE SyscallTypes
<1>1. a % PageSize \in Offsets
  <2>1. a \in Nat
    BY SyscallAssumption
  <2> QED
    BY <2>1, DivMod DEF Offsets
<1>2. data \in [Frames -> [Offsets -> Bytes]]
  BY DEF SInv, TypeOK
<1>3. data' \in [Frames -> [Offsets -> Bytes]]
  <2> DEFINE f == Frame(a \div PageSize)
  <2>1. CASE f \in Frames
    <3>1. data' = [data EXCEPT ![f][a % PageSize] = byte]
      BY <2>1 DEF UserWrite
    <3> HIDE DEF f
    <3>2. data[f] \in [Offsets -> Bytes]
      BY <1>2, <2>1
    <3>3. [data[f] EXCEPT ![a % PageSize] = byte] \in [Offsets -> Bytes]
      BY <1>1, <3>2
    <3> QED
      BY <1>2, <2>1, <3>1, <3>3
  <2>2. CASE f \notin Frames
    BY <1>2, <2>2 DEF UserWrite
  <2> QED
    BY <2>1, <2>2
<1> QED
  BY <1>3, QuietStep DEF UserWrite, SInv, TypeOK

LEMMA SumInv ==
    ASSUME SInv, NEW x \in SumArgs, NEW y \in SumArgs, sys_sum(x, y)
    PROVE  SInv'
<1>1. x + y \in Nat /\ WordSize \in Nat \ {0}
  BY SyscallAssumption
<1>2. (x + y) % WordSize \in Nat
  BY <1>1
<1> QED
  BY <1>2, QuietStep DEF sys_sum, SInv, TypeOK

LEMMA AnswerInv ==
    ASSUME SInv,
           \/ \E a, len : sys_print(a, len)
           \/ BreakQuery
           \/ \E a : BreakIllegal(a)
    PROVE  SInv'
  BY QuietStep DEF sys_print, BreakQuery, BreakIllegal, SInv, TypeOK

\* The page that sys_break clears the end of is mapped to a frame.
LEMMA TailMapped ==
    ASSUME SInv, pc = "user", break_current % PageSize # 0
    PROVE  Frame(CeilPage(break_current) - 1) \in Frames
<1>1. /\ HeapM(m, Low, HeapBound) /\ HeapBound < StackPage
      /\ \A p \in Pages : Frame(p) = m[p]
  BY MemoryFacts DEF SInv
<1>2. HeapBound = CeilPage(break_current)
  BY DEF HeapBound, Loops
<1>3. CeilPage(break_current) \in Nat /\ Low \in Nat /\ Low < CeilPage(break_current)
  BY InvFacts, Ceil DEF SInv, TypeOK
<1>4. CeilPage(break_current) - 1 \in Low .. HeapBound - 1
  BY <1>2, <1>3
<1>5. CeilPage(break_current) - 1 \in Pages
  BY <1>1, <1>2, <1>3, SyscallTypes DEF Pages
<1> QED
  BY <1>1, <1>4, <1>5 DEF HeapM

LEMMA AcceptInv ==
    ASSUME SInv, NEW a \in BreakArgs, BreakAccept(a)
    PROVE  SInv'
<1> USE SyscallTypes
<1>1. a \in Nat /\ Legal(a)
  BY SyscallAssumption DEF BreakAccept
<1>2. data' \in [Frames -> [Offsets -> Bytes]]
  <2>1. CASE break_current % PageSize = 0
    BY <2>1 DEF BreakAccept, ZeroTail, SInv, TypeOK
  <2>2. CASE break_current % PageSize # 0
    <3> DEFINE t == Frame(CeilPage(break_current) - 1)
               z == [o \in Offsets |-> IF o < break_current % PageSize
                                       THEN data[t][o] ELSE 0]
    <3>1. t \in Frames
      BY <2>2, TailMapped DEF BreakAccept
    <3>2. data' = [data EXCEPT ![t] = z]
      BY <2>2 DEF BreakAccept, ZeroTail
    <3>3. data \in [Frames -> [Offsets -> Bytes]]
      BY DEF SInv, TypeOK
    <3> HIDE DEF t
    <3>4. z \in [Offsets -> Bytes]
      BY <3>1, <3>3
    <3> HIDE DEF z
    <3> QED
      BY <3>1, <3>2, <3>3, <3>4
  <2> QED
    BY <2>1, <2>2
<1>3. CeilPage(break_current) \in Nat /\ CeilPage(a) \in Nat
  BY <1>1, Ceil DEF SInv, TypeOK
<1>4. page' = CeilPage(break_current) /\ pc' \in {"grow", "shrink"} /\ esi' = a
  BY DEF BreakAccept
<1>5. TypeOK'
  BY <1>1, <1>2, <1>3, <1>4 DEF SInv, TypeOK, BreakAccept, memory, Loops
<1>6. Ownership'
  BY DEF SInv, Ownership, BreakAccept, memory
<1>7. HeapExtent'
  BY <1>4 DEF SInv, HeapExtent, HeapBound, BreakAccept, Loops, memory
<1>8. break_current \in Nat /\ break_current' = break_current /\ break_min' = break_min
  BY DEF SInv, TypeOK, BreakAccept
<1>9. CASE break_current < a
  <2>1. CeilPage(break_current) <= CeilPage(a)
    BY <1>1, <1>8, <1>9, CeilMono
  <2>2. pc' = "grow"
    BY <1>9 DEF BreakAccept
  <2>3. CeilPage(break_current') = CeilPage(break_current) /\ CeilPage(esi') = CeilPage(a)
    BY <1>4, <1>8
  <2>4. LoopBounds'
    BY <1>1, <1>3, <1>4, <1>8, <1>9, <2>1, <2>2, <2>3 DEF SInv, LoopBounds, Legal, Loops
  <2> QED
    BY <1>5, <1>6, <1>7, <2>2, <2>4 DEF SInv, NoPanic
<1>10. CASE ~(break_current < a)
  <2>1. CeilPage(a) <= CeilPage(break_current)
    BY <1>1, <1>8, <1>10, CeilMono
  <2>2. pc' = "shrink"
    BY <1>10 DEF BreakAccept
  <2>3. CeilPage(break_current') = CeilPage(break_current) /\ CeilPage(esi') = CeilPage(a)
    BY <1>4, <1>8
  <2>4. LoopBounds'
    BY <1>1, <1>3, <1>4, <1>8, <1>10, <2>1, <2>2, <2>3 DEF SInv, LoopBounds, Legal, Loops
  <2> QED
    BY <1>5, <1>6, <1>7, <2>2, <2>4 DEF SInv, NoPanic
<1> QED
  BY <1>9, <1>10

\* One turn of a loop that gives pages back, inside the heap: it never panics
\* and the heap ends one page lower.
LEMMA ReleaseInv ==
    ASSUME SInv, pc \in {"undo", "shrink"}, Low < page, ReleasePage
    PROVE  /\ pc' = pc /\ page' = page - 1 /\ page' \in Nat
           /\ TypeOK' /\ Ownership' /\ HeapExtent'
           /\ UNCHANGED <<break_min, break_current, esi, eax, data>>
           /\ m' = [m EXCEPT ![page - 1] = NoPage]
<1> USE SyscallTypes, PageTableTypes
<1> DEFINE p == page - 1
           f == m[p]
<1>1. /\ m \in MapSet /\ Own(bitmap, pdir, m) /\ HeapM(m, Low, page)
      /\ page < StackPage /\ Low \in Nat
      /\ \A q \in Pages : Frame(q) = m[q]
  BY MemoryFacts, InvFacts DEF SInv, HeapBound, Loops
<1>2. p \in Pages /\ p \in Nat /\ p \in Low .. page - 1 /\ Slot(p) \in Slots
  BY <1>1, PageSlot DEF SInv, TypeOK, Pages
<1>3. f \in Frames /\ Frame(p) = f /\ bitmap[f]
  BY <1>1, <1>2 DEF HeapM, Own
<1>4. bitmap \in Bitmaps /\ pdir \in Directory /\ ptab \in Tables
  BY DEF SInv, TypeOK, Directory, Tables
<1> HIDE DEF f
<1> DEFINE freed == [bitmap EXCEPT ![f] = FALSE]
           r == insert_mapping(freed, pdir, ptab, p, NoPage)
<1>5. /\ bitmap' = r.bitmap /\ pdir' = r.pdir /\ ptab' = r.ptab
      /\ page' = page - 1 /\ pc' = pc
  BY <1>3 DEF ReleasePage, mark_page_allocated
<1>6. freed \in Bitmaps /\ \A g \in Frames : freed[g] <=> bitmap[g] /\ g # f
  BY <1>3, <1>4, Zenon DEF Bitmaps, Frames
<1>7. \A s \in Slots : pdir[s] # NoPage =>
         pdir[s] \in Frames /\ bitmap[pdir[s]] /\ pdir[s] # f
  BY <1>1, <1>2, <1>3, <1>4 DEF Own, Directory, f
<1>8. NoPage \in Entries /\ pdir[Slot(p)] # NoPage
  <2>1. Frame(p) # NoPage
    BY <1>3
  <2> QED
    BY <2>1 DEF Entries, Frame, get_mapping
<1> HIDE DEF r, freed, p
<1>9. \A s, t \in Slots : pdir[s] = pdir[t] /\ pdir[s] # NoPage => s = t
  BY <1>1 DEF Own
<1>10. \A s \in Slots : pdir[s] # NoPage => freed[pdir[s]]
  BY <1>6, <1>7
<1>11. /\ r.ok /\ r.ptab \in Tables
       /\ \E t \in Frames :
             /\ r.pdir = [pdir EXCEPT ![Slot(p)] = t]
             /\ r.bitmap = [freed EXCEPT ![t] = TRUE]
             /\ pdir[Slot(p)] = t
       /\ \A q \in Nat : Slot(q) \in Slots =>
             get_mapping(r.pdir, r.ptab, q) =
                IF q = p THEN NoPage ELSE get_mapping(pdir, ptab, q)
  <2>1. r = insert_mapping(freed, pdir, ptab, p, NoPage)
    BY DEF r
  <2> QED
    <3>1. \/ NotInserted(freed, pdir, ptab, p, r)
          \/ Inserted(freed, pdir, ptab, p, NoPage, r)
      BY <1>2, <1>4, <1>6, <1>8, <1>9, <1>10, <2>1, InsertMapping
    <3>2. Inserted(freed, pdir, ptab, p, NoPage, r)
      BY <1>8, <3>1 DEF NotInserted
    <3> QED
      BY <1>8, <3>2 DEF Inserted
<1>12. pdir' = pdir
  BY <1>4, <1>5, <1>11 DEF Directory
<1>13. bitmap' = freed
  <2>1. PICK t \in Frames : r.bitmap = [freed EXCEPT ![t] = TRUE] /\ pdir[Slot(p)] = t
    BY <1>11
  <2>2. freed[t]
    BY <1>2, <1>8, <1>10, <2>1
  <2>3. [freed EXCEPT ![t] = TRUE] = freed
    BY <1>6, <2>2, Zenon DEF Bitmaps, Frames
  <2> QED
    BY <1>5, <2>1, <2>3
<1>14. ptab' \in Tables
  BY <1>5, <1>11
<1>15. m' = [m EXCEPT ![p] = NoPage]
  <2>1. \A q \in Pages : m'[q] = IF q = p THEN NoPage ELSE m[q]
    BY <1>1, <1>5, <1>11, PageSlot DEF m, Map, Frame
  <2>2. m' = [q \in Pages |-> m'[q]]
    BY DEF m, Map
  <2> QED
    BY <1>1, <1>2, <2>1, <2>2 DEF MapSet
<1>16. Own(bitmap', pdir', m')
  <2>1. Own([bitmap EXCEPT ![m[p]] = FALSE], pdir, [m EXCEPT ![p] = NoPage])
    BY <1>1, <1>2, <1>3, <1>4, OwnRelease DEF f
  <2> QED
    BY <1>12, <1>13, <1>15, <2>1 DEF freed, f
<1>17. /\ break_min' = break_min /\ break_current' = break_current /\ esi' = esi
       /\ data' = data /\ eax' = eax
  BY DEF ReleasePage
<1>18. page' = p /\ p \in Nat /\ p + 1 = page /\ Low' = Low /\ HeapBound' = p
  BY <1>2, <1>5, <1>17 DEF p, Low, HeapBound, Loops, SInv, TypeOK
<1>19. HeapM(m', Low, p)
  <2>1. \A q \in Pages : m'[q] = IF q = p THEN NoPage ELSE m[q]
    BY <1>1, <1>15 DEF MapSet
  <2>2. p \in Low .. StackPage
    BY <1>1, <1>2, <1>18
  <2>3. ASSUME NEW q \in Low .. p - 1 PROVE m'[q] \in Frames
    BY <1>1, <1>2, <1>18, <2>1 DEF HeapM, Pages
  <2>4. ASSUME NEW q \in p .. StackPage - 1 PROVE m'[q] = NoPage
    BY <1>1, <1>2, <1>18, <2>1 DEF HeapM, Pages
  <2>5. m'[StackPage] \in Frames
    BY <1>1, <1>18, <2>1, PageSlot DEF HeapM
  <2> QED
    BY <2>2, <2>3, <2>4, <2>5 DEF HeapM
<1>20. Ownership' /\ HeapExtent'
  <2>1. bitmap' \in Bitmaps /\ pdir' \in Directory
    BY <1>4, <1>6, <1>12, <1>13
  <2>2. break_min' \in Nat /\ Low' \in Nat
    BY <1>1, <1>17, <1>18 DEF SInv, TypeOK
  <2>3. HeapM(m', Low', HeapBound')
    BY <1>18, <1>19
  <2> QED
    BY <1>14, <1>16, <2>1, <2>2, <2>3, MemoryInvNext
<1>21. TypeOK'
  BY <1>4, <1>5, <1>6, <1>12, <1>13, <1>14, <1>17, <1>18
     DEF SInv, TypeOK, Directory, Tables
<1>22. m' = [m EXCEPT ![page - 1] = NoPage]
  BY <1>15 DEF p
<1> QED
  BY <1>5, <1>17, <1>18, <1>20, <1>21, <1>22

LEMMA ShrinkInv == SInv /\ ShrinkPage => SInv'
<1> SUFFICES ASSUME SInv, ShrinkPage PROVE SInv'
  OBVIOUS
<1>1. /\ pc = "shrink" /\ page # CeilPage(esi) /\ page \in Nat
      /\ page \in CeilPage(esi) .. CeilPage(break_current)
      /\ esi \in Nat /\ break_min \in Nat /\ break_min <= esi
  BY DEF ShrinkPage, AtTarget, SInv, LoopBounds, Legal, TypeOK, Loops
<1>2. CeilPage(esi) \in Nat /\ CeilPage(break_current) \in Nat
  BY <1>1, Ceil DEF SInv, TypeOK
<1>3. Low <= CeilPage(esi) /\ Low \in Nat
  BY <1>1, InvFacts, CeilMono DEF SInv
<1>4. Low < page
  BY <1>1, <1>2, <1>3
<1>5. /\ pc' = pc /\ page' = page - 1 /\ TypeOK' /\ Ownership' /\ HeapExtent'
      /\ break_min' = break_min /\ break_current' = break_current /\ esi' = esi
  BY <1>1, <1>4, ReleaseInv DEF ShrinkPage
<1>6. page' \in CeilPage(esi) .. CeilPage(break_current)
  BY <1>1, <1>2, <1>5
<1>7. LoopBounds'
  BY <1>1, <1>5, <1>6 DEF SInv, LoopBounds, Legal, Loops, CeilPage
<1> QED
  BY <1>1, <1>5, <1>7 DEF SInv, NoPanic

LEMMA UndoInv == SInv /\ UndoPage => SInv'
<1> SUFFICES ASSUME SInv, UndoPage PROVE SInv'
  OBVIOUS
<1>1. /\ pc = "undo" /\ page # CeilPage(break_current) /\ page \in Nat
      /\ page \in CeilPage(break_current) .. CeilPage(esi) - 1
  BY DEF UndoPage, SInv, LoopBounds, TypeOK
<1>2. /\ CeilPage(esi) \in Nat /\ CeilPage(break_current) \in Nat
      /\ Low <= CeilPage(break_current) /\ Low \in Nat
  BY InvFacts, Ceil DEF SInv, TypeOK
<1>3. Low < page
  BY <1>1, <1>2
<1>4. /\ pc' = pc /\ page' = page - 1 /\ TypeOK' /\ Ownership' /\ HeapExtent'
      /\ break_min' = break_min /\ break_current' = break_current /\ esi' = esi
  BY <1>1, <1>3, ReleaseInv DEF UndoPage
<1>5. page' \in CeilPage(break_current) .. CeilPage(esi) - 1
  BY <1>1, <1>2, <1>4
<1>6. LoopBounds'
  BY <1>1, <1>4, <1>5 DEF SInv, LoopBounds, Legal, Loops, CeilPage
<1> QED
  BY <1>1, <1>4, <1>6 DEF SInv, NoPanic

LEMMA ReturnStep ==
    ASSUME SInv, pc \in Loops, Return, UNCHANGED <<break_min, memory, data>>,
           break_current' \in Nat, break_current' \in break_min .. BreakTop,
           CeilPage(break_current') = page, eax' \in Nat
    PROVE  SInv'
<1>1. TypeOK' /\ NoPanic'
  BY DEF SInv, TypeOK, NoPanic, Return, memory
<1>2. Ownership'
  BY DEF SInv, Ownership, memory
<1>3. HeapBound' = HeapBound
  BY DEF HeapBound, Return, Loops, CeilPage
<1>4. HeapExtent'
  BY <1>3 DEF SInv, HeapExtent, memory
<1>5. LoopBounds'
  BY DEF SInv, LoopBounds, Return, Loops
<1> QED
  BY <1>1, <1>2, <1>4, <1>5 DEF SInv

LEMMA RefusedInv == SInv /\ BreakRefused => SInv'
<1> SUFFICES ASSUME SInv, BreakRefused PROVE SInv'
  OBVIOUS
<1>1. /\ pc \in Loops /\ Return /\ UNCHANGED <<break_min, memory, data>>
      /\ break_current' = break_current /\ eax' = 0
      /\ page = CeilPage(break_current)
  BY DEF BreakRefused, Loops
<1>2. break_current \in Nat /\ break_current \in break_min .. BreakTop
  BY DEF SInv, TypeOK, LoopBounds
<1> QED
  BY <1>1, <1>2, ReturnStep

LEMMA DoneInv == SInv /\ BreakDone => SInv'
<1> SUFFICES ASSUME SInv, BreakDone PROVE SInv'
  OBVIOUS
<1>1. /\ pc \in Loops /\ Return /\ UNCHANGED <<break_min, memory, data>>
      /\ break_current' = esi /\ eax' = break_current
      /\ page = CeilPage(esi)
  BY DEF BreakDone, Loops, AtTarget
<1>2. break_current \in Nat /\ esi \in Nat /\ esi \in break_min .. BreakTop
  BY <1>1, SyscallTypes DEF SInv, TypeOK, LoopBounds, Legal
<1> QED
  BY <1>1, <1>2, ReturnStep

\* Where the grow loop stands: below its target and below the stack, with the
\* page it is about to map unmapped.
LEMMA GrowFacts ==
    ASSUME SInv, GrowPage
    PROVE  /\ pc = "grow" /\ page \in Pages /\ page \in Nat /\ page < StackPage
           /\ Slot(page) \in Slots /\ m[page] = NoPage
           /\ m \in MapSet /\ Own(bitmap, pdir, m) /\ HeapM(m, Low, page)
           /\ Low \in Nat
           /\ bitmap \in Bitmaps /\ pdir \in Directory /\ ptab \in Tables
           /\ \A s, t \in Slots : pdir[s] = pdir[t] /\ pdir[s] # NoPage => s = t
           /\ \A s \in Slots : pdir[s] # NoPage => pdir[s] \in Frames /\ bitmap[pdir[s]]
<1>1. pc = "grow" /\ page \in Nat
  BY DEF GrowPage, SInv, TypeOK
<1>2. /\ m \in MapSet /\ Own(bitmap, pdir, m) /\ HeapM(m, Low, page)
      /\ page < StackPage /\ Low \in Nat
  BY <1>1, MemoryFacts, InvFacts DEF SInv, HeapBound, Loops
<1>3. page \in Pages /\ m[page] = NoPage
  BY <1>1, <1>2, SyscallTypes DEF Pages, HeapM
<1>4. bitmap \in Bitmaps /\ pdir \in Directory /\ ptab \in Tables
  BY DEF SInv, TypeOK, Directory, Tables
<1>5. \A s, t \in Slots : pdir[s] = pdir[t] /\ pdir[s] # NoPage => s = t
  BY <1>2 DEF Own
<1>6. \A s \in Slots : pdir[s] # NoPage => pdir[s] \in Frames /\ bitmap[pdir[s]]
  BY <1>2, <1>4 DEF Own, Directory
<1> QED
  BY <1>1, <1>2, <1>3, <1>4, <1>5, <1>6, PageSlot

\* The step that gives up: nothing but a free frame's bytes has changed.
LEMMA GrowFails ==
    ASSUME SInv, GrowPage, bitmap' = bitmap, pdir' = pdir, ptab' = ptab,
           page' = page, pc' = "undo",
           data' \in [Frames -> [Offsets -> Bytes]]
    PROVE  SInv'
<1>1. /\ break_min' = break_min /\ break_current' = break_current
      /\ eax' = eax /\ esi' = esi /\ pc = "grow" /\ page # CeilPage(esi)
  BY DEF GrowPage, AtTarget
<1>2. TypeOK' /\ NoPanic'
  BY <1>1 DEF SInv, TypeOK, NoPanic, Loops
<1>3. Ownership'
  BY DEF SInv, Ownership
<1>4. HeapExtent'
  BY <1>1 DEF SInv, HeapExtent, HeapBound, Loops
<1>5. CeilPage(esi) \in Nat /\ CeilPage(break_current) \in Nat /\ page \in Nat
  BY Ceil DEF SInv, TypeOK
<1>6. page \in CeilPage(break_current) .. CeilPage(esi) - 1
  BY <1>1, <1>5 DEF SInv, LoopBounds
<1>7. LoopBounds'
  BY <1>1, <1>6 DEF SInv, LoopBounds, Legal, Loops, CeilPage
<1> QED
  BY <1>2, <1>3, <1>4, <1>7 DEF SInv

LEMMA InsertedMap ==
    ASSUME m \in MapSet, NEW f, NEW r, NEW bm,
           Inserted(bm, pdir, ptab, page, f, r), pdir' = r.pdir, ptab' = r.ptab
    PROVE  m' = [m EXCEPT ![page] = f]
<1>1. \A q \in Pages : m'[q] = IF q = page THEN f ELSE m[q]
  BY PageSlot DEF Inserted, m, Map
<1>2. m' = [q \in Pages |-> m'[q]]
  BY DEF m, Map
<1> QED
  BY <1>1, <1>2 DEF MapSet

\* The step that maps a page: the heap ends one page higher.
LEMMA GrowSucceeds ==
    ASSUME SInv, GrowPage,
           NEW f \in Frames, ~bitmap[f], NEW r,
           Inserted([bitmap EXCEPT ![f] = TRUE], pdir, ptab, page, f, r),
           bitmap' = r.bitmap, pdir' = r.pdir, ptab' = r.ptab,
           page' = page + 1, pc' = pc,
           data' \in [Frames -> [Offsets -> Bytes]]
    PROVE  SInv'
<1> USE PageTableTypes
<1>1. /\ pc = "grow" /\ page \in Pages /\ page \in Nat /\ page < StackPage
      /\ Slot(page) \in Slots /\ m[page] = NoPage
      /\ m \in MapSet /\ Own(bitmap, pdir, m) /\ HeapM(m, Low, page)
      /\ Low \in Nat
      /\ bitmap \in Bitmaps /\ pdir \in Directory
      /\ \A s \in Slots : pdir[s] # NoPage => pdir[s] \in Frames /\ bitmap[pdir[s]]
  BY GrowFacts
<1> DEFINE taken == [bitmap EXCEPT ![f] = TRUE]
<1>2. taken \in Bitmaps /\ \A g \in Frames : taken[g] <=> bitmap[g] \/ g = f
  BY <1>1, Zenon DEF Bitmaps, Frames
<1>3. PICK t \in Frames :
         /\ pdir' = [pdir EXCEPT ![Slot(page)] = t]
         /\ bitmap' = [taken EXCEPT ![t] = TRUE]
         /\ pdir[Slot(page)] = t \/ (pdir[Slot(page)] = NoPage /\ ~taken[t])
  BY DEF Inserted
<1> HIDE DEF taken
<1>4. t # f /\ (pdir[Slot(page)] = t \/ (pdir[Slot(page)] = NoPage /\ ~bitmap[t]))
  BY <1>1, <1>2, <1>3
<1>5. bitmap' \in Bitmaps
  BY <1>2, <1>3, Zenon DEF Bitmaps, Frames
<1>6. pdir' \in Directory /\ ptab' \in Tables
  BY <1>1, <1>3 DEF Directory, Inserted
<1>7. m' = [m EXCEPT ![page] = f]
  BY <1>1, InsertedMap
<1>8. Own(bitmap', pdir', m')
  <2>1. Own([[bitmap EXCEPT ![f] = TRUE] EXCEPT ![t] = TRUE],
            [pdir EXCEPT ![Slot(page)] = t], [m EXCEPT ![page] = f])
    BY <1>1, <1>4, OwnGrow
  <2> QED
    BY <1>3, <1>7, <2>1 DEF taken
<1>9. /\ break_min' = break_min /\ break_current' = break_current
      /\ esi' = esi /\ eax' = eax /\ page # CeilPage(esi)
  BY DEF GrowPage, AtTarget
<1>10. Low' = Low /\ HeapBound' = page + 1
  BY <1>1, <1>9 DEF Low, HeapBound, Loops
<1>11. HeapM(m', Low, page + 1)
  <2>1. \A q \in Pages : m'[q] = IF q = page THEN f ELSE m[q]
    BY <1>1, <1>7 DEF MapSet
  <2>2. page + 1 \in Low .. StackPage /\ StackPage \in Nat
    BY <1>1, SyscallTypes DEF HeapM
  <2>3. ASSUME NEW q \in Low .. (page + 1) - 1 PROVE m'[q] \in Frames
    <3>1. q \in Pages /\ (q = page \/ q \in Low .. page - 1)
      BY <1>1, <2>2 DEF Pages
    <3> QED
      BY <1>1, <2>1, <3>1 DEF HeapM
  <2>4. ASSUME NEW q \in page + 1 .. StackPage - 1 PROVE m'[q] = NoPage
    <3>1. q \in Pages /\ q # page /\ q \in page .. StackPage - 1
      BY <1>1, <2>2 DEF Pages
    <3> QED
      BY <1>1, <2>1, <3>1 DEF HeapM
  <2>5. m'[StackPage] \in Frames
    BY <1>1, <2>1, PageSlot DEF HeapM
  <2> QED
    BY <2>2, <2>3, <2>4, <2>5 DEF HeapM
<1>12. Ownership' /\ HeapExtent'
  <2>1. break_min' \in Nat /\ Low' \in Nat
    BY <1>1, <1>9, <1>10 DEF SInv, TypeOK
  <2>2. HeapM(m', Low', HeapBound')
    BY <1>10, <1>11
  <2> QED
    BY <1>5, <1>6, <1>8, <2>1, <2>2, MemoryInvNext
<1>13. TypeOK' /\ NoPanic'
  BY <1>1, <1>5, <1>6, <1>9 DEF SInv, TypeOK, NoPanic, Directory, Tables
<1>14. LoopBounds'
  <2>1. CeilPage(esi) \in Nat /\ CeilPage(break_current) \in Nat
    BY Ceil DEF SInv, TypeOK
  <2>2. page + 1 \in CeilPage(break_current) .. CeilPage(esi)
    <3>1. page \in CeilPage(break_current) .. CeilPage(esi)
      BY <1>1 DEF SInv, LoopBounds
    <3> QED
      BY <1>1, <1>9, <2>1, <3>1
  <2> QED
    BY <1>1, <1>9, <2>2 DEF SInv, LoopBounds, Legal, Loops, CeilPage
<1> QED
  BY <1>12, <1>13, <1>14 DEF SInv

\* What a turn of the grow loop does: without memory for the page or for its
\* table, only a free frame's bytes may have changed.
GrowNothing ==
    /\ UNCHANGED <<bitmap, pdir, ptab, page>> /\ pc' = "undo"
    /\ \/ data' = data
       \/ \E f \in Frames : ~bitmap[f] /\ data' = [data EXCEPT ![f] = ZeroPage]

GrowOne(f, r) ==
    /\ ~bitmap[f] /\ data' = [data EXCEPT ![f] = ZeroPage]
    /\ Inserted([bitmap EXCEPT ![f] = TRUE], pdir, ptab, page, f, r)
    /\ bitmap' = r.bitmap /\ pdir' = r.pdir /\ ptab' = r.ptab
    /\ page' = page + 1 /\ pc' = pc

LEMMA GrowEffect ==
    ASSUME SInv, GrowPage
    PROVE  GrowNothing \/ \E f, r : f \in Frames /\ GrowOne(f, r)
<1> USE PageTableTypes
<1> DEFINE f == alloc_page(bitmap)
           taken == mark_page_allocated(bitmap, f, TRUE)
           r == insert_mapping(taken, pdir, ptab, page, f)
<1>1. /\ bitmap \in Bitmaps /\ pdir \in Directory /\ ptab \in Tables
      /\ page \in Nat /\ Slot(page) \in Slots
      /\ \A s, t \in Slots : pdir[s] = pdir[t] /\ pdir[s] # NoPage => s = t
      /\ \A s \in Slots : pdir[s] # NoPage => pdir[s] \in Frames /\ bitmap[pdir[s]]
  BY GrowFacts
<1>3. CASE f = NoPage
  <2>1. pc' = "undo" /\ UNCHANGED <<memory, data, page>>
    BY <1>3 DEF GrowPage
  <2> QED
    BY <2>1 DEF memory, GrowNothing
<1>4. CASE f # NoPage
  <2>1. f \in Frames /\ ~bitmap[f]
    BY <1>1, <1>4, AllocPage
  <2>2. /\ data' = [data EXCEPT ![f] = ZeroPage]
        /\ bitmap' = IF r.ok THEN r.bitmap ELSE mark_page_allocated(taken, f, FALSE)
        /\ pdir' = r.pdir /\ ptab' = r.ptab
        /\ page' = IF r.ok THEN page + 1 ELSE page
        /\ pc' = IF r.ok THEN pc ELSE "undo"
    BY <1>4 DEF GrowPage
  <2> HIDE DEF f
  <2>3. taken = [bitmap EXCEPT ![f] = TRUE]
    BY DEF mark_page_allocated
  <2>4. taken \in Bitmaps /\ \A g \in Frames : taken[g] <=> bitmap[g] \/ g = f
    <3>1. [bitmap EXCEPT ![f] = TRUE] \in Bitmaps
      BY <1>1, Zenon DEF Bitmaps, Frames
    <3>2. \A g \in Frames : [bitmap EXCEPT ![f] = TRUE][g] <=> bitmap[g] \/ g = f
      BY <1>1, Zenon DEF Bitmaps, Frames
    <3> HIDE DEF taken
    <3> QED
      BY <2>3, <3>1, <3>2
  <2>6. f \in Entries
    BY <2>1 DEF Entries
  <2> HIDE DEF taken
  <2>7. \/ NotInserted(taken, pdir, ptab, page, r)
        \/ Inserted(taken, pdir, ptab, page, f, r)
    <3>1. \A s \in Slots : pdir[s] # NoPage => taken[pdir[s]]
      BY <1>1, <2>4
    <3>2. r = insert_mapping(taken, pdir, ptab, page, f)
      OBVIOUS
    <3> HIDE DEF r
    <3> QED
      BY <1>1, <2>4, <2>6, <3>1, <3>2, InsertMapping
  <2> HIDE DEF r
  <2>8. CASE NotInserted(taken, pdir, ptab, page, r)
    <3>1. bitmap' = [taken EXCEPT ![f] = FALSE]
      BY <2>2, <2>8 DEF NotInserted, mark_page_allocated
    <3>2. [taken EXCEPT ![f] = FALSE] = bitmap
      BY <1>1, <2>1, <2>3, Zenon DEF Bitmaps, Frames
    <3> QED
      BY <2>1, <2>2, <2>8, <3>1, <3>2 DEF NotInserted, GrowNothing
  <2>9. CASE Inserted(taken, pdir, ptab, page, f, r)
    <3>1. bitmap' = r.bitmap /\ page' = page + 1 /\ pc' = pc
      BY <2>2, <2>9 DEF Inserted
    <3>2. GrowOne(f, r)
      BY <2>1, <2>2, <2>3, <2>9, <3>1 DEF GrowOne
    <3> QED
      BY <2>1, <3>2
  <2> QED
    BY <2>7, <2>8, <2>9
<1> QED
  BY <1>3, <1>4

LEMMA GrowInv == SInv /\ GrowPage => SInv'
<1> SUFFICES ASSUME SInv, GrowPage PROVE SInv'
  OBVIOUS
<1>1. data \in [Frames -> [Offsets -> Bytes]] /\ ZeroPage \in [Offsets -> Bytes]
  BY SyscallTypes DEF SInv, TypeOK, ZeroPage
<1>2. CASE GrowNothing
  <2>1. data' \in [Frames -> [Offsets -> Bytes]]
    BY <1>1, <1>2 DEF GrowNothing
  <2> QED
    BY <1>2, <2>1, GrowFails DEF GrowNothing
<1>3. CASE \E f, r : f \in Frames /\ GrowOne(f, r)
  <2>1. PICK f, r : f \in Frames /\ GrowOne(f, r)
    BY <1>3
  <2>2. data' \in [Frames -> [Offsets -> Bytes]]
    BY <1>1, <2>1 DEF GrowOne
  <2> QED
    BY <2>1, <2>2, GrowSucceeds DEF GrowOne
<1> QED
  BY <1>2, <1>3, GrowEffect

LEMMA StepSInv == SInv /\ [Next]_vars => SInv'
<1> SUFFICES ASSUME SInv, [Next]_vars PROVE SInv'
  OBVIOUS
<1>1. CASE User
  <2>1. CASE \E a \in WriteAddrs, byte \in Bytes : UserWrite(a, byte)
    BY <2>1, UserWriteInv
  <2>2. CASE \E x, y \in SumArgs : sys_sum(x, y)
    BY <2>2, SumInv
  <2>3. CASE \E a \in BreakArgs : BreakAccept(a)
    BY <2>3, AcceptInv
  <2>4. CASE \/ \E a \in WriteAddrs, len \in 1 .. PageSize : sys_print(a, len)
             \/ BreakQuery
             \/ \E a \in BreakArgs : BreakIllegal(a)
    BY <2>4, AnswerInv
  <2> QED
    BY <1>1, <2>1, <2>2, <2>3, <2>4 DEF User
<1>2. CASE Handler
  BY <1>2, GrowInv, UndoInv, RefusedInv, ShrinkInv, DoneInv DEF Handler
<1>3. CASE UNCHANGED vars
  <2>1. UNCHANGED <<break_min, break_current, bitmap, pdir, ptab, data, eax, esi, page, pc>>
    BY <1>3 DEF vars, memory
  <2> QED
    BY <2>1 DEF SInv, TypeOK, Ownership, HeapExtent, HeapBound, LoopBounds,
                NoPanic, Legal, CeilPage
<1> QED
  BY <1>1, <1>2, <1>3 DEF Next

\* Every frame has one owner and the bitmap says so, whatever the program asks
\* for and wherever memory runs out.
THEOREM FramesHaveOneOwner == Spec => []Ownership
<1>1. Spec => []SInv
  BY InitSInv, StepSInv, PTL DEF Spec
<1> QED
  BY <1>1, PTL DEF SInv

\* The heap is mapped exactly up to the break and never reaches the stack.
THEOREM HeapIsMapped == Spec => []HeapExtent
<1>1. Spec => []SInv
  BY InitSInv, StepSInv, PTL DEF Spec
<1> QED
  BY <1>1, PTL DEF SInv

\* The loops that map and unmap pages start and stay on the side of their
\* target they move to.
THEOREM LoopsStayInBounds == Spec => []LoopBounds
<1>1. Spec => []SInv
  BY InitSInv, StepSInv, PTL DEF Spec
<1> QED
  BY <1>1, PTL DEF SInv

\* The variables have their types, and free_page is never called for a frame
\* that is not allocated.
THEOREM SyscallsAreSafe == Spec => [](TypeOK /\ NoPanic)
<1>1. Spec => []SInv
  BY InitSInv, StepSInv, PTL DEF Spec
<1> QED
  BY <1>1, PTL DEF SInv
-----------------------------------------------------------------------------
(* The refinement of Break: what the program sees of its memory. *)

Pg(x)  == x \div PageSize
Off(x) == x % PageSize

LEMMA PgOff ==
    ASSUME NEW x \in Nat
    PROVE  /\ Pg(x) \in Nat /\ Off(x) \in Offsets /\ Off(x) \in Nat /\ Off(x) < PageSize
           /\ x = Pg(x) * PageSize + Off(x)
<1> DEFINE q == x \div PageSize
           o == x % PageSize
<1>1. PageSize \in Nat /\ x = PageSize * q + o /\ q \in Nat /\ o \in 0 .. PageSize - 1
  BY SyscallTypes, DivMod
<1> HIDE DEF q, o
<1>2. PageSize * q = q * PageSize /\ o \in Nat /\ o < PageSize
  BY <1>1
<1>3. x = q * PageSize + o
  BY <1>1, <1>2
<1>4. Pg(x) = q /\ Off(x) = o
  BY DEF q, o, Pg, Off
<1> QED
  BY <1>1, <1>2, <1>3, <1>4 DEF Offsets

LEMMA PgBelow ==
    ASSUME NEW x \in Nat, NEW n \in Nat
    PROVE  x < n * PageSize <=> Pg(x) < n
<1> USE SyscallTypes
<1> DEFINE q == Pg(x)
<1>1. q \in Nat /\ Off(x) \in Nat /\ Off(x) < PageSize /\ x = q * PageSize + Off(x)
  BY PgOff
<1> HIDE DEF q
<1>2. q * PageSize \in Nat /\ n * PageSize \in Nat
  BY <1>1
<1>3. ASSUME x < n * PageSize PROVE q < n
  <2>1. q * PageSize < n * PageSize + PageSize
    BY <1>1, <1>2, <1>3
  <2>2. q <= n
    BY <1>1, <2>1, MulLess
  <2>3. q # n
    BY <1>1, <1>2, <1>3
  <2> QED
    BY <1>1, <2>2, <2>3
<1>4. ASSUME ~(x < n * PageSize) PROVE n <= q
  <2>1. n * PageSize < q * PageSize + PageSize
    BY <1>1, <1>2, <1>4
  <2> QED
    BY <1>1, <2>1, MulLess
<1> QED
  BY <1>1, <1>3, <1>4 DEF q

\* An address below b is in a page below align_up(b); one from b on is in the
\* last of those pages only if b is inside it, and then behind b.
LEMMA CeilPages ==
    ASSUME NEW x \in Nat, NEW b \in Nat
    PROVE  /\ x < b => Pg(x) < CeilPage(b)
           /\ Pg(x) < CeilPage(b) /\ b <= x =>
                 /\ b % PageSize # 0 /\ Pg(x) = CeilPage(b) - 1
                 /\ b % PageSize <= Off(x)
           /\ x < b /\ b % PageSize # 0 /\ Pg(x) = CeilPage(b) - 1
                 => Off(x) < b % PageSize
<1> USE SyscallTypes
<1> DEFINE c == CeilPage(b)
           q == Pg(x)
           r == Pg(b)
           o == Off(b)
<1>1. c \in Nat /\ b <= c * PageSize /\ c * PageSize < b + PageSize
  BY Ceil
<1>2. /\ r \in Nat /\ o \in Nat /\ o < PageSize /\ b = r * PageSize + o
      /\ q \in Nat /\ Off(x) \in Nat /\ Off(x) < PageSize /\ x = q * PageSize + Off(x)
  BY PgOff
<1>3. /\ (x < c * PageSize) <=> q < c
      /\ o = 0 => c = r
  <2>1. o = 0 => b = r * PageSize
    BY <1>2
  <2> QED
    BY <1>1, <2>1, <1>2, PgBelow, CeilExact
<1> HIDE DEF c, q, r, o
<1>4. c * PageSize \in Nat /\ q * PageSize \in Nat /\ r * PageSize \in Nat
  BY <1>1, <1>2
<1>5. x < b => q < c
  BY <1>1, <1>2, <1>3, <1>4
\* b inside a page: align_up(b) is the next page.
<1>6. o # 0 => c = r + 1
  <2>1. SUFFICES ASSUME o # 0 PROVE c = r + 1
    OBVIOUS
  <2>2. (r + 1) * PageSize = r * PageSize + PageSize
    BY <1>2
  <2>3. c <= r + 1
    <3>1. c * PageSize < (r + 1) * PageSize + PageSize
      BY <1>1, <1>2, <1>4, <2>2
    <3> QED
      BY <1>1, <1>2, <3>1, MulLess
  <2>4. r <= c
    <3>1. r * PageSize < c * PageSize + PageSize
      BY <1>1, <1>2, <1>4
    <3> QED
      BY <1>1, <1>2, <3>1, MulLess
  <2>5. c # r
    BY <1>1, <1>2, <1>4, <2>1
  <2> QED
    BY <1>1, <1>2, <2>3, <2>4, <2>5
<1>7. ASSUME q < c, b <= x
      PROVE  o # 0 /\ q = c - 1 /\ o <= Off(x)
  <2>1. r <= q
    <3>1. r * PageSize < q * PageSize + PageSize
      BY <1>2, <1>4, <1>7
    <3> QED
      BY <1>2, <3>1, MulLess
  <2>2. o # 0 /\ q = r
    BY <1>1, <1>2, <1>3, <1>6, <1>7, <2>1
  <2> QED
    BY <1>1, <1>2, <1>4, <1>6, <1>7, <2>2
<1>8. ASSUME x < b, o # 0, q = c - 1 PROVE Off(x) < o
  <2>1. q = r
    BY <1>1, <1>2, <1>6, <1>8
  <2> QED
    BY <1>2, <1>4, <1>8, <2>1
<1>9. o = b % PageSize
  BY DEF o, Off
<1> QED
  BY <1>5, <1>7, <1>8, <1>9 DEF q, c

\* What is visible to the program, in the state and through Break's eyes.
InHeap(x) == x \in break_min .. BreakSeen - 1 \/ x \in StackAddrs

AskNow  == IF pc \in {"grow", "undo"} THEN esi ELSE 0
EaxNow  == IF Lowering THEN break_current ELSE eax
CellNow == [a \in Addrs |->
               IF a \in break_min .. BreakSeen - 1 \/ a \in StackAddrs
               THEN Byte(a) ELSE 0]

\* The bytes of the pages the grow loop has mapped so far, and of the end of
\* the page the break was in, are zero.
GrownIsZero ==
    pc = "grow" =>
        \A x \in Addrs : break_current <= x /\ x < page * PageSize => Byte(x) = 0

LEMMA AddrPage ==
    ASSUME NEW x \in Addrs
    PROVE  /\ x \in Nat /\ Pg(x) \in Pages /\ Pg(x) \in Nat /\ Off(x) \in Offsets
           /\ x \in StackAddrs <=> Pg(x) = StackPage
<1> USE SyscallTypes
<1>1. x \in Nat /\ x < (StackPage + 1) * PageSize /\ StackPage + 1 \in Nat
  BY DEF Addrs, BreakTop
<1>2. Pg(x) \in Nat /\ Off(x) \in Offsets
  BY <1>1, PgOff
<1>3. Pg(x) < StackPage + 1 /\ (x < StackPage * PageSize <=> Pg(x) < StackPage)
  BY <1>1, PgBelow
<1>4. x \in StackAddrs <=> ~(x < StackPage * PageSize)
  <2>1. StackPage * PageSize \in Nat
    OBVIOUS
  <2> HIDE DEF Pg
  <2> QED
    BY <1>1, <2>1 DEF StackAddrs, Addrs
<1> QED
  BY <1>1, <1>2, <1>3, <1>4 DEF Pages

\* A byte is read through the page's mapping, before a step and after it.
LEMMA ByteIs ==
    ASSUME NEW x \in Addrs
    PROVE  /\ Byte(x) = IF m[Pg(x)] \in Frames THEN data[m[Pg(x)]][Off(x)] ELSE 0
           /\ Byte(x)' = IF m'[Pg(x)] \in Frames THEN data'[m'[Pg(x)]][Off(x)] ELSE 0
<1>1. Pg(x) \in Pages
  BY AddrPage
<1>2. Frame(x \div PageSize) = m[Pg(x)] /\ Frame(x \div PageSize)' = m'[Pg(x)]
  BY <1>1 DEF Frame, m, Map, Pg
<1> QED
  BY <1>2 DEF Byte, Off

\* The break the program sees is not above the mapped heap.
LEMMA SeenFacts ==
    ASSUME SInv
    PROVE  /\ break_min \in Nat /\ BreakSeen \in Nat /\ BreakSeen \in break_min .. BreakTop
           /\ break_min = Low * PageSize /\ Low \in Nat
           /\ CeilPage(BreakSeen) \in Nat /\ HeapBound \in Nat
           /\ CeilPage(BreakSeen) <= HeapBound /\ HeapBound < StackPage
           /\ break_current \in Nat /\ break_min <= break_current
           /\ break_current <= BreakTop
           /\ BreakSeen <= break_current
<1>1. /\ break_min \in Nat /\ break_current \in Nat /\ esi \in Nat /\ page \in Nat
      /\ Low \in Nat /\ break_min = Low * PageSize
      /\ break_current \in break_min .. BreakTop /\ BreakTop \in Nat
      /\ HeapBound < StackPage
  BY InvFacts, MemoryFacts, SyscallTypes DEF SInv, TypeOK, LoopBounds
<1>2. CeilPage(break_current) \in Nat /\ CeilPage(esi) \in Nat
  BY <1>1, Ceil
<1>3. CASE pc = "shrink"
  <2>1. BreakSeen = esi /\ HeapBound = page
    BY <1>3 DEF BreakSeen, Lowering, HeapBound, Loops
  <2>2. break_min <= esi /\ esi <= break_current /\ CeilPage(esi) <= page
    BY <1>1, <1>2, <1>3 DEF SInv, LoopBounds, Legal, Loops
  <2> QED
    BY <1>1, <1>2, <2>1, <2>2
<1>4. CASE pc # "shrink"
  <2>1. BreakSeen = break_current
    BY <1>4 DEF BreakSeen, Lowering
  <2>2. CeilPage(break_current) <= HeapBound /\ HeapBound \in Nat
    BY <1>1, <1>2, <1>4 DEF HeapBound, Loops, SInv, LoopBounds
  <2> QED
    BY <1>1, <1>2, <2>1, <2>2
<1> QED
  BY <1>3, <1>4

\* Where the bytes of the heap and of the stack are: in an allocated frame,
\* mapped at a page of the heap or at the stack page.
LEMMA Where ==
    ASSUME SInv, NEW x \in Addrs, InHeap(x)
    PROVE  /\ m[Pg(x)] \in Frames /\ bitmap[m[Pg(x)]]
           /\ Byte(x) = data[m[Pg(x)]][Off(x)]
           /\ \/ Pg(x) = StackPage
              \/ Low <= Pg(x) /\ Pg(x) < CeilPage(BreakSeen) /\ Pg(x) < HeapBound
                 /\ x < BreakSeen /\ break_min <= x
<1>1. /\ HeapM(m, Low, HeapBound) /\ Own(bitmap, pdir, m)
  BY MemoryFacts DEF SInv
<1>2. x \in Nat /\ Pg(x) \in Nat /\ Pg(x) \in Pages
  BY AddrPage
<1>3. \/ Pg(x) = StackPage
      \/ Low <= Pg(x) /\ Pg(x) < CeilPage(BreakSeen) /\ Pg(x) < HeapBound
         /\ x < BreakSeen /\ break_min <= x
  <2>1. CASE x \in StackAddrs
    BY <2>1, AddrPage
  <2>2. CASE x \in break_min .. BreakSeen - 1
    <3>1. x < BreakSeen /\ break_min <= x
      BY <1>2, <2>2, SeenFacts
    <3>2. Pg(x) < CeilPage(BreakSeen)
      BY <1>2, <3>1, SeenFacts, CeilPages
    <3>3. ~(x < Low * PageSize)
      BY <1>2, <3>1, SeenFacts
    <3>4. Low <= Pg(x)
      BY <1>2, <3>3, PgBelow, SeenFacts
    <3> QED
      BY <1>2, <3>1, <3>2, <3>4, SeenFacts
  <2> QED
    BY <2>1, <2>2 DEF InHeap
<1>4. m[Pg(x)] \in Frames
  BY <1>1, <1>2, <1>3, SeenFacts DEF HeapM
<1> QED
  BY <1>1, <1>2, <1>3, <1>4, ByteIs DEF Own

Kept == \A x \in Addrs : InHeap(x) => Byte(x)' = Byte(x)

\* A step that keeps the mappings the heap and the stack use, and the bytes of
\* the allocated frames, keeps their bytes.
LEMMA KeptIf ==
    ASSUME SInv,
           \A x \in Addrs : InHeap(x) => m'[Pg(x)] = m[Pg(x)],
           \A f \in Frames : bitmap[f] => data'[f] = data[f]
    PROVE  Kept
<1> SUFFICES ASSUME NEW x \in Addrs, InHeap(x) PROVE Byte(x)' = Byte(x)
  BY DEF Kept
<1>1. m'[Pg(x)] = m[Pg(x)] /\ m[Pg(x)] \in Frames /\ bitmap[m[Pg(x)]]
      /\ Byte(x) = data[m[Pg(x)]][Off(x)]
  BY Where
<1>2. data'[m[Pg(x)]] = data[m[Pg(x)]]
  BY <1>1
<1> QED
  BY <1>1, <1>2, ByteIs

\* A step that changes only what Break does not see.
LEMMA Hidden ==
    ASSUME Kept, break_min' = break_min, BreakSeen' = BreakSeen,
           AskNow' = AskNow, EaxNow' = EaxNow
    PROVE  UNCHANGED Promise!vars
<1>1. CellNow' = CellNow
  <2>1. \A x \in Addrs : InHeap(x)' <=> InHeap(x)
    BY DEF InHeap
  <2>2. CellNow = [x \in Addrs |-> IF InHeap(x) THEN Byte(x) ELSE 0]
    BY DEF CellNow, InHeap
  <2>3. CellNow' = [x \in Addrs |-> IF InHeap(x)' THEN Byte(x)' ELSE 0]
    BY DEF CellNow, InHeap
  <2> QED
    BY <2>1, <2>2, <2>3 DEF Kept
<1> QED
  BY <1>1 DEF Promise!vars, CellNow, AskNow, EaxNow

LEMMA RefineInit == Init => Promise!Init
<1> SUFFICES ASSUME Init PROVE Promise!Init
  OBVIOUS
<1>1. SInv
  BY InitSInv
<1>2. /\ break_current = break_min /\ pc = "user" /\ eax = 0
      /\ data = [f \in Frames |-> ZeroPage]
  BY DEF Init
<1>3. BreakSeen = break_current /\ AskNow = 0 /\ EaxNow = 0
  BY <1>2 DEF BreakSeen, AskNow, EaxNow, Lowering
<1>4. break_min \in 1 .. BreakTop
  <2>1. PICK l \in Layouts : break_min = l.low * PageSize
    BY DEF Init
  <2> DEFINE low == l.low
  <2>2. low \in Nat /\ low >= 1
    BY SyscallAssumption DEF LayoutOK
  <2>3. break_min = low * PageSize
    BY <2>1
  <2> HIDE DEF low
  <2>4. low * PageSize # 0
    BY <2>2, SyscallTypes
  <2> QED
    BY <1>1, <2>3, <2>4, SeenFacts, SyscallTypes
<1>5. CellNow = [a \in Addrs |-> 0]
  <2>1. ASSUME NEW x \in Addrs PROVE Byte(x) = 0
    BY <1>2, AddrPage, ByteIs DEF ZeroPage
  <2> QED
    BY <2>1 DEF CellNow
<1> QED
  BY <1>2, <1>3, <1>4, <1>5 DEF Promise!Init, CellNow, AskNow, EaxNow

\* A byte belongs to one address.
LEMMA OneAddress ==
    ASSUME SInv, NEW x \in Addrs, NEW y \in Addrs,
           m[Pg(x)] \in Frames, m[Pg(x)] = m[Pg(y)], Off(x) = Off(y)
    PROVE  x = y
<1>1. x \in Nat /\ y \in Nat /\ Pg(x) \in Pages /\ Pg(y) \in Pages
  BY AddrPage
<1>2. Pg(x) = Pg(y)
  BY <1>1, MemoryFacts DEF SInv, Own
<1> QED
  BY <1>1, <1>2, PgOff

LEMMA RefineWrite ==
    ASSUME SInv, NEW a \in WriteAddrs, NEW byte \in Bytes, UserWrite(a, byte)
    PROVE  Promise!Write(a, byte) \/ UNCHANGED Promise!vars
<1>1. a \in Addrs
  BY SyscallAssumption DEF Addrs
<1>2. /\ pc = "user" /\ pc' \in {"user", "fault"}
      /\ UNCHANGED <<break_min, break_current, memory, eax, esi, page>>
  BY DEF UserWrite
<1>3. m' = m
  BY <1>2 DEF m, Map, memory, get_mapping
<1>4. BreakSeen' = BreakSeen /\ AskNow' = AskNow /\ EaxNow' = EaxNow /\ AskNow = 0
  BY <1>2 DEF BreakSeen, AskNow, EaxNow, Lowering
<1> DEFINE f == m[Pg(a)]
           o == Off(a)
<1>5. Pg(a) \in Pages /\ Frame(a \div PageSize) = f /\ a % PageSize = o /\ o \in Offsets
  BY <1>1, AddrPage DEF m, Map, Frame, Pg, Off
<1>6. data \in [Frames -> [Offsets -> Bytes]]
  BY DEF SInv, TypeOK
<1>7. CASE f \in Frames
  <2>1. data' = [data EXCEPT ![f][o] = byte]
    BY <1>5, <1>7 DEF UserWrite
  <2> HIDE DEF f, o
  <2>2. \A g \in Frames, n \in Offsets :
           data'[g][n] = IF g = f /\ n = o THEN byte ELSE data[g][n]
    BY <1>5, <1>6, <1>7, <2>1
  <2>3. ASSUME NEW x \in Addrs, InHeap(x), x # a
        PROVE  Byte(x)' = Byte(x)
    <3>1. m[Pg(x)] \in Frames /\ Off(x) \in Offsets /\ Byte(x) = data[m[Pg(x)]][Off(x)]
      BY <2>3, Where, AddrPage
    <3>2. ~(m[Pg(x)] = f /\ Off(x) = o)
      BY <1>1, <1>7, <2>3, <3>1, OneAddress DEF f, o
    <3> QED
      BY <1>3, <2>2, <3>1, <3>2, ByteIs
  <2>4. CASE ~InHeap(a)
    <3>1. Kept
      BY <2>3, <2>4 DEF Kept
    <3> QED
      BY <1>2, <1>4, <3>1, Hidden
  <2>5. CASE InHeap(a)
    <3>1. Byte(a)' = byte
      BY <1>1, <1>3, <1>5, <1>7, <2>2, ByteIs DEF f, o
    <3>2. \A x \in Addrs : InHeap(x)' <=> InHeap(x)
      BY <1>2, <1>4 DEF InHeap
    <3>3. CellNow = [x \in Addrs |-> IF InHeap(x) THEN Byte(x) ELSE 0]
      BY DEF CellNow, InHeap
    <3>4. CellNow' = [x \in Addrs |-> IF InHeap(x)' THEN Byte(x)' ELSE 0]
      BY DEF CellNow, InHeap
    <3>5. CellNow' = [CellNow EXCEPT ![a] = byte]
      BY <1>1, <2>3, <2>5, <3>1, <3>2, <3>3, <3>4
    <3> QED
      BY <1>2, <1>4, <2>5, <3>5
         DEF Promise!Write, Promise!Live, CellNow, AskNow, EaxNow, InHeap
  <2> QED
    BY <2>4, <2>5
<1>8. CASE f \notin Frames
  <2>1. data' = data
    BY <1>5, <1>8 DEF UserWrite
  <2>2. Kept
    BY <1>3, <2>1, ByteIs DEF Kept
  <2> QED
    BY <1>2, <1>4, <2>2, Hidden
<1> QED
  BY <1>7, <1>8

\* A step that leaves memory and data alone keeps every byte.
LEMMA KeptMemory == UNCHANGED <<memory, data>> => Kept
<1> SUFFICES ASSUME UNCHANGED <<memory, data>> PROVE Kept
  OBVIOUS
<1>1. m' = m
  BY DEF m, Map, memory, get_mapping
<1> QED
  BY <1>1, ByteIs DEF Kept

LEMMA RefineAnswers ==
    ASSUME SInv,
           \/ \E x, y \in SumArgs : sys_sum(x, y)
           \/ BreakQuery
           \/ \E a \in BreakArgs : BreakIllegal(a)
    PROVE  Promise!Sum \/ Promise!Query \/ Promise!Illegal
<1>1. /\ pc = "user" /\ pc' = "user"
      /\ UNCHANGED <<break_min, break_current, memory, data, esi, page>>
  BY DEF sys_sum, BreakQuery, BreakIllegal
<1>2. /\ BreakSeen' = BreakSeen /\ BreakSeen = break_current
      /\ AskNow = 0 /\ AskNow' = 0 /\ EaxNow' = eax'
  BY <1>1 DEF BreakSeen, AskNow, EaxNow, Lowering
<1>3. CellNow' = CellNow
  <2>1. Kept
    BY <1>1, KeptMemory
  <2>2. \A x \in Addrs : InHeap(x)' <=> InHeap(x)
    BY <1>1, <1>2 DEF InHeap
  <2> QED
    BY <2>1, <2>2 DEF CellNow, InHeap, Kept
<1>4. CASE \E x, y \in SumArgs : sys_sum(x, y)
  <2>1. PICK x \in SumArgs, y \in SumArgs : eax' = (x + y) % WordSize
    BY <1>4 DEF sys_sum
  <2> QED
    BY <1>1, <1>2, <1>3, <2>1
       DEF Promise!Sum, Promise!Answer, CellNow, AskNow, EaxNow
<1>5. CASE BreakQuery
  <2>1. eax' = break_current
    BY <1>5 DEF BreakQuery
  <2> QED
    BY <1>1, <1>2, <1>3, <2>1
       DEF Promise!Query, Promise!Answer, CellNow, AskNow, EaxNow
<1>6. CASE \E a \in BreakArgs : BreakIllegal(a)
  <2>1. eax' = 0
    BY <1>6 DEF BreakIllegal
  <2> QED
    BY <1>1, <1>2, <1>3, <2>1
       DEF Promise!Illegal, Promise!Answer, CellNow, AskNow, EaxNow
<1> QED
  BY <1>4, <1>5, <1>6

\* A fault while printing is invisible.
LEMMA RefinePrint ==
    ASSUME SInv, NEW a, NEW len, sys_print(a, len)
    PROVE  UNCHANGED Promise!vars
<1>1. /\ pc = "user" /\ pc' = "fault"
      /\ UNCHANGED <<break_min, break_current, memory, data, eax, esi, page>>
  BY DEF sys_print
<1>2. BreakSeen' = BreakSeen /\ AskNow' = AskNow /\ EaxNow' = EaxNow
  BY <1>1 DEF BreakSeen, AskNow, EaxNow, Lowering
<1> QED
  BY <1>1, <1>2, KeptMemory, Hidden

\* What accepting a break does to the bytes of the mapped pages: those of the
\* page the break is in, from the break on, become zero.
InTail(x) ==
    /\ break_current % PageSize # 0
    /\ Pg(x) = CeilPage(break_current) - 1
    /\ ~(Off(x) < break_current % PageSize)

LEMMA TailEffect ==
    ASSUME SInv, NEW a, BreakAccept(a), NEW x \in Addrs, m[Pg(x)] \in Frames
    PROVE  m' = m /\ Byte(x)' = IF InTail(x) THEN 0 ELSE Byte(x)
<1>1. m' = m
  BY DEF m, Map, memory, get_mapping, BreakAccept
<1>2. data \in [Frames -> [Offsets -> Bytes]] /\ Pg(x) \in Pages /\ Off(x) \in Offsets
  BY AddrPage DEF SInv, TypeOK
<1>3. CASE break_current % PageSize = 0
  <2>1. data' = data
    BY <1>3 DEF BreakAccept, ZeroTail
  <2> QED
    BY <1>1, <1>3, <2>1, ByteIs DEF InTail
<1>4. CASE break_current % PageSize # 0
  <2> DEFINE q == CeilPage(break_current) - 1
             t == Frame(q)
             k == break_current % PageSize
             z == [o \in Offsets |-> IF o < k THEN data[t][o] ELSE 0]
  <2>1. t \in Frames /\ data' = [data EXCEPT ![t] = z]
    BY <1>4, TailMapped DEF BreakAccept, ZeroTail
  <2>2. q \in Pages /\ t = m[q]
    <3>1. CeilPage(break_current) \in Nat /\ HeapBound < StackPage
          /\ Low \in Nat /\ Low < CeilPage(break_current)
      BY <1>4, InvFacts, Ceil, SeenFacts DEF SInv, TypeOK
    <3>2. HeapBound = CeilPage(break_current)
      BY DEF HeapBound, Loops, BreakAccept
    <3>3. q \in Pages
      BY <3>1, <3>2, SyscallTypes DEF Pages
    <3> QED
      BY <3>3 DEF Frame, m, Map
  <2>3. m[Pg(x)] = t <=> Pg(x) = q
    BY <1>2, <2>1, <2>2, MemoryFacts DEF SInv, Own
  <2>4. z[Off(x)] = IF Off(x) < k THEN data[t][Off(x)] ELSE 0
    BY <1>2
  <2>5. InTail(x) <=> Pg(x) = q /\ ~(Off(x) < k)
    BY <1>4 DEF InTail
  <2>6. Byte(x) = data[m[Pg(x)]][Off(x)] /\ Byte(x)' = data'[m[Pg(x)]][Off(x)]
    BY <1>1, ByteIs
  <2> HIDE DEF q, t, k, z
  <2>7. CASE Pg(x) = q
    <3>1. data'[t] = z /\ m[Pg(x)] = t
      BY <1>2, <2>1, <2>3, <2>7
    <3> QED
      BY <1>1, <2>4, <2>5, <2>6, <2>7, <3>1
  <2>8. CASE Pg(x) # q
    <3>1. data'[m[Pg(x)]] = data[m[Pg(x)]]
      BY <1>2, <2>1, <2>3, <2>8
    <3> QED
      BY <1>1, <2>5, <2>6, <2>8, <3>1
  <2> QED
    BY <2>7, <2>8
<1> QED
  BY <1>3, <1>4

LEMMA AcceptKeeps ==
    ASSUME SInv, NEW a, BreakAccept(a)
    PROVE  Kept
<1> SUFFICES ASSUME NEW x \in Addrs, InHeap(x) PROVE Byte(x)' = Byte(x)
  BY DEF Kept
<1>1. m[Pg(x)] \in Frames /\ x \in Nat
  BY Where, AddrPage
<1>2. BreakSeen = break_current /\ HeapBound = CeilPage(break_current)
  BY DEF BreakAccept, BreakSeen, Lowering, HeapBound, Loops
<1>3. ~InTail(x)
  <2>1. CASE Pg(x) = StackPage
    <3>1. CeilPage(break_current) \in Nat /\ CeilPage(break_current) < StackPage
      BY <1>2, SeenFacts
    <3> QED
      BY <2>1, <3>1, SyscallTypes DEF InTail
  <2>2. CASE x < break_current
    BY <1>1, <2>2, SeenFacts, CeilPages DEF InTail
  <2> QED
    BY <1>2, <2>1, <2>2, Where
<1> QED
  BY <1>1, <1>3, TailEffect

LEMMA RefineAccept ==
    ASSUME SInv, NEW a \in BreakArgs, BreakAccept(a)
    PROVE  a \in break_min .. BreakTop /\ (Promise!Lower(a) \/ Promise!Ask(a))
<1>1. a \in Nat /\ break_min <= a /\ a <= BreakTop /\ a # 0
  BY SyscallAssumption DEF BreakAccept, Legal
<1>2. /\ break_min \in Nat /\ BreakTop \in Nat /\ break_current \in Nat
      /\ break_min <= break_current
  BY SeenFacts, SyscallTypes
<1>3. /\ pc = "user" /\ esi' = a
      /\ UNCHANGED <<break_min, break_current, memory, eax>>
      /\ pc' = IF break_current < a THEN "grow" ELSE "shrink"
  BY DEF BreakAccept
<1>4. BreakSeen = break_current /\ AskNow = 0 /\ EaxNow = eax
  BY <1>3 DEF BreakSeen, AskNow, EaxNow, Lowering
<1>5. Kept
  BY AcceptKeeps
<1>6. CASE break_current < a
  <2>1. pc' = "grow"
    BY <1>3, <1>6
  <2>2. BreakSeen' = BreakSeen /\ AskNow' = a /\ EaxNow' = EaxNow
    BY <1>3, <1>4, <2>1 DEF BreakSeen, AskNow, EaxNow, Lowering
  <2>3. CellNow' = CellNow
    <3>1. \A x \in Addrs : InHeap(x)' <=> InHeap(x)
      BY <1>3, <2>2 DEF InHeap
    <3> QED
      BY <1>5, <3>1 DEF CellNow, InHeap, Kept
  <2>4. a \in BreakSeen + 1 .. BreakTop
    BY <1>1, <1>2, <1>4, <1>6
  <2>5. Promise!Ask(a)
    BY <1>3, <1>4, <2>2, <2>3, <2>4 DEF Promise!Ask, CellNow, AskNow, EaxNow
  <2> QED
    BY <1>1, <1>2, <2>5
<1>7. CASE ~(break_current < a)
  <2>1. pc' = "shrink"
    BY <1>3, <1>7
  <2>2. BreakSeen' = a /\ AskNow' = 0 /\ EaxNow' = BreakSeen
    BY <1>3, <1>4, <2>1 DEF BreakSeen, AskNow, EaxNow, Lowering
  <2>3. a \in break_min .. BreakSeen
    BY <1>1, <1>2, <1>4, <1>7
  <2>4. CellNow' = [x \in Addrs |-> IF Promise!Live(break_min, a, x) THEN CellNow[x] ELSE 0]
    <3>1. ASSUME NEW x \in Addrs
          PROVE  CellNow'[x] = IF Promise!Live(break_min, a, x) THEN CellNow[x] ELSE 0
      <4>1. InHeap(x)' <=> Promise!Live(break_min, a, x)
        BY <1>3, <2>2 DEF InHeap, Promise!Live
      <4>2. Promise!Live(break_min, a, x) => InHeap(x)
        <5>1. x \in Nat
          BY AddrPage
        <5>2. x \in break_min .. a - 1 => x \in break_min .. BreakSeen - 1
          BY <1>1, <1>2, <1>4, <1>7, <5>1
        <5> QED
          BY <5>2 DEF InHeap, Promise!Live
      <4>3. CellNow[x] = IF InHeap(x) THEN Byte(x) ELSE 0
        BY DEF CellNow, InHeap
      <4>4. CellNow'[x] = IF InHeap(x)' THEN Byte(x)' ELSE 0
        BY DEF CellNow, InHeap
      <4> QED
        BY <1>5, <4>1, <4>2, <4>3, <4>4 DEF Kept
    <3>2. CellNow' = [x \in Addrs |-> CellNow'[x]]
      BY DEF CellNow
    <3> QED
      BY <3>1, <3>2
  <2>5. Promise!Lower(a)
    BY <1>3, <1>4, <2>2, <2>3, <2>4
       DEF Promise!Lower, Promise!Move, Promise!Live, CellNow, AskNow, EaxNow
  <2> QED
    BY <1>1, <1>2, <2>5
<1> QED
  BY <1>6, <1>7

\* A loop that unmaps pages takes none that the program still sees.
LEMMA RefineRelease ==
    ASSUME SInv, UndoPage \/ ShrinkPage
    PROVE  UNCHANGED Promise!vars
<1>1. pc \in {"undo", "shrink"} /\ ReleasePage
  BY DEF UndoPage, ShrinkPage
<1>2. CeilPage(BreakSeen) < page /\ page \in Nat /\ page = HeapBound
  <2>1. page \in Nat /\ esi \in Nat /\ break_current \in Nat
    BY DEF SInv, TypeOK
  <2>2. CeilPage(esi) \in Nat /\ CeilPage(break_current) \in Nat
    BY <2>1, Ceil
  <2>3. CASE UndoPage
    <3>1. pc = "undo" /\ page # CeilPage(break_current)
      BY <2>3 DEF UndoPage
    <3>2. BreakSeen = break_current /\ page \in CeilPage(break_current) .. CeilPage(esi) - 1
      BY <3>1 DEF BreakSeen, Lowering, SInv, LoopBounds
    <3> QED
      BY <1>1, <2>1, <2>2, <3>1, <3>2 DEF HeapBound, Loops
  <2>4. CASE ShrinkPage
    <3>1. pc = "shrink" /\ page # CeilPage(esi)
      BY <2>4 DEF ShrinkPage, AtTarget
    <3>2. BreakSeen = esi /\ page \in CeilPage(esi) .. CeilPage(break_current)
      BY <3>1 DEF BreakSeen, Lowering, SInv, LoopBounds
    <3> QED
      BY <1>1, <2>1, <2>2, <3>1, <3>2 DEF HeapBound, Loops
  <2> QED
    BY <2>3, <2>4
<1>3. Low \in Nat /\ CeilPage(BreakSeen) \in Nat /\ Low <= CeilPage(BreakSeen)
      /\ page < StackPage
  <2>1. CeilPage(break_min) = Low
    BY InvFacts DEF SInv
  <2>2. break_min \in Nat /\ BreakSeen \in Nat /\ break_min <= BreakSeen
    BY SeenFacts, SyscallTypes
  <2> QED
    BY <1>2, <2>1, <2>2, CeilMono, SeenFacts
<1>4. /\ pc' = pc /\ m' = [m EXCEPT ![page - 1] = NoPage]
      /\ UNCHANGED <<break_min, break_current, esi, eax, data>>
  BY <1>1, <1>2, <1>3, ReleaseInv
<1>5. BreakSeen' = BreakSeen /\ AskNow' = AskNow /\ EaxNow' = EaxNow
  BY <1>4 DEF BreakSeen, AskNow, EaxNow, Lowering
<1>6. ASSUME NEW x \in Addrs, InHeap(x) PROVE m'[Pg(x)] = m[Pg(x)]
  <2>1. Pg(x) \in Pages /\ Pg(x) \in Nat /\ (Pg(x) = StackPage \/ Pg(x) < CeilPage(BreakSeen))
    BY <1>6, Where, AddrPage
  <2>2. Pg(x) # page - 1
    BY <1>2, <1>3, <2>1, SyscallTypes
  <2>3. m \in MapSet
    BY MemoryFacts DEF SInv
  <2> QED
    BY <1>4, <2>1, <2>2, <2>3 DEF MapSet
<1> QED
  BY <1>4, <1>5, <1>6, KeptIf, Hidden

LEMMA GrowKeeps ==
    ASSUME SInv, GrowPage
    PROVE  Kept
<1>1. m \in MapSet /\ page \in Nat /\ page < StackPage /\ HeapBound = page
      /\ pc = "grow" /\ BreakSeen = break_current
  BY GrowFacts DEF HeapBound, Loops, BreakSeen, Lowering
<1>2. data \in [Frames -> [Offsets -> Bytes]]
  BY DEF SInv, TypeOK
<1>3. CASE GrowNothing
  <2>1. m' = m
    BY <1>3 DEF GrowNothing, m, Map, get_mapping
  <2>2. \A f \in Frames : bitmap[f] => data'[f] = data[f]
    BY <1>2, <1>3 DEF GrowNothing
  <2> QED
    BY <2>1, <2>2, KeptIf
<1>4. CASE \E f, r : f \in Frames /\ GrowOne(f, r)
  <2>1. PICK f, r : f \in Frames /\ GrowOne(f, r)
    BY <1>4
  <2>2. m' = [m EXCEPT ![page] = f]
    BY <1>1, <2>1, InsertedMap DEF GrowOne
  <2>3. \A g \in Frames : bitmap[g] => data'[g] = data[g]
    BY <1>2, <2>1 DEF GrowOne
  <2>4. ASSUME NEW x \in Addrs, InHeap(x) PROVE m'[Pg(x)] = m[Pg(x)]
    <3>1. Pg(x) \in Pages /\ Pg(x) # page
      BY <1>1, <2>4, Where, AddrPage, SyscallTypes
    <3> QED
      BY <1>1, <2>2, <3>1 DEF MapSet
  <2> QED
    BY <2>3, <2>4, KeptIf
<1> QED
  BY <1>3, <1>4, GrowEffect

LEMMA RefineGrow ==
    ASSUME SInv, GrowPage
    PROVE  UNCHANGED Promise!vars
<1>1. /\ pc = "grow" /\ pc' \in {"grow", "undo"}
      /\ UNCHANGED <<break_min, break_current, eax, esi>>
  <2>1. pc = "grow" /\ UNCHANGED <<break_min, break_current, eax, esi>>
    BY DEF GrowPage
  <2> QED
    BY <2>1, GrowEffect DEF GrowNothing, GrowOne
<1>2. BreakSeen' = BreakSeen /\ AskNow' = AskNow /\ EaxNow' = EaxNow
  BY <1>1 DEF BreakSeen, AskNow, EaxNow, Lowering
<1> QED
  BY <1>1, <1>2, GrowKeeps, Hidden

LEMMA AskedFor ==
    ASSUME SInv, pc \in {"grow", "undo"}
    PROVE  AskNow = esi /\ esi # 0 /\ esi \in Nat /\ break_current < esi /\ esi <= BreakTop
           /\ BreakSeen = break_current
<1>1. /\ esi \in Nat /\ break_current \in Nat /\ break_min \in Nat
      /\ break_min <= esi /\ esi <= BreakTop /\ page \in Nat
  BY DEF SInv, TypeOK, LoopBounds, Legal, Loops
<1>2. break_current < esi
  <2>1. CASE pc = "grow"
    BY <2>1 DEF SInv, LoopBounds
  <2>2. CASE pc = "undo"
    <3>1. CeilPage(break_current) \in Nat /\ CeilPage(esi) \in Nat
      BY <1>1, Ceil
    <3>2. CeilPage(break_current) < CeilPage(esi)
      BY <1>1, <2>2, <3>1 DEF SInv, LoopBounds
    <3> QED
      BY <1>1, <3>1, <3>2, CeilMono
  <2> QED
    BY <2>1, <2>2
<1> QED
  BY <1>1, <1>2 DEF AskNow, BreakSeen, Lowering

LEMMA RefineRefused ==
    ASSUME SInv, BreakRefused
    PROVE  Promise!Refuse
<1>1. /\ pc = "undo" /\ pc' = "user" /\ eax' = 0
      /\ UNCHANGED <<break_min, break_current, memory, data>>
  BY DEF BreakRefused, Return
<1>2. AskNow # 0 /\ BreakSeen = break_current
  BY <1>1, AskedFor
<1>3. AskNow' = 0 /\ EaxNow' = 0 /\ BreakSeen' = BreakSeen
  BY <1>1, <1>2 DEF BreakSeen, AskNow, EaxNow, Lowering
<1>4. CellNow' = CellNow
  <2>1. Kept
    BY <1>1, KeptMemory
  <2>2. \A x \in Addrs : InHeap(x)' <=> InHeap(x)
    BY <1>1, <1>3 DEF InHeap
  <2> QED
    BY <2>1, <2>2 DEF CellNow, InHeap, Kept
<1> QED
  BY <1>1, <1>2, <1>3, <1>4 DEF Promise!Refuse, CellNow, AskNow, EaxNow

\* Where the grow loop ends: the program sees the bytes it had and zeros.
LEMMA RefineRaised ==
    ASSUME SInv, GrownIsZero, BreakDone, pc = "grow"
    PROVE  Promise!Raise
<1>1. /\ pc' = "user" /\ eax' = break_current /\ break_current' = esi
      /\ UNCHANGED <<break_min, memory, data>> /\ page = CeilPage(esi)
  BY DEF BreakDone, Return, AtTarget
<1>2. /\ AskNow = esi /\ esi # 0 /\ esi \in Nat /\ break_current < esi
      /\ BreakSeen = break_current /\ break_current \in Nat /\ break_min \in Nat
  BY AskedFor, SeenFacts
<1>3. AskNow' = 0 /\ EaxNow' = break_current /\ BreakSeen' = esi
  BY <1>1 DEF BreakSeen, AskNow, EaxNow, Lowering
<1>4. ASSUME NEW x \in Addrs
      PROVE  CellNow'[x] = IF Promise!Live(break_min, esi, x) THEN CellNow[x] ELSE 0
  <2>1. InHeap(x)' <=> Promise!Live(break_min, esi, x)
    BY <1>1, <1>3 DEF InHeap, Promise!Live
  <2>2. CellNow[x] = IF InHeap(x) THEN Byte(x) ELSE 0
    BY DEF CellNow, InHeap
  <2>3. CellNow'[x] = IF InHeap(x)' THEN Byte(x)' ELSE 0
    BY DEF CellNow, InHeap
  <2>4. Byte(x)' = Byte(x)
    BY <1>1, ByteIs DEF m, Map, memory, get_mapping
  <2>5. ASSUME InHeap(x)', ~InHeap(x) PROVE Byte(x) = 0
    <3>1. x \in Nat /\ x \in break_min .. esi - 1 /\ ~(x \in break_min .. break_current - 1)
      BY <1>1, <1>2, <1>3, <2>5, AddrPage DEF InHeap
    <3>2. break_current <= x /\ x < esi
      BY <1>2, <3>1
    <3>3. esi <= page * PageSize /\ page * PageSize \in Nat
      BY <1>1, <1>2, Ceil, SyscallTypes
    <3>4. x < page * PageSize
      BY <1>2, <3>1, <3>2, <3>3
    <3> QED
      BY <3>2, <3>4 DEF GrownIsZero
  <2> QED
    BY <2>1, <2>2, <2>3, <2>4, <2>5
<1>5. CellNow' = [x \in Addrs |-> IF Promise!Live(break_min, esi, x) THEN CellNow[x] ELSE 0]
  <2>1. CellNow' = [x \in Addrs |-> CellNow'[x]]
    BY DEF CellNow
  <2> QED
    BY <1>4, <2>1
<1> QED
  BY <1>1, <1>2, <1>3, <1>5
     DEF Promise!Raise, Promise!Move, Promise!Live, CellNow, AskNow, EaxNow

\* Where the shrink loop ends, the lower break is already visible.
LEMMA RefineLowered ==
    ASSUME SInv, BreakDone, pc = "shrink"
    PROVE  UNCHANGED Promise!vars
<1>1. /\ pc' = "user" /\ eax' = break_current /\ break_current' = esi
      /\ UNCHANGED <<break_min, memory, data>>
  BY DEF BreakDone, Return
<1>2. AskNow' = AskNow /\ EaxNow' = EaxNow /\ BreakSeen' = BreakSeen
  BY <1>1 DEF BreakSeen, AskNow, EaxNow, Lowering
<1> QED
  BY <1>1, <1>2, KeptMemory, Hidden

LEMMA GrownAccept ==
    ASSUME SInv, NEW a, BreakAccept(a)
    PROVE  GrownIsZero'
<1>1. page' = CeilPage(break_current) /\ break_current' = break_current
      /\ pc = "user" /\ break_current \in Nat /\ CeilPage(break_current) \in Nat
  BY Ceil, SeenFacts DEF BreakAccept
<1>2. SUFFICES ASSUME NEW x \in Addrs, break_current <= x,
                      x < CeilPage(break_current) * PageSize
               PROVE  Byte(x)' = 0
  BY <1>1 DEF GrownIsZero
<1>3. Pg(x) < CeilPage(break_current) /\ x \in Nat /\ Pg(x) \in Nat
  BY <1>1, <1>2, AddrPage, PgBelow
<1>4. /\ break_current % PageSize # 0 /\ Pg(x) = CeilPage(break_current) - 1
      /\ break_current % PageSize <= Off(x)
  BY <1>1, <1>2, <1>3, CeilPages
<1>5. Frame(CeilPage(break_current) - 1) \in Frames
  BY <1>1, <1>4, TailMapped
<1>6. m[Pg(x)] \in Frames
  BY <1>4, <1>5, AddrPage DEF Frame, m, Map
<1>7. InTail(x)
  <2>1. Off(x) \in Nat /\ break_current % PageSize \in Nat
    BY <1>1, <1>3, PgOff DEF Off
  <2> HIDE DEF Off
  <2> QED
    BY <1>4, <2>1 DEF InTail
<1> QED
  BY <1>6, <1>7, TailEffect

LEMMA GrownGrow ==
    ASSUME SInv, GrownIsZero, GrowPage
    PROVE  GrownIsZero'
<1>1. /\ m \in MapSet /\ Own(bitmap, pdir, m) /\ page \in Nat /\ page \in Pages
      /\ pc = "grow" /\ break_current' = break_current /\ HeapM(m, Low, page)
      /\ data \in [Frames -> [Offsets -> Bytes]] /\ Low \in Nat
  BY GrowFacts DEF GrowPage, SInv, TypeOK
<1>2. CASE GrowNothing
  BY <1>2 DEF GrowNothing, GrownIsZero
<1>3. CASE \E f, r : f \in Frames /\ GrowOne(f, r)
  <2>1. PICK f, r : f \in Frames /\ GrowOne(f, r)
    BY <1>3
  <2>2. m' = [m EXCEPT ![page] = f] /\ page' = page + 1 /\ ~bitmap[f]
        /\ data' = [data EXCEPT ![f] = ZeroPage]
    BY <1>1, <2>1, InsertedMap DEF GrowOne
  <2>3. SUFFICES ASSUME NEW x \in Addrs, break_current <= x, x < (page + 1) * PageSize
                 PROVE  Byte(x)' = 0
    BY <1>1, <2>2 DEF GrownIsZero
  <2>4. /\ x \in Nat /\ Pg(x) \in Nat /\ Pg(x) \in Pages /\ Off(x) \in Offsets
        /\ page + 1 \in Nat
    BY <1>1, AddrPage
  <2>5. Pg(x) < page + 1
    BY <2>3, <2>4, PgBelow
  <2>6. CASE Pg(x) = page
    <3>1. m'[Pg(x)] = f /\ data'[f] = ZeroPage
      BY <1>1, <2>1, <2>2, <2>6 DEF MapSet
    <3> QED
      BY <2>4, <3>1, ByteIs DEF ZeroPage
  <2>7. CASE Pg(x) < page
    <3>1. x < page * PageSize
      BY <1>1, <2>4, <2>7, PgBelow
    <3>2. Byte(x) = 0
      BY <1>1, <2>3, <3>1 DEF GrownIsZero
    <3>3. m'[Pg(x)] = m[Pg(x)]
      BY <1>1, <2>2, <2>4, <2>7 DEF MapSet
    <3>4. ~(x < Low * PageSize)
      <4>1. break_current \in Nat /\ break_min \in Nat /\ break_min <= break_current
            /\ break_min = Low * PageSize
        BY SeenFacts
      <4> QED
        BY <2>3, <2>4, <4>1
    <3>5. Pg(x) \in Low .. page - 1
      BY <1>1, <2>4, <2>7, <3>4, PgBelow
    <3>6. m[Pg(x)] \in Frames /\ bitmap[m[Pg(x)]]
      BY <1>1, <2>4, <3>5 DEF HeapM, Own
    <3>7. data'[m[Pg(x)]] = data[m[Pg(x)]]
      BY <1>1, <2>2, <3>6
    <3> QED
      BY <3>2, <3>3, <3>6, <3>7, ByteIs
  <2> QED
    BY <1>1, <2>4, <2>5, <2>6, <2>7
<1> QED
  BY <1>2, <1>3, GrowEffect

LEMMA GrownStep == SInv /\ GrownIsZero /\ [Next]_vars => GrownIsZero'
<1> SUFFICES ASSUME SInv, GrownIsZero, [Next]_vars PROVE GrownIsZero'
  OBVIOUS
<1>1. CASE \E a \in BreakArgs : BreakAccept(a)
  BY <1>1, GrownAccept
<1>2. CASE GrowPage
  BY <1>2, GrownGrow
<1>3. CASE UNCHANGED vars
  <2>1. UNCHANGED <<pc, break_current, page, memory, data>>
    BY <1>3 DEF vars
  <2>2. \A x \in Addrs : Byte(x)' = Byte(x)
    BY <2>1, ByteIs DEF m, Map, memory, get_mapping
  <2> QED
    BY <2>1, <2>2 DEF GrownIsZero
<1>4. CASE \/ \E a \in WriteAddrs, byte \in Bytes : UserWrite(a, byte)
           \/ \E x, y \in SumArgs : sys_sum(x, y)
           \/ \E a \in WriteAddrs, len \in 1 .. PageSize : sys_print(a, len)
           \/ BreakQuery
           \/ \E a \in BreakArgs : BreakIllegal(a)
  <2>1. pc' # "grow"
    BY <1>4 DEF UserWrite, sys_sum, sys_print, BreakQuery, BreakIllegal
  <2> QED
    BY <2>1 DEF GrownIsZero
<1>5. CASE UndoPage \/ BreakRefused \/ ShrinkPage \/ BreakDone
  <2>1. pc' # "grow"
    BY <1>5 DEF UndoPage, BreakRefused, ShrinkPage, BreakDone, ReleasePage, Return
  <2> QED
    BY <2>1 DEF GrownIsZero
<1> QED
  BY <1>1, <1>2, <1>3, <1>4, <1>5 DEF Next, User, Handler

LEMMA RefineStep == SInv /\ GrownIsZero /\ [Next]_vars => [Promise!Next]_(Promise!vars)
<1> SUFFICES ASSUME SInv, GrownIsZero, [Next]_vars
             PROVE  Promise!Next \/ UNCHANGED Promise!vars
  OBVIOUS
<1>1. CASE \E a \in WriteAddrs, byte \in Bytes : UserWrite(a, byte)
  <2>1. PICK a \in WriteAddrs, byte \in Bytes : UserWrite(a, byte)
    BY <1>1
  <2>2. a \in Addrs
    BY SyscallAssumption DEF Addrs
  <2>3. Promise!Write(a, byte) \/ UNCHANGED Promise!vars
    BY <2>1, RefineWrite
  <2> QED
    BY <2>2, <2>3 DEF Promise!Next
<1>2. CASE \/ \E x, y \in SumArgs : sys_sum(x, y)
           \/ BreakQuery
           \/ \E a \in BreakArgs : BreakIllegal(a)
  BY <1>2, RefineAnswers DEF Promise!Next
<1>3. CASE \E a \in WriteAddrs, len \in 1 .. PageSize : sys_print(a, len)
  BY <1>3, RefinePrint
<1>4. CASE \E a \in BreakArgs : BreakAccept(a)
  <2>1. PICK a \in BreakArgs : BreakAccept(a)
    BY <1>4
  <2>2. a \in break_min .. BreakTop /\ (Promise!Lower(a) \/ Promise!Ask(a))
    BY <2>1, RefineAccept
  <2> QED
    BY <2>2 DEF Promise!Next
<1>5. CASE GrowPage
  BY <1>5, RefineGrow
<1>6. CASE UndoPage \/ ShrinkPage
  BY <1>6, RefineRelease
<1>7. CASE BreakRefused
  BY <1>7, RefineRefused DEF Promise!Next
<1>8. CASE BreakDone
  <2>1. pc \in {"grow", "shrink"}
    BY <1>8 DEF BreakDone
  <2>2. pc = "grow" => Promise!Next
    BY <1>8, RefineRaised DEF Promise!Next
  <2>3. pc = "shrink" => UNCHANGED Promise!vars
    BY <1>8, RefineLowered
  <2> QED
    BY <2>1, <2>2, <2>3
<1>9. CASE UNCHANGED vars
  <2>1. UNCHANGED <<break_min, break_current, memory, data, eax, esi, page, pc>>
    BY <1>9 DEF vars
  <2>2. BreakSeen' = BreakSeen /\ AskNow' = AskNow /\ EaxNow' = EaxNow
    BY <2>1 DEF BreakSeen, AskNow, EaxNow, Lowering
  <2> QED
    BY <2>1, <2>2, KeptMemory, Hidden
<1> QED
  BY <1>1, <1>2, <1>3, <1>4, <1>5, <1>6, <1>7, <1>8, <1>9 DEF Next, User, Handler

\* Through pages, frames and tables the program gets exactly the heap of Break,
\* for every page size, pool and sequence of calls: new bytes are zero, bytes
\* kept and the stack keep their values, a refused call changes nothing.
THEOREM SyscallsImplementBreak == Spec => ImplementsBreak
<1>1. Init => GrownIsZero
  BY DEF Init, GrownIsZero
<1> QED
  BY <1>1, InitSInv, StepSInv, GrownStep, RefineInit, RefineStep, PTL
     DEF Spec, ImplementsBreak, Promise!Spec
=============================================================================
