---------------------------- MODULE LoaderProofs -----------------------------
(***************************************************************************)
(* Proofs about Loader, for every page size, pool, table size and file:    *)
(* every program that is started has its segments in memory as its file    *)
(* has them; it is started exactly when the file is well formed and the    *)
(* pool has the frames it needs; and a file whose segments are in order on *)
(* pages of their own leaves a memory that satisfies what Syscall assumes  *)
(* of its layouts.                                                         *)
(***************************************************************************)
EXTENDS Loader, FiniteSetTheorems, WellFoundedInduction, TLAPS

-----------------------------------------------------------------------------
(* Page tables: what alloc_page returns, and that insert_mapping changes   *)
(* the mapping of one page and no other.                                   *)

LEMMA PageTableTypes ==
    /\ NumBits \in Nat \ {0} /\ PtSize \in Nat \ {0} /\ NumSlots \in Nat \ {0}
    /\ NoPage \notin Frames /\ Image \notin Frames /\ Image # NoPage
  BY BitmapAssumption, PageTableAssumption DEF Frames, Bits

LEMMA NatMin ==
    ASSUME NEW A \in SUBSET Nat, A # {}
    PROVE  \E x \in A : \A y \in A : x <= y
<1>1. PICK x \in A : \A y \in A : ~ (<<y, x>> \in OpToRel(<, Nat))
  BY NatLessThanWellFounded, WFMin
<1>2. \A y \in A : ~ (y < x)
  BY <1>1 DEF OpToRel
<1> QED
  BY <1>2

\* alloc_page(1) returns a free frame, or NoPage when every frame is taken.
LEMMA AllocPage ==
    ASSUME NEW bm \in Bitmaps
    PROVE  \/ alloc_page(bm) = NoPage /\ \A f \in Frames : bm[f]
           \/ alloc_page(bm) \in Frames /\ ~bm[alloc_page(bm)]
<1> USE PageTableTypes DEF Frames, Bits
<1> DEFINE F == Fits(bm, NumBits, 1)
<1>1. \A f \in Frames : f \in F <=> ~bm[f]
  <2>1. \A f \in Frames : Run(f, 1) = {f} /\ f + 1 <= NumBits
    BY DEF Run
  <2> QED
    BY <2>1 DEF Fits, FreeRun, is_page_allocated
<1>2. F \in SUBSET Nat /\ F \subseteq Frames
  BY DEF Fits
<1>3. CASE F = {}
  BY <1>1, <1>3 DEF alloc_page, FirstFit
<1>4. CASE F # {}
  <2>1. \E p \in F : \A q \in F : p <= q
    BY <1>2, <1>4, NatMin
  <2>2. alloc_page(bm) = CHOOSE p \in F : \A q \in F : p <= q
    BY <1>4 DEF alloc_page, FirstFit
  <2>3. alloc_page(bm) \in F
    BY <2>1, <2>2
  <2> QED
    BY <1>1, <1>2, <2>3
<1> QED
  BY <1>3, <1>4

LEMMA DivMod ==
    ASSUME NEW w \in Nat, w # 0, NEW x \in Nat
    PROVE  /\ x = w * (x \div w) + (x % w)
           /\ x \div w \in Nat
           /\ x % w \in 0 .. w - 1
  BY SMT

\* A page number is given by its slot and its index.
LEMMA SlotIndex ==
    /\ \A p \in Nat : Slot(p) \in Nat /\ Index(p) \in Indices
    /\ \A p, q \in Nat : Slot(p) = Slot(q) /\ Index(p) = Index(q) => p = q
<1> USE PageTableTypes DEF Slot, Index, Indices
<1>1. ASSUME NEW p \in Nat
      PROVE  /\ p \div PtSize \in Nat /\ p % PtSize \in 0 .. PtSize - 1
             /\ p = PtSize * (p \div PtSize) + (p % PtSize)
  BY DivMod
<1>2. ASSUME NEW p \in Nat, NEW q \in Nat,
             p \div PtSize = q \div PtSize, p % PtSize = q % PtSize
      PROVE  p = q
  BY <1>1, <1>2
<1> QED
  BY <1>1, <1>2

Directory == [Slots -> Frames \cup {NoPage}]
Tables    == [Frames -> [Indices -> Entries]]

LEMMA MappingType ==
    ASSUME NEW pd \in Directory, NEW pt \in Tables,
           NEW p \in Nat, Slot(p) \in Slots
    PROVE  get_mapping(pd, pt, p) \in Entries
  BY SlotIndex, PageTableTypes DEF get_mapping, Directory, Tables, Entries

\* insert_mapping sets one entry and leaves tables of the kind T it was given;
\* the table it takes when there is none was a free frame; it fails only when
\* there is no table and no free frame.
NotInserted(bm, pd, pt, page, r) ==
    /\ ~r.ok
    /\ r.bitmap = bm /\ r.pdir = pd /\ r.ptab = pt
    /\ pd[Slot(page)] = NoPage
    /\ \A f \in Frames : bm[f]

InsertedIn(T, bm, pd, pt, page, entry, r) ==
    /\ r.ok
    /\ r.ptab \in T
    /\ \E t \in Frames :
          /\ r.pdir = [pd EXCEPT ![Slot(page)] = t]
          /\ r.bitmap = [bm EXCEPT ![t] = TRUE]
          /\ \/ pd[Slot(page)] = t
             \/ pd[Slot(page)] = NoPage /\ ~bm[t]
    /\ \A p \in Nat : Slot(p) \in Slots =>
          get_mapping(r.pdir, r.ptab, p) =
              IF p = page THEN entry ELSE get_mapping(pd, pt, p)

LEMMA InsertMappingIn ==
    ASSUME NEW E, NoPage \in E, NEW T, T = [Frames -> [Indices -> E]],
           NEW bm \in Bitmaps, NEW pd \in Directory, NEW pt \in T,
           \A s, t \in Slots : pd[s] = pd[t] /\ pd[s] # NoPage => s = t,
           \A s \in Slots : pd[s] # NoPage => bm[pd[s]],
           NEW page \in Nat, Slot(page) \in Slots, NEW entry \in E,
           NEW r, r = insert_mapping(bm, pd, pt, page, entry)
    PROVE  \/ NotInserted(bm, pd, pt, page, r)
           \/ InsertedIn(T, bm, pd, pt, page, entry, r)
<1> USE PageTableTypes
<1> DEFINE missing == pd[Slot(page)] = NoPage
           table == IF missing THEN alloc_page(bm) ELSE pd[Slot(page)]
           old == IF missing THEN EmptyTable ELSE pt[table]
           new == [old EXCEPT ![Index(page)] = entry]
<1>1. CASE table = NoPage
  <2>1. missing
    BY <1>1
  <2>2. r = [ok |-> FALSE, bitmap |-> bm, pdir |-> pd, ptab |-> pt]
    BY <1>1 DEF insert_mapping
  <2> QED
    BY <1>1, <2>1, <2>2, AllocPage DEF NotInserted
<1>2. CASE table # NoPage
  <2>1. r = [ok |-> TRUE,
             bitmap |-> [bm EXCEPT ![table] = TRUE],
             pdir   |-> [pd EXCEPT ![Slot(page)] = table],
             ptab   |-> [pt EXCEPT ![table] = new]]
    BY <1>2 DEF insert_mapping, mark_page_allocated
  <2>2. /\ table \in Frames
        /\ \/ pd[Slot(page)] = table
           \/ pd[Slot(page)] = NoPage /\ ~bm[table]
    BY <1>2, AllocPage DEF Directory
  <2>3. old \in [Indices -> E]
    BY <2>2 DEF EmptyTable
  <2>4. Index(page) \in Indices /\ new \in [Indices -> E]
    BY <2>3, SlotIndex
  <2> HIDE DEF new
  <2>5. r.ptab \in T
    BY <2>1, <2>2, <2>4
  <2>6. ASSUME NEW p \in Nat, Slot(p) \in Slots
        PROVE  get_mapping(r.pdir, r.ptab, p) =
                   IF p = page THEN entry ELSE get_mapping(pd, pt, p)
    <3>1. Index(p) \in Indices
      BY SlotIndex
    <3>2. CASE Slot(p) = Slot(page)
      <4>1. get_mapping(r.pdir, r.ptab, p) = new[Index(p)]
        <5>1. r.pdir[Slot(p)] = table
          BY <2>1, <3>2 DEF Directory
        <5>2. r.ptab[table] = new
          BY <2>1, <2>2
        <5> QED
          BY <1>2, <5>1, <5>2 DEF get_mapping
      <4>2. CASE p = page
        BY <2>3, <2>4, <4>1, <4>2 DEF new
      <4>3. CASE p # page
        <5>1. Index(p) # Index(page)
          BY <3>2, <4>3, SlotIndex
        <5>2. new[Index(p)] = old[Index(p)]
          BY <2>3, <2>4, <3>1, <5>1 DEF new
        <5>3. old[Index(p)] = get_mapping(pd, pt, p)
          BY <3>1, <3>2 DEF get_mapping, EmptyTable
        <5> QED
          BY <4>1, <4>3, <5>2, <5>3
      <4> QED
        BY <4>2, <4>3
    <3>3. CASE Slot(p) # Slot(page)
      <4>1. r.pdir[Slot(p)] = pd[Slot(p)] /\ p # page
        BY <2>1, <3>3 DEF Directory
      <4>2. CASE pd[Slot(p)] = NoPage
        BY <4>1, <4>2 DEF get_mapping
      <4>3. CASE pd[Slot(p)] # NoPage
        <5>1. pd[Slot(p)] # table /\ pd[Slot(p)] \in Frames
          <6>1. pd[Slot(p)] \in Frames /\ bm[pd[Slot(p)]]
            <7>1. pd[Slot(p)] \in Frames
              BY <2>6, <4>3 DEF Directory
            <7> QED
              BY <2>6, <4>3, <7>1
          <6>2. CASE pd[Slot(page)] = table
            <7> HIDE DEF table
            <7> QED
              BY <1>2, <2>6, <3>3, <4>3, <6>1, <6>2
          <6>3. CASE ~bm[table]
            BY <6>1, <6>3
          <6> QED
            BY <2>2, <6>1, <6>2, <6>3
        <5>2. r.ptab[pd[Slot(p)]] = pt[pd[Slot(p)]]
          BY <2>1, <5>1
        <5> QED
          BY <4>1, <4>3, <5>2 DEF get_mapping
      <4> QED
        BY <4>2, <4>3
    <3> QED
      BY <3>2, <3>3
  <2> HIDE DEF table, missing, old
  <2> QED
    <3>1. /\ r.ok
          /\ r.pdir = [pd EXCEPT ![Slot(page)] = table]
          /\ r.bitmap = [bm EXCEPT ![table] = TRUE]
      BY <2>1
    <3> QED
      BY <2>2, <2>5, <2>6, <3>1 DEF InsertedIn
<1> QED
  BY <1>1, <1>2

Inserted(bm, pd, pt, page, entry, r) == InsertedIn(Tables, bm, pd, pt, page, entry, r)

LEMMA InsertMapping ==
    ASSUME NEW bm \in Bitmaps, NEW pd \in Directory, NEW pt \in Tables,
           \A s, t \in Slots : pd[s] = pd[t] /\ pd[s] # NoPage => s = t,
           \A s \in Slots : pd[s] # NoPage => bm[pd[s]],
           NEW page \in Nat, Slot(page) \in Slots, NEW entry \in Entries,
           NEW r, r = insert_mapping(bm, pd, pt, page, entry)
    PROVE  \/ NotInserted(bm, pd, pt, page, r)
           \/ Inserted(bm, pd, pt, page, entry, r)
<1>1. NoPage \in Entries /\ Tables = [Frames -> [Indices -> Entries]]
  BY DEF Entries, Tables
<1> QED
  BY <1>1, InsertMappingIn DEF Inserted
-----------------------------------------------------------------------------
(* Pages and addresses *)

Pages == 0 .. StackPage

LEMMA LoaderTypes ==
    /\ PageSize \in Nat \ {0} /\ StackPage \in Nat \ {0} /\ ModPages \in Nat
    /\ NumSlots = StackPage \div PtSize + 1
    /\ ModBase \in Nat
    /\ KernelFrames \subseteq Frames
    /\ NoPage \notin [frame : Nat, writable : BOOLEAN]
    /\ \A im \in Images : ImageOK(im)
  BY LoaderAssumption, PageTableTypes DEF ModBase

LEMMA MulLess ==
    ASSUME NEW w \in Nat \ {0}, NEW n \in Nat, NEW k \in Nat, n * w < k * w + w
    PROVE  n <= k
<1>1. SUFFICES ASSUME n >= k + 1 PROVE FALSE
  OBVIOUS
<1>2. n * w >= (k + 1) * w
  BY <1>1, SMT
<1>3. (k + 1) * w = k * w + w
  BY SMT
<1> QED
  BY <1>2, <1>3

\* A number is below k + 1 multiples of w exactly when its quotient is at most
\* k, and not below k multiples when its quotient is at least k.
LEMMA DivIs ==
    ASSUME NEW w \in Nat \ {0}, NEW a \in Nat, NEW k \in Nat,
           k * w <= a, a < k * w + w
    PROVE  a \div w = k
<1> DEFINE q == a \div w
           r == a % w
<1>1. a = w * q + r /\ q \in Nat /\ r \in 0 .. w - 1
  BY DivMod
<1> HIDE DEF q, r
<1>2. w * q = q * w /\ q * w \in Nat /\ k * w \in Nat
  BY <1>1
<1>3. q <= k
  <2>1. q * w < k * w + w
    BY <1>1, <1>2
  <2> QED
    BY <1>1, <2>1, MulLess
<1>4. k <= q
  <2>1. k * w < q * w + w
    BY <1>1, <1>2
  <2> QED
    BY <1>1, <2>1, MulLess
<1> QED
  BY <1>1, <1>3, <1>4 DEF q

\* align_dn and align_up of an address that is b bytes into page k.
LEMMA FloorCeil ==
    ASSUME NEW k \in Nat, NEW b \in Nat
    PROVE  /\ b < PageSize => Floor(k * PageSize + b) = k
           /\ Ceil(k * PageSize + b) = k + Ceil(b)
           /\ Ceil(b) \in Nat
<1> USE LoaderTypes
<1> DEFINE c == Ceil(b)
           x == b + PageSize - 1
           w == k * PageSize
<1>1. x \in Nat /\ w \in Nat
  OBVIOUS
<1>2. c \in Nat /\ x = PageSize * c + (x % PageSize) /\ x % PageSize \in 0 .. PageSize - 1
  <2> HIDE DEF x
  <2>1. /\ x = PageSize * (x \div PageSize) + (x % PageSize)
        /\ x \div PageSize \in Nat /\ x % PageSize \in 0 .. PageSize - 1
    BY <1>1, DivMod
  <2>2. c = x \div PageSize
    BY DEF Ceil, x
  <2> QED
    BY <2>1, <2>2
<1>3. ASSUME b < PageSize PROVE Floor(w + b) = k
  <2>1. w <= w + b /\ w + b < w + PageSize /\ w + b \in Nat
    BY <1>1, <1>3
  <2> QED
    BY <2>1, DivIs DEF Floor
<1>4. Ceil(w + b) = k + c
  <2> HIDE DEF c
  <2>1. (k + c) * PageSize = w + c * PageSize /\ PageSize * c = c * PageSize
        /\ c * PageSize \in Nat
    BY <1>2
  <2>2. (k + c) * PageSize <= w + x /\ w + x < (k + c) * PageSize + PageSize
    <3> HIDE DEF x, w
    <3> QED
      BY <1>1, <1>2, <2>1
  <2>3. (w + x) \div PageSize = k + c
    <3>1. k + c \in Nat /\ w + x \in Nat
      BY <1>1, <1>2
    <3> HIDE DEF x, w
    <3> QED
      BY <2>2, <3>1, DivIs
  <2>4. w + b + PageSize - 1 = w + x
    BY <1>1
  <2> QED
    BY <2>3, <2>4 DEF Ceil
<1> QED
  BY <1>2, <1>3, <1>4 DEF c, w

LEMMA CeilMono ==
    ASSUME NEW a \in Nat, NEW b \in Nat, a <= b
    PROVE  Ceil(a) <= Ceil(b)
<1> USE LoaderTypes
<1> DEFINE x == a + PageSize - 1
           y == b + PageSize - 1
           c == Ceil(a)
           d == Ceil(b)
<1>1. x \in Nat /\ y \in Nat /\ x <= y
  OBVIOUS
<1>2. c = x \div PageSize /\ d = y \div PageSize
  BY DEF Ceil
<1> HIDE DEF x, y, c, d
<1>3. /\ c \in Nat /\ x = PageSize * c + (x % PageSize) /\ x % PageSize \in 0 .. PageSize - 1
      /\ d \in Nat /\ y = PageSize * d + (y % PageSize) /\ y % PageSize \in 0 .. PageSize - 1
  BY <1>1, <1>2, DivMod
<1>4. PageSize * c = c * PageSize /\ PageSize * d = d * PageSize
      /\ c * PageSize \in Nat /\ d * PageSize \in Nat
  BY <1>3
<1>5. c * PageSize < d * PageSize + PageSize
  BY <1>1, <1>3, <1>4
<1> QED
  BY <1>3, <1>5, MulLess DEF c, d

LEMMA PageSlot ==
    /\ \A p \in Pages : p \in Nat /\ Slot(p) \in Slots
    /\ StackPage \in Pages
<1> USE LoaderTypes, PageTableTypes
<1>1. SUFFICES ASSUME NEW p \in Pages PROVE p \div PtSize <= StackPage \div PtSize
  BY SlotIndex DEF Pages, Slots, Slot
<1> DEFINE q == p \div PtSize
           k == StackPage \div PtSize
<1>2. q \in Nat /\ p = PtSize * q + (p % PtSize) /\ p % PtSize \in 0 .. PtSize - 1
  <2>1. p \in Nat /\ PtSize \in Nat /\ PtSize # 0
    BY DEF Pages
  <2> QED
    BY <2>1, DivMod
<1>3. k \in Nat /\ StackPage = PtSize * k + (StackPage % PtSize)
      /\ StackPage % PtSize \in 0 .. PtSize - 1
  BY DivMod
<1> HIDE DEF q, k
<1>4. PtSize * q = q * PtSize /\ PtSize * k = k * PtSize
      /\ PtSize * q \in Nat /\ PtSize * k \in Nat
  BY <1>2, <1>3
<1>5. q * PtSize < k * PtSize + PtSize
  BY <1>2, <1>3, <1>4 DEF Pages
<1> QED
  BY <1>2, <1>3, <1>5, MulLess DEF q, k

\* A segment's pages: from the page of its first byte, as many as the offset
\* in that page and its size need.
LEMMA SegmentPages ==
    ASSUME NEW a \in Nat, NEW size \in Nat
    PROVE  /\ Floor(a) \in Nat /\ a % PageSize \in Offsets
           /\ Ceil((a % PageSize) + size) \in Nat
           /\ Floor(a) + Ceil((a % PageSize) + size) = Ceil(a + size)
           /\ a >= PageSize => Floor(a) >= 1
<1> USE LoaderTypes
<1> DEFINE q == a \div PageSize
           r == a % PageSize
<1>1. a = PageSize * q + r /\ q \in Nat /\ r \in 0 .. PageSize - 1
  BY DivMod
<1> HIDE DEF q, r
<1>2. PageSize * q = q * PageSize /\ q * PageSize \in Nat
  BY <1>1
<1>3. r + size \in Nat /\ q * PageSize + (r + size) = a + size
  BY <1>1, <1>2
<1>4. Ceil(a + size) = q + Ceil(r + size) /\ Ceil(r + size) \in Nat
  <2>1. /\ Ceil(q * PageSize + (r + size)) = q + Ceil(r + size)
        /\ Ceil(r + size) \in Nat
    BY <1>1, <1>3, FloorCeil
  <2> QED
    BY <1>3, <2>1
<1>5. a >= PageSize => q # 0
  BY <1>1
<1> QED
  BY <1>1, <1>4, <1>5 DEF q, r, Floor, Offsets
-----------------------------------------------------------------------------
(* Tables without the write bits.  What insert_mapping does to a table, it  *)
(* does to what Forget leaves of it.                                        *)

RawEntries == [frame : Nat, writable : BOOLEAN]
RawTables  == [Frames -> [Indices -> RawEntries \cup {NoPage}]]

View(pt) == [f \in Frames |-> [x \in Indices |-> Forget(pt[f][x])]]

LEMMA ForgetType ==
    /\ Forget(NoPage) = NoPage
    /\ \A e \in RawEntries :
          /\ e # NoPage /\ Forget(e) \in Entries /\ Forget(e) # NoPage
          /\ Forget(e) = IF e.frame \in Frames THEN e.frame ELSE Image
  BY LoaderTypes, PageTableTypes DEF Forget, RawEntries, Entries

LEMMA ViewType ==
    ASSUME NEW pt \in RawTables
    PROVE  View(pt) \in Tables
<1>1. ASSUME NEW f \in Frames, NEW x \in Indices
      PROVE  Forget(pt[f][x]) \in Entries
  <2>1. pt[f][x] \in RawEntries \cup {NoPage}
    BY DEF RawTables
  <2> QED
    BY <2>1, ForgetType DEF Entries
<1> QED
  BY <1>1 DEF View, Tables

Views(r, v) ==
    /\ v.ok = r.ok /\ v.bitmap = r.bitmap /\ v.pdir = r.pdir
    /\ r.ptab \in RawTables /\ v.ptab = View(r.ptab)

LEMMA ViewInsert ==
    ASSUME NEW bm \in Bitmaps, NEW pd \in Directory, NEW pt \in RawTables,
           NEW page \in Nat, Slot(page) \in Slots, NEW e \in RawEntries
    PROVE  Views(insert_mapping(bm, pd, pt, page, e),
                 insert_mapping(bm, pd, View(pt), page, Forget(e)))
<1> PICK r : r = insert_mapping(bm, pd, pt, page, e)
  OBVIOUS
<1> PICK v : v = insert_mapping(bm, pd, View(pt), page, Forget(e))
  OBVIOUS
<1> SUFFICES Views(r, v)
  OBVIOUS
<1> USE PageTableTypes DEF Views
<1> DEFINE missing == pd[Slot(page)] = NoPage
           table == IF missing THEN alloc_page(bm) ELSE pd[Slot(page)]
           old == IF missing THEN EmptyTable ELSE pt[table]
           seen == IF missing THEN EmptyTable ELSE View(pt)[table]
           new == [old EXCEPT ![Index(page)] = e]
           now == [seen EXCEPT ![Index(page)] = Forget(e)]
<1>1. CASE table = NoPage
  <2>1. /\ r = [ok |-> FALSE, bitmap |-> bm, pdir |-> pd, ptab |-> pt]
        /\ v = [ok |-> FALSE, bitmap |-> bm, pdir |-> pd, ptab |-> View(pt)]
    BY <1>1 DEF insert_mapping
  <2> QED
    BY <2>1
<1>2. CASE table # NoPage
  <2>1. r = [ok |-> TRUE,
             bitmap |-> mark_page_allocated(bm, table, TRUE),
             pdir   |-> [pd EXCEPT ![Slot(page)] = table],
             ptab   |-> [pt EXCEPT ![table] = new]]
    BY <1>2 DEF insert_mapping
  <2>2. v = [ok |-> TRUE,
             bitmap |-> mark_page_allocated(bm, table, TRUE),
             pdir   |-> [pd EXCEPT ![Slot(page)] = table],
             ptab   |-> [View(pt) EXCEPT ![table] = now]]
    BY <1>2 DEF insert_mapping
  <2>3. table \in Frames
    BY <1>2, AllocPage DEF Directory
  <2> HIDE DEF table
  <2>4. old \in [Indices -> RawEntries \cup {NoPage}]
    BY <2>3 DEF EmptyTable, RawTables
  <2>5. seen = [x \in Indices |-> Forget(old[x])]
    <3>1. CASE missing
      <4>1. \A x \in Indices : EmptyTable[x] = NoPage
        BY DEF EmptyTable
      <4>2. EmptyTable = [x \in Indices |-> Forget(EmptyTable[x])]
        BY <4>1, ForgetType DEF EmptyTable
      <4> QED
        BY <3>1, <4>2
    <3>2. CASE ~missing
      BY <2>3, <3>2 DEF View
    <3> QED
      BY <3>1, <3>2
  <2> HIDE DEF old, seen
  <2>6. Index(page) \in Indices
    BY SlotIndex
  <2>7. new \in [Indices -> RawEntries \cup {NoPage}]
    BY <2>4
  <2>8. now = [x \in Indices |-> Forget(new[x])]
    BY <2>4, <2>5, <2>6
  <2> HIDE DEF new, now
  <2>9. [pt EXCEPT ![table] = new] \in RawTables
    BY <2>3, <2>7 DEF RawTables
  <2>10. [View(pt) EXCEPT ![table] = now] = View([pt EXCEPT ![table] = new])
    BY <2>3, <2>8 DEF View, RawTables
  <2> QED
    BY <2>1, <2>2, <2>9, <2>10
<1> QED
  BY <1>1, <1>2
-----------------------------------------------------------------------------
(* Ownership: as in SyscallProofs, over the function m from pages to what   *)
(* they are mapped to; here the entry mapped may be a page of the file.     *)

Map(pd, pt) == [p \in Pages |-> get_mapping(pd, pt, p)]

MapSet == [Pages -> Entries]

LEMMA MapType ==
    ASSUME NEW pd \in Directory, NEW pt \in Tables
    PROVE  Map(pd, pt) \in MapSet
  BY MappingType, PageSlot DEF Map, MapSet

Own(bm, pd, m) ==
    /\ \A s, t \in Slots : pd[s] = pd[t] /\ pd[s] # NoPage => s = t
    /\ \A p, q \in Pages : m[p] \in Frames /\ m[p] = m[q] => p = q
    /\ \A s \in Slots, p \in Pages : pd[s] \in Frames => pd[s] # m[p]
    /\ \A s \in Slots : pd[s] \notin KernelFrames
    /\ \A p \in Pages : m[p] \notin KernelFrames
    /\ \A f \in Frames : bm[f] <=> \/ f \in KernelFrames
                                   \/ \E s \in Slots : pd[s] = f
                                   \/ \E p \in Pages : m[p] = f

\* Page p gets entry e, which is a page of the file or a frame f that is taken
\* from the pool for it; bm is the bitmap before, taken the one with f.
Took(bm, taken, e) ==
    \/ e = Image /\ taken = bm
    \/ e \in Frames /\ ~bm[e] /\ taken = [bm EXCEPT ![e] = TRUE]

LEMMA OwnMap ==
    ASSUME NEW bm \in Bitmaps, NEW pd \in Directory, NEW m \in MapSet,
           Own(bm, pd, m),
           NEW e, NEW taken, Took(bm, taken, e),
           NEW p \in Pages, m[p] = NoPage,
           NEW t \in Frames,
           NEW u \in Slots, pd[u] = t \/ (pd[u] = NoPage /\ ~taken[t])
    PROVE  Own([taken EXCEPT ![t] = TRUE],
               [pd EXCEPT ![u] = t], [m EXCEPT ![p] = e])
<1> DEFINE b == [taken EXCEPT ![t] = TRUE]
           d == [pd EXCEPT ![u] = t]
           n == [m EXCEPT ![p] = e]
<1>1. /\ taken \in Bitmaps /\ e \in Entries
      /\ \A g \in Frames : taken[g] <=> bm[g] \/ g = e
      /\ e \in Frames => ~bm[e]
  <2>1. CASE e = Image /\ taken = bm
    BY <2>1, PageTableTypes DEF Entries
  <2>2. CASE e \in Frames /\ ~bm[e] /\ taken = [bm EXCEPT ![e] = TRUE]
    <3>1. taken \in Bitmaps
      BY <2>2, Zenon DEF Bitmaps, Frames
    <3>2. \A g \in Frames : taken[g] <=> bm[g] \/ g = e
      BY <2>2, Zenon DEF Bitmaps, Frames
    <3> QED
      BY <2>2, <3>1, <3>2 DEF Entries
  <2> QED
    BY <2>1, <2>2 DEF Took
<1>2. d \in Directory /\ \A s \in Slots : d[s] = IF s = u THEN t ELSE pd[s]
  BY DEF Directory
<1>3. n \in MapSet /\ \A q \in Pages : n[q] = IF q = p THEN e ELSE m[q]
  BY <1>1 DEF MapSet
<1>4. \A g \in Frames : b[g] <=> taken[g] \/ g = t
  BY <1>1, Zenon DEF Bitmaps, Frames
<1> HIDE DEF b, d, n
<1>5. KernelFrames \subseteq Frames /\ NoPage \notin Frames
  BY LoaderTypes, PageTableTypes
\* A free frame is nobody's, and neither is the table if it is new.
<1>6. ASSUME NEW g \in Frames, ~bm[g]
      PROVE  /\ g \notin KernelFrames
             /\ \A s \in Slots : pd[s] # g
             /\ \A q \in Pages : m[q] # g
  BY <1>6 DEF Own
<1>7. t # e /\ (pd[u] = t \/ (pd[u] = NoPage /\ ~bm[t]))
  <2>1. CASE pd[u] = t
    BY <1>1, <1>6, <2>1
  <2>2. CASE pd[u] = NoPage /\ ~taken[t]
    BY <1>1, <2>2
  <2> QED
    BY <2>1, <2>2
<1>8. \A s, v \in Slots : d[s] = d[v] /\ d[s] # NoPage => s = v
  BY <1>2, <1>5, <1>6, <1>7 DEF Own
<1>9. \A q, r \in Pages : n[q] \in Frames /\ n[q] = n[r] => q = r
  BY <1>1, <1>3, <1>6 DEF Own
<1>10. \A s \in Slots, q \in Pages : d[s] \in Frames => d[s] # n[q]
  <2>1. SUFFICES ASSUME NEW s \in Slots, NEW q \in Pages, d[s] \in Frames
                 PROVE  d[s] # n[q]
    OBVIOUS
  <2>2. d[s] # e
    <3>1. e \in Frames => pd[s] # e
      BY <1>1, <1>6
    <3> QED
      BY <1>2, <1>7, <2>1, <3>1
  <2>3. q # p => d[s] # m[q]
    BY <1>2, <1>6, <1>7, <2>1 DEF Own
  <2> QED
    BY <1>3, <2>2, <2>3
<1>11. \A s \in Slots : d[s] \notin KernelFrames
  BY <1>2, <1>6, <1>7 DEF Own
<1>12. \A q \in Pages : n[q] \notin KernelFrames
  BY <1>1, <1>3, <1>5, <1>6 DEF Own
<1>13. ASSUME NEW g \in Frames
       PROVE  b[g] <=> \/ g \in KernelFrames
                       \/ \E s \in Slots : d[s] = g
                       \/ \E q \in Pages : n[q] = g
  <2>1. (\E s \in Slots : d[s] = g) <=> g = t \/ \E s \in Slots : pd[s] = g
    BY <1>2, <1>5, <1>7
  <2>2. (\E q \in Pages : n[q] = g) <=> g = e \/ \E q \in Pages : m[q] = g
    BY <1>3, <1>5
  <2> QED
    BY <1>1, <1>4, <2>1, <2>2 DEF Own
<1> QED
  BY <1>8, <1>9, <1>10, <1>11, <1>12, <1>13 DEF Own, b, d, n

\* What mapping an unmapped page does, when there is memory for it.
LEMMA MapsPage ==
    ASSUME NEW bm \in Bitmaps, NEW pd \in Directory, NEW pt \in RawTables,
           NEW n, n = Map(pd, View(pt)), Own(bm, pd, n),
           NEW p \in Pages, n[p] = NoPage,
           NEW e \in RawEntries, NEW taken, Took(bm, taken, Forget(e)),
           NEW r, r = insert_mapping(taken, pd, pt, p, e), r.ok
    PROVE  /\ r.bitmap \in Bitmaps /\ r.pdir \in Directory /\ r.ptab \in RawTables
           /\ Map(r.pdir, View(r.ptab)) = [n EXCEPT ![p] = Forget(e)]
           /\ Own(r.bitmap, r.pdir, [n EXCEPT ![p] = Forget(e)])
<1> USE PageTableTypes
<1>1. p \in Nat /\ Slot(p) \in Slots
  BY PageSlot
<1>2. View(pt) \in Tables
  BY ViewType
<1>3. n \in MapSet /\ Forget(e) \in Entries
  BY <1>2, MapType, ForgetType
<1>4. taken \in Bitmaps /\ \A g \in Frames : bm[g] => taken[g]
  <2>1. CASE taken = bm
    BY <2>1
  <2>2. CASE Forget(e) \in Frames /\ taken = [bm EXCEPT ![Forget(e)] = TRUE]
    <3>1. taken \in Bitmaps
      BY <2>2, Zenon DEF Bitmaps, Frames
    <3>2. \A g \in Frames : bm[g] => taken[g]
      BY <2>2, Zenon DEF Bitmaps, Frames
    <3> QED
      BY <3>1, <3>2
  <2> QED
    BY <2>1, <2>2 DEF Took
<1>5. /\ \A s, t \in Slots : pd[s] = pd[t] /\ pd[s] # NoPage => s = t
      /\ \A s \in Slots : pd[s] # NoPage => taken[pd[s]]
  <2>1. \A s \in Slots : pd[s] # NoPage => pd[s] \in Frames
    BY DEF Directory
  <2> QED
    BY <1>4, <2>1 DEF Own
<1>6. PICK v : v = insert_mapping(taken, pd, View(pt), p, Forget(e))
  OBVIOUS
<1>7. /\ v.ok = r.ok /\ v.bitmap = r.bitmap /\ v.pdir = r.pdir
      /\ r.ptab \in RawTables /\ v.ptab = View(r.ptab)
  <2>1. Views(insert_mapping(taken, pd, pt, p, e),
              insert_mapping(taken, pd, View(pt), p, Forget(e)))
    BY <1>1, <1>4, ViewInsert
  <2> QED
    BY <1>6, <2>1 DEF Views
<1>8. Inserted(taken, pd, View(pt), p, Forget(e), v)
  <2>1. \/ NotInserted(taken, pd, View(pt), p, v)
        \/ Inserted(taken, pd, View(pt), p, Forget(e), v)
    BY <1>1, <1>2, <1>3, <1>4, <1>5, <1>6, InsertMapping
  <2> QED
    BY <1>7, <2>1 DEF NotInserted
<1>9. PICK t \in Frames :
         /\ r.pdir = [pd EXCEPT ![Slot(p)] = t]
         /\ r.bitmap = [taken EXCEPT ![t] = TRUE]
         /\ pd[Slot(p)] = t \/ (pd[Slot(p)] = NoPage /\ ~taken[t])
  BY <1>7, <1>8 DEF Inserted, InsertedIn
<1>10. r.pdir \in Directory
  BY <1>9 DEF Directory
<1>11. r.bitmap \in Bitmaps
  BY <1>4, <1>9, Zenon DEF Bitmaps, Frames
<1>12. Map(r.pdir, View(r.ptab)) = [n EXCEPT ![p] = Forget(e)]
  <2>1. \A q \in Pages : get_mapping(v.pdir, v.ptab, q) = IF q = p THEN Forget(e) ELSE n[q]
    BY <1>8, PageSlot DEF Inserted, InsertedIn, Map
  <2>2. Map(v.pdir, v.ptab) = [n EXCEPT ![p] = Forget(e)]
    BY <1>3, <2>1 DEF MapSet, Map
  <2> QED
    BY <1>7, <2>2
<1>13. Own([taken EXCEPT ![t] = TRUE], [pd EXCEPT ![Slot(p)] = t],
           [n EXCEPT ![p] = Forget(e)])
  BY <1>1, <1>3, <1>9, OwnMap
<1> QED
  BY <1>7, <1>9, <1>10, <1>11, <1>12, <1>13
-----------------------------------------------------------------------------
(* The inductive invariant, for files that are placed as LeavesLayout asks. *)

Placed == Ordered /\ RoomBelowStack

m == Map(pdir, FrameTables)

End(k) == Ceil(H(k).addr + H(k).msize)

Shapes ==
    /\ pc \in {"multiboot", "elf", "headers", "pages", "user"}
    /\ i \in 1 .. Len(image.headers) + 1
    /\ virt \in Nat /\ phys \in Nat /\ fsize \in Nat /\ msize \in Nat
    /\ break_min \in Nat
    /\ bitmap \in Bitmaps /\ pdir \in Directory /\ ptab \in RawTables

\* Nothing is mapped from the page the loader has come to, until the stack is.
Bound == IF pc = "pages" THEN virt ELSE break_min

Unmapped ==
    /\ \A p \in Pages : p >= Bound /\ (p # StackPage \/ pc # "user") => m[p] = NoPage
    /\ pc = "user" => m[StackPage] \in Frames

\* In the page loop: how far it is from the end of its segment, and that the
\* file's pages are none of the pool's.
InSegment ==
    pc = "pages" =>
    /\ i \in Loaded
    /\ virt + msize = End(i)
    /\ fsize <= msize
    /\ virt >= 1
    /\ fsize > 0 => phys >= NumBits

\* Between segments: the break is below what is still to come and, when a
\* segment has been loaded, above the first page.
BetweenSegments ==
    pc # "pages" =>
    /\ \A n \in Loaded : n >= i => break_min <= Floor(H(n).addr)
    /\ (\E k \in Loaded : k < i) => break_min \in 1 .. StackPage - NumBits
    /\ pc = "user" => i = Len(image.headers) + 1

Good ==
    /\ Shapes
    /\ Own(bitmap, pdir, m)
    /\ Unmapped
    /\ InSegment
    /\ BetweenSegments

LInv == image \in Images /\ (Placed /\ pc # "panic" => Good)

LEMMA Segment ==
    ASSUME image \in Images, NEW k \in Loaded
    PROVE  /\ k \in 1 .. Len(image.headers) /\ Len(image.headers) \in Nat
           /\ H(k) \in Header
           /\ H(k).addr \in Nat /\ H(k).offs \in Nat
           /\ H(k).fsize \in Nat /\ H(k).msize \in Nat
           /\ image.start \in Nat
           /\ Floor(H(k).addr) \in Nat /\ End(k) \in Nat
           /\ Floor(H(k).addr) <= End(k)
<1>1. ImageOK(image)
  BY LoaderTypes
<1>2. k \in 1 .. Len(image.headers) /\ Len(image.headers) \in Nat /\ H(k) \in Header
      /\ image.start \in Nat
  BY <1>1 DEF ImageOK, Loaded, H, Offsets
<1>3. /\ H(k).addr \in Nat /\ H(k).offs \in Nat
      /\ H(k).fsize \in Nat /\ H(k).msize \in Nat
  BY <1>2 DEF Header
<1>4. /\ Floor(H(k).addr) \in Nat
      /\ Ceil((H(k).addr % PageSize) + H(k).msize) \in Nat
      /\ Floor(H(k).addr) + Ceil((H(k).addr % PageSize) + H(k).msize) = End(k)
  BY <1>3, SegmentPages DEF End
<1> QED
  BY <1>2, <1>3, <1>4

\* The page of the file that a segment begins in.
LEMMA FirstFilePage ==
    ASSUME image \in Images, NEW k \in Loaded
    PROVE  /\ Floor(H(k).offs + image.start) \in Nat
           /\ Floor(H(k).offs + ModBase + image.start)
                  = NumBits + Floor(H(k).offs + image.start)
<1> USE LoaderTypes
<1> DEFINE b == H(k).offs + image.start
           c == b \div PageSize
           r == b % PageSize
<1>1. b \in Nat /\ NumBits \in Nat /\ H(k).offs \in Nat /\ image.start \in Nat
  BY Segment, PageTableTypes
<1>2. b = PageSize * c + r /\ c \in Nat /\ r \in 0 .. PageSize - 1
  <2> HIDE DEF b
  <2> QED
    BY <1>1, DivMod
<1>3. H(k).offs + ModBase + image.start = ModBase + b
  BY <1>1
<1> HIDE DEF c, r
<1>4. ModBase + b = (NumBits + c) * PageSize + r
  <2>1. (NumBits + c) * PageSize = ModBase + PageSize * c
    BY <1>1, <1>2 DEF ModBase
  <2>2. PageSize * c \in Nat /\ r \in Nat
    BY <1>2
  <2> HIDE DEF b
  <2> QED
    BY <1>1, <1>2, <2>1, <2>2
<1>5. NumBits + c \in Nat /\ r \in Nat /\ r < PageSize
  <2> HIDE DEF b
  <2> QED
    BY <1>1, <1>2
<1>6. Floor((NumBits + c) * PageSize + r) = NumBits + c
  BY <1>5, FloorCeil
<1>7. Floor(b) = c
  BY DEF Floor, c
<1> HIDE DEF b
<1> QED
  BY <1>2, <1>3, <1>4, <1>6, <1>7 DEF b

LEMMA PlacedSegment ==
    ASSUME image \in Images, Placed, NEW k \in Loaded
    PROVE  /\ Floor(H(k).addr) >= 1
           /\ End(k) <= StackPage - NumBits
           /\ \A n \in Loaded : k < n => End(k) <= Floor(H(n).addr)
<1>1. H(k).addr >= PageSize /\ H(k).addr \in Nat /\ H(k).msize \in Nat
  BY Segment DEF Placed, RoomBelowStack
<1>2. Floor(H(k).addr) >= 1
  BY <1>1, SegmentPages
<1> QED
  BY <1>2 DEF Placed, RoomBelowStack, Ordered, End

LEMMA InitLInv == Init => LInv
<1> SUFFICES ASSUME Init, Placed PROVE LInv
  BY DEF Init, LInv
<1> USE PageTableTypes, LoaderTypes
<1>1. /\ image \in Images /\ pc = "multiboot" /\ i = 1 /\ break_min = 0
      /\ virt = 0 /\ phys = 0 /\ fsize = 0 /\ msize = 0
      /\ bitmap = [f \in Frames |-> f \in KernelFrames]
      /\ pdir = [s \in Slots |-> NoPage]
      /\ ptab = [f \in Frames |-> EmptyTable]
  BY DEF Init
<1>2. bitmap \in Bitmaps /\ pdir \in Directory /\ ptab \in RawTables
  BY <1>1 DEF Bitmaps, Frames, Directory, RawTables, EmptyTable
<1>3. \A p \in Pages : m[p] = NoPage
  BY <1>1, PageSlot DEF m, Map, get_mapping
<1>4. Own(bitmap, pdir, m)
  BY <1>1, <1>3 DEF Own
<1>5. Len(image.headers) \in Nat
  BY <1>1 DEF ImageOK
<1>6. Shapes
  BY <1>1, <1>2, <1>5 DEF Shapes
<1>7. Unmapped /\ InSegment
  BY <1>1, <1>3 DEF Unmapped, InSegment
<1>8. BetweenSegments
  BY <1>1, Segment DEF BetweenSegments
<1> QED
  BY <1>1, <1>4, <1>6, <1>7, <1>8 DEF LInv, Good
-----------------------------------------------------------------------------
(* The steps *)

LEMMA SameImage ==
    ASSUME image' = image
    PROVE  /\ Loaded' = Loaded /\ (Placed' <=> Placed)
           /\ \A k : H(k)' = H(k) /\ End(k)' = End(k)
  BY DEF Loaded, Placed, Ordered, RoomBelowStack, H, End

\* A step that maps nothing.
LEMMA SameTables ==
    ASSUME UNCHANGED tables, Own(bitmap, pdir, m)
    PROVE  m' = m /\ Own(bitmap', pdir', m')
  BY DEF tables, m, FrameTables

LEMMA CheckGood ==
    ASSUME image \in Images, Placed, Good, CheckMultiboot \/ CheckELF, pc' # "panic"
    PROVE  Good'
<1>1. /\ UNCHANGED <<image, locals, tables, break_min>>
      /\ pc \in {"multiboot", "elf"} /\ pc' \in {"elf", "headers"}
  BY DEF CheckMultiboot, CheckELF, Panic
<1>2. m' = m /\ Own(bitmap', pdir', m')
  BY <1>1, SameTables DEF Good
<1>3. Shapes'
  BY <1>1 DEF Good, Shapes, locals, tables
<1>4. Unmapped' /\ InSegment'
  BY <1>1, <1>2 DEF Good, Unmapped, InSegment, Bound
<1>5. BetweenSegments'
  BY <1>1, SameImage DEF Good, BetweenSegments, locals
<1> QED
  BY <1>2, <1>3, <1>4, <1>5 DEF Good

LEMMA SkipGood ==
    ASSUME image \in Images, Placed, Good, SkipHeader
    PROVE  Good'
<1>1. /\ UNCHANGED <<image, pc, virt, phys, fsize, msize, tables, break_min>>
      /\ pc = "headers" /\ i <= Len(image.headers) /\ i' = i + 1 /\ i \notin Loaded
  BY DEF SkipHeader, Loaded, H, header
<1>2. m' = m /\ Own(bitmap', pdir', m')
  BY <1>1, SameTables DEF Good
<1>3. Len(image.headers) \in Nat /\ i \in 1 .. Len(image.headers) + 1
  BY LoaderTypes DEF Good, Shapes, ImageOK
<1>4. Shapes'
  BY <1>1, <1>3 DEF Good, Shapes, tables
<1>5. Unmapped' /\ InSegment'
  BY <1>1, <1>2 DEF Good, Unmapped, InSegment, Bound
<1>6. BetweenSegments'
  <2>1. \A k \in Loaded : k \in Nat
    BY Segment
  <2>2. \A k \in Loaded : (k >= i + 1 => k >= i) /\ (k < i + 1 => k < i)
    BY <1>1, <1>3, <2>1
  <2> QED
    BY <1>1, <2>2, SameImage DEF Good, BetweenSegments
<1> QED
  BY <1>2, <1>4, <1>5, <1>6 DEF Good

LEMMA StartGood ==
    ASSUME image \in Images, Placed, Good, StartSegment, pc' # "panic"
    PROVE  Good'
<1> USE LoaderTypes
<1>1. /\ pc = "headers" /\ pc' = "pages" /\ i \in Loaded
      /\ UNCHANGED <<image, i, tables, break_min>>
      /\ H(i).fsize <= H(i).msize
      /\ virt' = Floor(H(i).addr)
      /\ phys' = Floor(H(i).offs + ModBase + image.start)
      /\ fsize' = Ceil((H(i).addr % PageSize) + H(i).fsize)
      /\ msize' = Ceil((H(i).addr % PageSize) + H(i).msize)
  <2>1. pc = "headers" /\ i <= Len(image.headers) /\ header = H(i) /\ header.load
        /\ ~ BadHeader(header)
    BY DEF StartSegment, Panic, H, header
  <2>2. i \in Loaded
    BY <2>1 DEF Loaded, H, Good, Shapes
  <2>3. H(i).fsize <= H(i).msize
    BY <2>1, <2>2, Segment DEF BadHeader
  <2> QED
    BY <2>1, <2>2, <2>3 DEF StartSegment
<1>2. /\ H(i).addr \in Nat /\ H(i).offs \in Nat
      /\ H(i).fsize \in Nat /\ H(i).msize \in Nat /\ image.start \in Nat
  BY <1>1, Segment
<1> DEFINE o == H(i).addr % PageSize
<1>3. /\ Floor(H(i).addr) \in Nat /\ o \in Nat /\ Ceil(o + H(i).msize) \in Nat
      /\ Ceil(o + H(i).fsize) \in Nat
      /\ Floor(H(i).addr) + Ceil(o + H(i).msize) = End(i)
  <2>1. /\ Floor(H(i).addr) \in Nat /\ o \in Offsets /\ Ceil(o + H(i).msize) \in Nat
        /\ Floor(H(i).addr) + Ceil(o + H(i).msize) = Ceil(H(i).addr + H(i).msize)
    BY <1>2, SegmentPages
  <2>2. Ceil(o + H(i).fsize) \in Nat
    BY <1>2, SegmentPages
  <2> HIDE DEF o
  <2> QED
    BY <2>1, <2>2 DEF End, Offsets
<1>4. Ceil(o + H(i).fsize) <= Ceil(o + H(i).msize)
  <2>1. o + H(i).fsize \in Nat /\ o + H(i).msize \in Nat
        /\ o + H(i).fsize <= o + H(i).msize
    BY <1>1, <1>2, <1>3
  <2> QED
    BY <2>1, CeilMono
<1>5. phys' \in Nat /\ phys' >= NumBits
  BY <1>1, FirstFilePage, PageTableTypes
<1>6. m' = m /\ Own(bitmap', pdir', m')
  BY <1>1, SameTables DEF Good
<1>7. Shapes'
  BY <1>1, <1>3, <1>5 DEF Good, Shapes, tables
<1>8. Unmapped'
  <2>1. break_min <= Floor(H(i).addr) /\ break_min \in Nat /\ i \in Nat
    BY <1>1 DEF Good, BetweenSegments, Shapes
  <2>2. \A p \in Pages : p \in Nat /\ (p >= virt' => p >= break_min)
    BY <1>1, <1>3, <2>1, PageSlot
  <2> QED
    BY <1>1, <1>6, <2>2 DEF Good, Unmapped, Bound
<1>9. InSegment'
  <2>1. virt' >= 1
    BY <1>1, PlacedSegment
  <2> QED
    BY <1>1, <1>3, <1>4, <1>5, <2>1, SameImage DEF InSegment
<1>10. BetweenSegments'
  BY <1>1 DEF BetweenSegments
<1> QED
  BY <1>6, <1>7, <1>8, <1>9, <1>10 DEF Good

\* A turn of the page loop that maps frame, a page of the file or a frame it
\* has just taken from the pool.
LEMMA PageGood ==
    ASSUME image \in Images, Placed, Good, pc = "pages", msize > 0,
           NEW frame \in Nat, NEW taken,
           \/ frame >= NumBits /\ taken = bitmap
           \/ /\ fsize = 0 /\ frame \in Frames /\ ~bitmap[frame]
              /\ taken = [bitmap EXCEPT ![frame] = TRUE],
           MapPage(taken, frame), pc' # "panic"
    PROVE  Good'
<1> USE LoaderTypes, PageTableTypes
<1> DEFINE e == [frame |-> frame, writable |-> header.writable]
<1>1. PICK r : r = insert_mapping(taken, pdir, ptab, virt, e)
  OBVIOUS
<1>2. /\ r.ok
      /\ bitmap' = r.bitmap /\ pdir' = r.pdir /\ ptab' = r.ptab
      /\ virt' = virt + 1 /\ msize' = msize - 1
      /\ fsize' = (IF fsize > 0 THEN fsize - 1 ELSE 0)
      /\ phys' = frame + 1
      /\ UNCHANGED <<image, pc, i, break_min>>
  BY <1>1 DEF MapPage, Panic
<1>3. /\ i \in Loaded /\ virt + msize = End(i) /\ fsize <= msize /\ virt >= 1
      /\ fsize > 0 => phys >= NumBits
  BY DEF Good, InSegment
<1>4. /\ virt \in Nat /\ msize \in Nat /\ fsize \in Nat
      /\ bitmap \in Bitmaps /\ pdir \in Directory /\ ptab \in RawTables
  BY DEF Good, Shapes
<1>5. End(i) \in Nat /\ End(i) <= StackPage - NumBits
  BY <1>3, Segment, PlacedSegment
<1>6. virt \in Pages /\ virt < StackPage
  BY <1>3, <1>4, <1>5 DEF Pages
<1>7. m = Map(pdir, View(ptab)) /\ m' = Map(pdir', View(ptab'))
  BY DEF m, View, FrameTables
<1>8. m[virt] = NoPage
  BY <1>4, <1>6 DEF Good, Unmapped, Bound
<1>9. e \in RawEntries
  <2>1. header = H(i) /\ H(i) \in Header
    BY <1>3, Segment DEF header, H
  <2> QED
    BY <2>1 DEF RawEntries, Header
<1>10. Took(bitmap, taken, Forget(e))
  <2>1. Forget(e) = IF frame \in Frames THEN frame ELSE Image
    BY <1>9, ForgetType
  <2>2. frame >= NumBits => frame \notin Frames
    BY DEF Frames, Bits
  <2> QED
    BY <2>1, <2>2 DEF Took
<1> HIDE DEF e
<1>11. /\ bitmap' \in Bitmaps /\ pdir' \in Directory /\ ptab' \in RawTables
       /\ m' = [m EXCEPT ![virt] = Forget(e)]
       /\ Own(bitmap', pdir', m')
  <2>1. Own(bitmap, pdir, m)
    BY DEF Good
  <2>2. PICK n : n = m
    OBVIOUS
  <2>3. n = Map(pdir, View(ptab)) /\ Own(bitmap, pdir, n) /\ n[virt] = NoPage
    BY <1>7, <1>8, <2>1, <2>2
  <2>4. /\ r.bitmap \in Bitmaps /\ r.pdir \in Directory /\ r.ptab \in RawTables
        /\ Map(r.pdir, View(r.ptab)) = [n EXCEPT ![virt] = Forget(e)]
        /\ Own(r.bitmap, r.pdir, [n EXCEPT ![virt] = Forget(e)])
    BY <1>1, <1>2, <1>4, <1>6, <1>9, <1>10, <2>3, MapsPage
  <2> QED
    BY <1>2, <1>7, <2>2, <2>4
<1>12. Shapes'
  <2>1. virt' \in Nat /\ msize' \in Nat /\ fsize' \in Nat /\ phys' \in Nat
    BY <1>2, <1>4
  <2> QED
    BY <1>2, <1>11, <2>1 DEF Good, Shapes
<1>13. Unmapped'
  <2>1. ASSUME NEW p \in Pages, p >= virt' PROVE m'[p] = NoPage
    <3>1. p \in Nat /\ p >= virt /\ p # virt
      BY <1>2, <1>4, <2>1, PageSlot
    <3>2. m[p] = NoPage
      BY <3>1 DEF Good, Unmapped, Bound
    <3>3. m' = [q \in Pages |-> IF q = virt THEN Forget(e) ELSE m[q]]
      BY <1>11 DEF m, Map
    <3> QED
      BY <3>1, <3>2, <3>3
  <2> QED
    BY <1>2, <2>1 DEF Unmapped, Bound
<1>14. InSegment'
  <2>1. virt' + msize' = End(i) /\ fsize' <= msize' /\ virt' >= 1
        /\ (fsize' > 0 => phys' >= NumBits)
    BY <1>2, <1>3, <1>4
  <2> QED
    BY <1>2, <1>3, <2>1, SameImage DEF InSegment
<1>15. BetweenSegments'
  BY <1>2 DEF BetweenSegments
<1> QED
  BY <1>11, <1>12, <1>13, <1>14, <1>15 DEF Good

LEMMA FilePageGood ==
    ASSUME image \in Images, Placed, Good, MapFilePage, pc' # "panic"
    PROVE  Good'
<1>1. pc = "pages" /\ fsize > 0 /\ MapPage(bitmap, phys)
  BY DEF MapFilePage
<1>2. phys \in Nat /\ phys >= NumBits /\ msize > 0
  BY <1>1 DEF Good, Shapes, InSegment
<1>3. PICK frame, taken : frame = phys /\ taken = bitmap
  OBVIOUS
<1>4. MapPage(taken, frame)
  BY <1>1, <1>3 DEF MapPage
<1>5. frame \in Nat /\ frame >= NumBits /\ taken = bitmap
  BY <1>2, <1>3
<1> QED
  BY <1>1, <1>2, <1>4, <1>5, PageGood

LEMMA ZeroPageGood ==
    ASSUME image \in Images, Placed, Good, MapZeroPage, pc' # "panic"
    PROVE  Good'
<1> DEFINE f == alloc_page(bitmap)
<1>1. /\ pc = "pages" /\ msize > 0 /\ fsize = 0
      /\ f # NoPage /\ MapPage(mark_page_allocated(bitmap, f, TRUE), f)
  BY DEF MapZeroPage, Panic
<1>2. f \in Frames /\ ~bitmap[f] /\ f \in Nat
  <2>1. f \in Frames /\ ~bitmap[f]
    BY <1>1, AllocPage DEF Good, Shapes
  <2> QED
    BY <2>1 DEF Frames, Bits
<1>3. mark_page_allocated(bitmap, f, TRUE) = [bitmap EXCEPT ![f] = TRUE]
  BY DEF mark_page_allocated
<1> HIDE DEF f
<1> QED
  BY <1>1, <1>2, <1>3, PageGood

LEMMA EndGood ==
    ASSUME image \in Images, Placed, Good, EndSegment, pc' # "panic"
    PROVE  Good'
<1>1. /\ pc = "pages" /\ msize = 0 /\ pc' = "headers"
      /\ break_min' = virt /\ i' = i + 1
      /\ UNCHANGED <<image, virt, phys, fsize, msize, tables>>
  BY DEF EndSegment, Panic
<1>2. i \in Loaded /\ virt = End(i) /\ virt \in Nat /\ virt >= 1
  BY <1>1 DEF Good, InSegment, Shapes
<1>3. i \in 1 .. Len(image.headers) /\ Len(image.headers) \in Nat
  BY <1>2, Segment
<1>4. m' = m /\ Own(bitmap', pdir', m')
  BY <1>1, SameTables DEF Good
<1>5. Shapes'
  BY <1>1, <1>2, <1>3 DEF Good, Shapes, tables
<1>6. Unmapped' /\ InSegment'
  BY <1>1, <1>4 DEF Good, Unmapped, InSegment, Bound
<1>7. BetweenSegments'
  <2>1. \A n \in Loaded : n >= i + 1 => virt <= Floor(H(n).addr)
    <3>1. \A n \in Loaded : n \in Nat
      BY Segment
    <3>2. \A n \in Loaded : n >= i + 1 => i < n
      BY <1>3, <3>1
    <3> QED
      BY <1>2, <3>2, PlacedSegment
  <2>2. virt \in 1 .. StackPage - NumBits
    <3>1. virt <= StackPage - NumBits
      BY <1>2, PlacedSegment
    <3> QED
      BY <1>2, <3>1, LoaderTypes, PageTableTypes
  <2> QED
    BY <1>1, <2>1, <2>2, SameImage DEF BetweenSegments
<1> QED
  BY <1>4, <1>5, <1>6, <1>7 DEF Good

LEMMA StackGood ==
    ASSUME image \in Images, Placed, Good, MapStack, pc' # "panic"
    PROVE  Good'
<1> USE LoaderTypes, PageTableTypes
<1> DEFINE f == alloc_page(bitmap)
           taken == mark_page_allocated(bitmap, f, TRUE)
           e == [frame |-> f, writable |-> TRUE]
<1>1. PICK r : r = insert_mapping(taken, pdir, ptab, StackPage, e)
  OBVIOUS
<1>2. /\ pc = "headers" /\ i > Len(image.headers) /\ f # NoPage /\ r.ok
      /\ bitmap' = r.bitmap /\ pdir' = r.pdir /\ ptab' = r.ptab
      /\ pc' = "user" /\ UNCHANGED <<image, locals, break_min>>
  BY <1>1 DEF MapStack, Panic
<1>3. /\ bitmap \in Bitmaps /\ pdir \in Directory /\ ptab \in RawTables
      /\ break_min \in Nat /\ i \in 1 .. Len(image.headers) + 1
      /\ Len(image.headers) \in Nat
  BY DEF Good, Shapes, ImageOK
<1>4. f \in Frames /\ ~bitmap[f] /\ f \in Nat
  <2>1. f \in Frames /\ ~bitmap[f]
    BY <1>2, <1>3, AllocPage
  <2> QED
    BY <2>1 DEF Frames, Bits
<1>5. taken = [bitmap EXCEPT ![f] = TRUE]
  BY DEF mark_page_allocated
<1> HIDE DEF taken, f
<1>6. e \in RawEntries
  BY <1>4 DEF RawEntries
<1>7. Forget(e) = f
  BY <1>4, <1>6, ForgetType
<1> HIDE DEF e
<1>8. Took(bitmap, taken, Forget(e))
  BY <1>4, <1>5, <1>7 DEF Took
\* Some segment is loaded, so the break lies below the stack.
<1>9. i = Len(image.headers) + 1 /\ break_min \in 1 .. StackPage - NumBits
  <2>1. i = Len(image.headers) + 1
    BY <1>2, <1>3
  <2>2. PICK k \in Loaded : TRUE
    BY DEF Placed, Ordered
  <2>3. k < i
    BY <1>3, <2>1, Segment
  <2> QED
    BY <1>2, <2>1, <2>3 DEF Good, BetweenSegments
<1>10. break_min < StackPage /\ m[StackPage] = NoPage
  <2>1. break_min < StackPage
    BY <1>3, <1>9
  <2> QED
    BY <1>2, <1>3, <2>1, PageSlot DEF Good, Unmapped, Bound
<1>11. m = Map(pdir, View(ptab)) /\ m' = Map(pdir', View(ptab'))
  BY DEF m, View, FrameTables
<1>12. /\ bitmap' \in Bitmaps /\ pdir' \in Directory /\ ptab' \in RawTables
       /\ m' = [m EXCEPT ![StackPage] = f]
       /\ Own(bitmap', pdir', m')
  <2>1. PICK n : n = m
    OBVIOUS
  <2>2. n = Map(pdir, View(ptab)) /\ Own(bitmap, pdir, n) /\ n[StackPage] = NoPage
    BY <1>10, <1>11, <2>1 DEF Good
  <2>3. /\ r.bitmap \in Bitmaps /\ r.pdir \in Directory /\ r.ptab \in RawTables
        /\ Map(r.pdir, View(r.ptab)) = [n EXCEPT ![StackPage] = Forget(e)]
        /\ Own(r.bitmap, r.pdir, [n EXCEPT ![StackPage] = Forget(e)])
    BY <1>1, <1>2, <1>3, <1>6, <1>8, <2>2, MapsPage, PageSlot
  <2> QED
    BY <1>2, <1>7, <1>11, <2>1, <2>3
<1>13. m' = [q \in Pages |-> IF q = StackPage THEN f ELSE m[q]]
  BY <1>12 DEF m, Map
<1>14. Shapes'
  BY <1>2, <1>12 DEF Good, Shapes, locals
<1>15. Unmapped'
  <2>1. ASSUME NEW p \in Pages, p >= break_min, p # StackPage PROVE m'[p] = NoPage
    <3>1. m[p] = NoPage
      BY <1>2, <2>1 DEF Good, Unmapped, Bound
    <3> QED
      BY <1>13, <2>1, <3>1
  <2>2. m'[StackPage] \in Frames
    BY <1>4, <1>13, PageSlot
  <2> QED
    BY <1>2, <2>1, <2>2 DEF Unmapped, Bound
<1>16. InSegment'
  BY <1>2 DEF InSegment
<1>17. BetweenSegments'
  BY <1>2, <1>9, SameImage DEF Good, BetweenSegments, locals
<1> QED
  BY <1>12, <1>14, <1>15, <1>16, <1>17 DEF Good

LEMMA StepLInv == LInv /\ [Next]_vars => LInv'
<1> SUFFICES ASSUME LInv, [Next]_vars PROVE LInv'
  OBVIOUS
<1>1. image' = image
  BY DEF Next, vars, CheckMultiboot, CheckELF, SkipHeader, StartSegment, MapFilePage,
         MapZeroPage, MapPage, EndSegment, MapStack, Panic
<1>2. image' \in Images /\ (Placed' <=> Placed)
  BY <1>1, SameImage DEF LInv
<1>3. SUFFICES ASSUME Placed, pc' # "panic" PROVE Good'
  BY <1>2 DEF LInv
<1>4. image \in Images /\ (pc # "panic" => Good)
  BY <1>3 DEF LInv
<1>5. CASE UNCHANGED vars
  <2>1. Good
    BY <1>3, <1>4, <1>5 DEF vars
  <2>2. m' = m /\ Own(bitmap', pdir', m')
    BY <1>5, <2>1, SameTables DEF Good, vars
  <2>3. Shapes' /\ Unmapped' /\ InSegment' /\ BetweenSegments'
    BY <1>5, <2>1, <2>2, SameImage
    DEF Good, Shapes, Unmapped, InSegment, BetweenSegments, Bound, vars, locals, tables
  <2> QED
    BY <2>2, <2>3 DEF Good
<1>6. CASE Next
  <2>1. Good
    BY <1>4, <1>6 DEF Next, CheckMultiboot, CheckELF, SkipHeader, StartSegment,
                      MapFilePage, MapZeroPage, EndSegment, MapStack
  <2> QED
    BY <1>3, <1>4, <1>6, <2>1, CheckGood, SkipGood, StartGood, FilePageGood,
       ZeroPageGood, EndGood, StackGood DEF Next
<1> QED
  BY <1>5, <1>6
-----------------------------------------------------------------------------
(* What is left to the program *)

\* Syscall's page tables are the loader's.
LEMMA SameOperators ==
    /\ S!Frames = Frames /\ S!Slots = Slots /\ S!Indices = Indices
    /\ S!Entries = Entries /\ S!Pages = Pages
    /\ \A pd, pt, p : S!get_mapping(pd, pt, p) = get_mapping(pd, pt, p)
  BY DEF S!Frames, S!Bits, S!Slots, S!Indices, S!Entries, S!Pages, S!get_mapping,
         S!Slot, S!Index, Frames, Bits, Slots, Indices, Entries, Pages, get_mapping,
         Slot, Index

LEMMA OwnGivesLayout ==
    ASSUME NEW bm \in Bitmaps, NEW pd \in Directory, NEW pt \in Tables,
           Own(bm, pd, Map(pd, pt))
    PROVE  /\ S!OneUse(pd, pt)
           /\ \A f \in Frames : bm[f] <=> f \in S!InUse(pd, pt)
<1>1. PICK n : n = Map(pd, pt)
  OBVIOUS
<1>2. Own(bm, pd, n) /\ n \in MapSet /\ \A p \in Pages : S!get_mapping(pd, pt, p) = n[p]
  BY <1>1, MapType, SameOperators DEF Map
<1>3. KernelFrames \subseteq Frames /\ NoPage \notin Frames
  BY LoaderTypes, PageTableTypes
<1>4. \A s \in Slots : pd[s] \in Frames \/ pd[s] = NoPage
  BY DEF Directory
<1>5. \A f : f \in S!TableFrames(pd) <=> f # NoPage /\ \E s \in Slots : pd[s] = f
  BY SameOperators DEF S!TableFrames
<1>6. \A f : f \in S!MappedFrames(pd, pt) <=> f \in Frames /\ \E p \in Pages : n[p] = f
  BY <1>2, SameOperators DEF S!MappedFrames
<1>7. \A f \in Frames : bm[f] <=> f \in S!InUse(pd, pt)
  <2>1. \A f \in Frames :
           f \in S!InUse(pd, pt) <=> \/ f \in KernelFrames
                                     \/ \E s \in Slots : pd[s] = f
                                     \/ \E p \in Pages : n[p] = f
    BY <1>3, <1>5, <1>6 DEF S!InUse
  <2> QED
    BY <1>2, <2>1 DEF Own
<1>8. S!TableFrames(pd) \cap S!MappedFrames(pd, pt) = {}
  BY <1>2, <1>5, <1>6 DEF Own
<1>9. KernelFrames \cap (S!TableFrames(pd) \cup S!MappedFrames(pd, pt)) = {}
  BY <1>2, <1>5, <1>6 DEF Own
<1>10. \A s, t \in Slots : pd[s] = pd[t] /\ pd[s] # NoPage => s = t
  BY <1>2 DEF Own
<1>11. \A p, q \in Pages : n[p] \in Frames /\ n[p] = n[q] => p = q
  BY <1>2 DEF Own
<1>12. S!OneUse(pd, pt)
  BY <1>2, <1>8, <1>9, <1>10, <1>11, SameOperators DEF S!OneUse
<1> QED
  BY <1>7, <1>12

LEMMA GoodLeavesLayout == LInv => LeavesLayout
<1> SUFFICES ASSUME LInv, pc = "user", Ordered, RoomBelowStack
             PROVE  /\ S!LayoutOK([low |-> break_min, pdir |-> pdir, ptab |-> FrameTables])
                    /\ \A f \in Frames : bitmap[f] <=> f \in S!InUse(pdir, FrameTables)
  BY DEF LeavesLayout
<1> USE LoaderTypes, PageTableTypes
<1>1. Good /\ Placed /\ image \in Images
  BY DEF LInv, Placed
<1>2. /\ bitmap \in Bitmaps /\ pdir \in Directory /\ ptab \in RawTables
      /\ break_min \in Nat /\ Own(bitmap, pdir, m)
  BY <1>1 DEF Good, Shapes
<1>3. FrameTables \in Tables /\ m = Map(pdir, FrameTables)
  BY <1>2, ViewType DEF View, FrameTables, m
<1>4. /\ S!OneUse(pdir, FrameTables)
      /\ \A f \in Frames : bitmap[f] <=> f \in S!InUse(pdir, FrameTables)
  BY <1>2, <1>3, OwnGivesLayout
<1>5. break_min \in 1 .. StackPage - NumBits
  <2>1. i = Len(image.headers) + 1
    BY <1>1 DEF Good, BetweenSegments
  <2>2. PICK k \in Loaded : TRUE
    BY <1>1 DEF Placed, Ordered
  <2>3. k < i
    BY <1>1, <2>1, Segment
  <2> QED
    BY <1>1, <2>3 DEF Good, BetweenSegments
<1>6. break_min \in 1 .. StackPage - 1 /\ NumBits <= StackPage - break_min
  BY <1>2, <1>5
<1>7. S!HeapIs(pdir, FrameTables, break_min, break_min)
  <2>1. \A p \in Pages : S!get_mapping(pdir, FrameTables, p) = m[p]
    BY <1>3, SameOperators DEF Map
  <2>2. \A p \in break_min .. StackPage - 1 : m[p] = NoPage
    <3>1. \A p \in break_min .. StackPage - 1 : p \in Pages /\ p >= break_min /\ p # StackPage
      BY <1>2 DEF Pages
    <3> QED
      BY <1>1, <3>1 DEF Good, Unmapped, Bound
  <2>3. m[StackPage] \in Frames
    BY <1>1 DEF Good, Unmapped
  <2>4. \A p \in break_min .. StackPage - 1 : p \in Pages
    BY <1>2 DEF Pages
  <2> QED
    BY <1>6, <2>1, <2>2, <2>3, <2>4, PageSlot, SameOperators DEF S!HeapIs
<1>8. S!LayoutOK([low |-> break_min, pdir |-> pdir, ptab |-> FrameTables])
  BY <1>2, <1>3, <1>4, <1>6, <1>7, SameOperators DEF S!LayoutOK, Directory, Tables
<1> QED
  BY <1>4, <1>8

\* The invariant of root_invoke for files whose segments are in order: every
\* frame has one use and nothing is mapped from the next page on.
THEOREM LoadedInOrder == Spec => []LInv
<1>1. Init => LInv
  BY InitLInv
<1>2. LInv /\ [Next]_vars => LInv'
  BY StepLInv
<1> QED
  BY <1>1, <1>2, PTL DEF Spec

\* root_invoke leaves a program whose segments are in order on pages of their
\* own a memory that satisfies what Syscall assumes of its layouts: nothing
\* between the break and the stack, one use for every frame, and a bitmap that
\* says what is used.
THEOREM LoaderLeavesLayout == Spec => []LeavesLayout
  BY LoadedInOrder, GoodLeavesLayout, PTL
-----------------------------------------------------------------------------
(* Every file, whatever its segments share.                                 *)

FileEnd(k) == Ceil(H(k).addr + H(k).fsize)

\* The page of the file that the loop maps page p of segment k to.
FileFrame(k, p) ==
    Floor(H(k).offs + ModBase + image.start) + (p - Floor(H(k).addr))

\* Page p is mapped as the loop maps it for segment k.
MappedFor(k, p) ==
    /\ Mapped(p) \in RawEntries
    /\ Mapped(p).writable = H(k).writable
    /\ IF p < FileEnd(k) THEN Mapped(p).frame = FileFrame(k, p)
                         ELSE Mapped(p).frame \in Frames

Sound(k) ==
    /\ ~ BadHeader(H(k))
    /\ BssBytes(H(k)) # {} => H(k).writable

\* A table has one slot and is allocated.
OneTable(bm, pd) ==
    /\ \A s, t \in Slots : pd[s] = pd[t] /\ pd[s] # NoPage => s = t
    /\ \A s \in Slots : pd[s] # NoPage => bm[pd[s]]

\* The segment the loop is in, and how far it has come.
Current ==
    pc = "pages" =>
    /\ i \in Loaded /\ ~ BadHeader(H(i))
    /\ Floor(H(i).addr) <= virt
    /\ virt + msize = End(i)
    /\ fsize = IF virt < FileEnd(i) THEN FileEnd(i) - virt ELSE 0
    /\ fsize > 0 => phys = FileFrame(i, virt)
    /\ \A p \in Floor(H(i).addr) .. virt - 1 : MappedFor(i, p)

\* The segments before it.
Finished ==
    \A k \in Loaded : k < i =>
        /\ Sound(k)
        /\ \A p \in SegPages(k) : Unshared(k, p) => MappedFor(k, p)
        /\ \A a \in BssBytes(H(k)) :
              Unshared(k, Floor(a)) /\ Mapped(Floor(a)).frame \in Memory =>
                  mem[Mapped(Floor(a)).frame][a % PageSize] = 0

\* Only what some segment's .bss lies on is changed in the file.
FileKept ==
    image.start = 0 =>
    \A f \in Memory \ Frames : \A o \in Offsets :
        \/ mem[f][o] = ModByte(f * PageSize + o)
        \/ \E n \in Loaded : (f * PageSize + o) - ModBase \in Wiped(n)

Checked ==
    /\ pc # "multiboot" => image.modules
    /\ pc \in {"headers", "pages", "user"} => image.elf /\ image.mega % 4 = 0
    /\ pc = "user" => i = Len(image.headers) + 1

Filled ==
    /\ Shapes /\ mem \in [Memory -> [Offsets -> Nat]]
    /\ OneTable(bitmap, pdir)
    /\ Current
    /\ Finished
    /\ FileKept
    /\ Checked

FInv == image \in Images /\ (pc # "panic" => Filled)

LEMMA FloorMono ==
    ASSUME NEW a \in Nat, NEW b \in Nat
    PROVE  /\ a <= b => Floor(a) <= Floor(b)
           /\ a < b => Floor(a) < Ceil(b)
<1> USE LoaderTypes
<1> DEFINE q == Floor(a)
           n == Floor(b)
           y == b + PageSize - 1
           c == Ceil(b)
<1>1. q = a \div PageSize /\ n = b \div PageSize /\ c = y \div PageSize /\ y \in Nat
  BY DEF Floor, Ceil
<1>2. y = b + PageSize - 1
  OBVIOUS
<1> HIDE DEF q, n, y, c
<1>3. /\ q \in Nat /\ a = PageSize * q + (a % PageSize) /\ a % PageSize \in 0 .. PageSize - 1
      /\ n \in Nat /\ b = PageSize * n + (b % PageSize) /\ b % PageSize \in 0 .. PageSize - 1
      /\ c \in Nat /\ y = PageSize * c + (y % PageSize) /\ y % PageSize \in 0 .. PageSize - 1
  BY <1>1, DivMod
<1>4. /\ PageSize * q = q * PageSize /\ PageSize * n = n * PageSize
      /\ PageSize * c = c * PageSize
      /\ q * PageSize \in Nat /\ n * PageSize \in Nat /\ c * PageSize \in Nat
  BY <1>3
<1>5. ASSUME a <= b PROVE q <= n
  <2>1. q * PageSize < n * PageSize + PageSize
    BY <1>3, <1>4, <1>5
  <2> QED
    BY <1>3, <2>1, MulLess
<1>6. ASSUME a < b PROVE q < c
  <2>1. (q + 1) * PageSize = q * PageSize + PageSize
    BY <1>3
  <2>2. (q + 1) * PageSize < c * PageSize + PageSize
    BY <1>2, <1>3, <1>4, <1>6, <2>1
  <2>3. q + 1 \in Nat
    BY <1>3
  <2>4. q + 1 <= c
    BY <1>3, <2>2, <2>3, MulLess
  <2> QED
    BY <1>3, <2>4
<1> QED
  BY <1>5, <1>6 DEF q, n, c

LEMMA FileExtent ==
    ASSUME image \in Images, NEW k \in Loaded, ~ BadHeader(H(k))
    PROVE  /\ FileEnd(k) \in Nat
           /\ H(k).fsize <= H(k).msize
           /\ Floor(H(k).addr) <= FileEnd(k) /\ FileEnd(k) <= End(k)
           /\ Floor(H(k).addr) + Ceil((H(k).addr % PageSize) + H(k).fsize) = FileEnd(k)
           /\ Floor(H(k).addr) + Ceil((H(k).addr % PageSize) + H(k).msize) = End(k)
<1>1. /\ H(k).addr \in Nat /\ H(k).fsize \in Nat /\ H(k).msize \in Nat
      /\ H(k).fsize <= H(k).msize
  BY Segment DEF BadHeader
<1>2. /\ Floor(H(k).addr) \in Nat
      /\ Ceil((H(k).addr % PageSize) + H(k).fsize) \in Nat
      /\ Floor(H(k).addr) + Ceil((H(k).addr % PageSize) + H(k).fsize) = FileEnd(k)
      /\ Floor(H(k).addr) + Ceil((H(k).addr % PageSize) + H(k).msize) = End(k)
  BY <1>1, SegmentPages DEF FileEnd, End
<1>3. FileEnd(k) <= End(k)
  BY <1>1, CeilMono DEF FileEnd, End
<1> QED
  BY <1>1, <1>2, <1>3

LEMMA SegmentPage ==
    ASSUME image \in Images, NEW k \in Loaded, NEW p \in SegPages(k)
    PROVE  /\ p \in Nat /\ p \in Pages /\ Slot(p) \in Slots
           /\ p < StackPage
           /\ Floor(H(k).addr) <= p /\ p < End(k)
<1>1. End(k) <= StackPage
  <2>1. ImageOK(image)
    BY LoaderTypes
  <2> QED
    BY <2>1 DEF ImageOK, Loaded, H, End
<1>2. Floor(H(k).addr) \in Nat /\ End(k) \in Nat /\ StackPage \in Nat
  BY Segment, LoaderTypes
<1>3. SegPages(k) = Floor(H(k).addr) .. End(k) - 1
  BY DEF SegPages, PagesTo, End
<1>4. p \in Nat /\ Floor(H(k).addr) <= p /\ p < End(k) /\ p < StackPage
  BY <1>1, <1>2, <1>3
<1>5. p \in Pages
  BY <1>2, <1>4 DEF Pages
<1> QED
  BY <1>4, <1>5, PageSlot

LEMMA SegmentByte ==
    ASSUME image \in Images, NEW k \in Loaded, NEW a \in SegBytes(k)
    PROVE  /\ a \in Nat /\ Floor(a) \in SegPages(k)
           /\ a % PageSize \in Offsets
           /\ a < H(k).addr + H(k).fsize => Floor(a) < FileEnd(k)
<1>1. /\ H(k).addr \in Nat /\ H(k).fsize \in Nat /\ H(k).msize \in Nat
      /\ End(k) \in Nat /\ Floor(H(k).addr) \in Nat
  BY Segment
<1>2. a \in Nat /\ H(k).addr <= a /\ a < H(k).addr + H(k).msize
  BY <1>1 DEF SegBytes
<1>3. Floor(H(k).addr) <= Floor(a)
  BY <1>1, <1>2, FloorMono
<1>4. Floor(a) < End(k)
  BY <1>1, <1>2, FloorMono DEF End
<1>5. a < H(k).addr + H(k).fsize => Floor(a) < FileEnd(k)
  BY <1>1, <1>2, FloorMono DEF FileEnd
<1>6. Floor(a) \in Nat /\ a % PageSize \in Offsets
  BY <1>2, SegmentPages
<1> QED
  BY <1>1, <1>2, <1>3, <1>4, <1>5, <1>6 DEF SegPages, PagesTo, End

\* Where a byte that the file has lies in memory, when the file begins at a
\* page: in a page of the file, at the segment's offset.
LEMMA FilePlace ==
    ASSUME image \in Images, image.start = 0, NEW k \in Loaded, ~ BadHeader(H(k)),
           NEW a \in SegBytes(k), Floor(a) < FileEnd(k)
    PROVE  /\ FileFrame(k, Floor(a)) \in Memory \ Frames
           /\ FileFrame(k, Floor(a)) * PageSize + (a % PageSize)
                  = ModBase + H(k).offs + (a - H(k).addr)
<1> USE LoaderTypes
<1> DEFINE f == FileFrame(k, Floor(a))
           q == Floor(H(k).addr)
           p == Floor(a)
           c == Floor(H(k).offs)
           r == H(k).offs % PageSize
           o == a % PageSize
<1>1. /\ H(k).addr \in Nat /\ H(k).offs \in Nat
      /\ H(k).fsize \in Nat /\ NumBits \in Nat
      /\ q \in Nat /\ p \in Nat /\ a \in Nat /\ q <= p
  <2>1. a \in Nat /\ Floor(a) \in SegPages(k)
    BY SegmentByte
  <2> QED
    BY <2>1, Segment, SegmentPage, PageTableTypes
<1>2. f = NumBits + c + (p - q) /\ c \in Nat
  <2>1. H(k).offs + image.start = H(k).offs
    BY <1>1
  <2> QED
    BY <1>1, <2>1, FirstFilePage DEF FileFrame
<1>3. /\ H(k).addr = PageSize * q + r
      /\ H(k).offs = PageSize * c + r
      /\ a = PageSize * p + o
      /\ r \in 0 .. PageSize - 1 /\ o \in 0 .. PageSize - 1
  <2>1. H(k).addr % PageSize = r
    BY DEF BadHeader
  <2> QED
    BY <1>1, <2>1, DivMod DEF Floor
<1>4. q + Ceil(r + H(k).fsize) = FileEnd(k) /\ Ceil(r + H(k).fsize) \in Nat
  <2>1. q + Ceil((H(k).addr % PageSize) + H(k).fsize) = FileEnd(k)
    BY <1>1, SegmentPages DEF FileEnd
  <2>2. Ceil((H(k).addr % PageSize) + H(k).fsize) \in Nat
    BY <1>1, SegmentPages
  <2> QED
    BY <2>1, <2>2 DEF BadHeader
<1>5. c + Ceil(r + H(k).fsize) <= ModPages
  <2>1. ImageOK(image) /\ H(k).load
    BY DEF Loaded, H
  <2>2. Ceil(image.start + H(k).offs + H(k).fsize) <= ModPages
    BY <2>1 DEF ImageOK, Loaded, H
  <2>3. image.start + H(k).offs + H(k).fsize = H(k).offs + H(k).fsize
    BY <1>1
  <2>4. c + Ceil(r + H(k).fsize) = Ceil(H(k).offs + H(k).fsize)
    BY <1>1, SegmentPages
  <2> QED
    BY <2>2, <2>3, <2>4
<1>6. p < FileEnd(k)
  OBVIOUS
<1> HIDE DEF f, q, p, c, r, o
<1>7. f \in Nat /\ f >= NumBits /\ f < NumBits + ModPages
  <2> DEFINE e == Ceil(r + H(k).fsize)
  <2>1. e \in Nat /\ q + e = FileEnd(k) /\ c + e <= ModPages
    BY <1>4, <1>5
  <2> HIDE DEF e
  <2> QED
    BY <1>1, <1>2, <1>6, <2>1
<1>8. f \in Memory \ Frames
  BY <1>1, <1>7 DEF Memory, Frames, Bits
<1>9. f * PageSize + o = ModBase + H(k).offs + (a - H(k).addr)
  <2>1. f * PageSize = ModBase + PageSize * c + (PageSize * p - PageSize * q)
    <3>1. f * PageSize = NumBits * PageSize + c * PageSize + (p * PageSize - q * PageSize)
      BY <1>1, <1>2
    <3> QED
      BY <1>1, <1>2, <3>1 DEF ModBase
  <2>2. PageSize * c \in Nat /\ PageSize * p \in Nat /\ PageSize * q \in Nat
        /\ r \in Nat /\ o \in Nat /\ ModBase \in Nat
    BY <1>1, <1>2, <1>3
  <2> QED
    BY <1>1, <1>3, <2>1, <2>2
<1> QED
  BY <1>8, <1>9 DEF f, p, o

-----------------------------------------------------------------------------
(* The steps, for every file *)

\* What a page's new entry changes: taken is the bitmap with its frame.
Opened(taken, pd, pt, page, e, bm2, pd2, pt2) ==
    /\ bm2 \in Bitmaps /\ pd2 \in Directory /\ pt2 \in RawTables
    /\ OneTable(bm2, pd2)
    /\ \A p \in Pages : get_mapping(pd2, pt2, p) =
                            IF p = page THEN e ELSE get_mapping(pd, pt, p)
    /\ \E t \in Frames :
          /\ bm2 = [taken EXCEPT ![t] = TRUE]
          /\ pd2 = [pd EXCEPT ![Slot(page)] = t]
          /\ \/ pd[Slot(page)] = t /\ taken[t]
             \/ pd[Slot(page)] = NoPage /\ ~taken[t]

\* The frame taken for an entry, if it is one of the pool.
Takes(bm, taken, f) ==
    \/ f \notin Frames /\ taken = bm
    \/ f \in Frames /\ ~bm[f] /\ taken = [bm EXCEPT ![f] = TRUE]

LEMMA TakesFrame ==
    ASSUME NEW bm \in Bitmaps, NEW taken, NEW f, Takes(bm, taken, f)
    PROVE  taken \in Bitmaps /\ \A g \in Frames : taken[g] <=> bm[g] \/ g = f
<1>1. CASE f \notin Frames /\ taken = bm
  BY <1>1
<1>2. CASE f \in Frames /\ ~bm[f] /\ taken = [bm EXCEPT ![f] = TRUE]
  <2>1. taken \in Bitmaps
    BY <1>2, Zenon DEF Bitmaps, Frames
  <2>2. \A g \in Frames : taken[g] <=> bm[g] \/ g = f
    BY <1>2, Zenon DEF Bitmaps, Frames
  <2> QED
    BY <2>1, <2>2
<1> QED
  BY <1>1, <1>2 DEF Takes

LEMMA Opens ==
    ASSUME NEW bm \in Bitmaps, NEW pd \in Directory, NEW pt \in RawTables,
           OneTable(bm, pd),
           NEW taken, NEW f, Takes(bm, taken, f),
           NEW page \in Pages, NEW e \in RawEntries,
           NEW r, r = insert_mapping(taken, pd, pt, page, e)
    PROVE  \/ NotInserted(taken, pd, pt, page, r)
           \/ r.ok /\ Opened(taken, pd, pt, page, e, r.bitmap, r.pdir, r.ptab)
<1> DEFINE E == RawEntries \cup {NoPage}
<1>1. NoPage \in E /\ e \in E /\ RawTables = [Frames -> [Indices -> E]]
  BY DEF RawTables
<1>2. page \in Nat /\ Slot(page) \in Slots
  BY PageSlot
<1>3. taken \in Bitmaps /\ \A g \in Frames : bm[g] => taken[g]
  BY TakesFrame
<1>4. /\ \A s, t \in Slots : pd[s] = pd[t] /\ pd[s] # NoPage => s = t
      /\ \A s \in Slots : pd[s] # NoPage => taken[pd[s]]
  <2>1. \A s \in Slots : pd[s] # NoPage => pd[s] \in Frames
    BY DEF Directory
  <2> QED
    BY <1>3, <2>1 DEF OneTable
<1> HIDE DEF E
<1>5. \/ NotInserted(taken, pd, pt, page, r)
      \/ InsertedIn(RawTables, taken, pd, pt, page, e, r)
  BY <1>1, <1>2, <1>3, <1>4, InsertMappingIn
<1>6. ASSUME InsertedIn(RawTables, taken, pd, pt, page, e, r)
      PROVE  r.ok /\ Opened(taken, pd, pt, page, e, r.bitmap, r.pdir, r.ptab)
  <2>1. PICK t \in Frames :
           /\ r.pdir = [pd EXCEPT ![Slot(page)] = t]
           /\ r.bitmap = [taken EXCEPT ![t] = TRUE]
           /\ pd[Slot(page)] = t \/ (pd[Slot(page)] = NoPage /\ ~taken[t])
    BY <1>6 DEF InsertedIn
  <2>2. r.pdir \in Directory /\ \A s \in Slots : r.pdir[s] = IF s = Slot(page) THEN t ELSE pd[s]
    BY <1>2, <2>1 DEF Directory
  <2>3. r.bitmap \in Bitmaps
    BY <1>3, <2>1, Zenon DEF Bitmaps, Frames
  <2>4. \A g \in Frames : r.bitmap[g] <=> taken[g] \/ g = t
    BY <1>3, <2>1, Zenon DEF Bitmaps, Frames
  <2>5. pd[Slot(page)] = t => taken[t]
    BY <1>2, <1>4, PageTableTypes
  <2>6. \A s \in Slots : pd[s] # NoPage => pd[s] \in Frames
    BY DEF Directory
  <2>7. OneTable(r.bitmap, r.pdir)
    <3>1. \A s \in Slots : s # Slot(page) => pd[s] # t
      BY <1>2, <1>4, <2>1, PageTableTypes
    <3>2. \A s, u \in Slots : r.pdir[s] = r.pdir[u] /\ r.pdir[s] # NoPage => s = u
      BY <1>4, <2>2, <3>1
    <3>3. \A s \in Slots : r.pdir[s] # NoPage => r.bitmap[r.pdir[s]]
      BY <1>4, <2>2, <2>4, <2>6
    <3> QED
      BY <3>2, <3>3 DEF OneTable
  <2>8. \A p \in Pages : get_mapping(r.pdir, r.ptab, p) =
                             IF p = page THEN e ELSE get_mapping(pd, pt, p)
    BY <1>6, PageSlot DEF InsertedIn
  <2>9. r.ok /\ r.ptab \in RawTables
    BY <1>6 DEF InsertedIn
  <2> QED
    BY <2>1, <2>2, <2>3, <2>5, <2>7, <2>8, <2>9 DEF Opened
<1> QED
  BY <1>5, <1>6

\* What is said of the file does not change with the state.
LEMMA SameFile ==
    ASSUME image' = image
    PROVE  /\ Loaded' = Loaded
           /\ \A k : /\ H(k)' = H(k) /\ End(k)' = End(k) /\ FileEnd(k)' = FileEnd(k)
                     /\ (Sound(k)' <=> Sound(k))
                     /\ SegPages(k)' = SegPages(k) /\ ZeroPages(k)' = ZeroPages(k)
                     /\ Wiped(k)' = Wiped(k)
           /\ \A k, p : /\ FileFrame(k, p)' = FileFrame(k, p)
                        /\ (Unshared(k, p)' <=> Unshared(k, p))
  BY DEF Loaded, H, End, FileEnd, Sound, SegPages, ZeroPages, FilePages, PagesTo, Wiped,
         FileFrame, Unshared, BssBytes, BadHeader

\* Bytes only ever become zero, those of the file only where .bss lies.
Clears(before, after) ==
    /\ after \in [Memory -> [Offsets -> Nat]]
    /\ \A f \in Memory, o \in Offsets :
          after[f][o] = before[f][o] \/ after[f][o] = 0

Keeps(before, after) ==
    \A f \in Memory \ Frames, o \in Offsets : after[f][o] = before[f][o]

\* A fresh frame is cleared.
LEMMA ClearsFrame ==
    ASSUME NEW before \in [Memory -> [Offsets -> Nat]], NEW f \in Frames,
           NEW after, after = [before EXCEPT ![f] = [o \in Offsets |-> 0]]
    PROVE  Clears(before, after) /\ Keeps(before, after)
<1>1. \A g \in Memory : after[g] = IF g = f THEN [o \in Offsets |-> 0] ELSE before[g]
  OBVIOUS
<1>2. after \in [Memory -> [Offsets -> Nat]]
  OBVIOUS
<1> QED
  BY <1>1, <1>2 DEF Clears, Keeps

\* A segment that is finished stays so while the mappings of its pages stay.
LEMMA StaysFinished ==
    ASSUME image \in Images, image' = image, Finished,
           Clears(mem, mem'),
           NEW k \in Loaded, k < i,
           \A p \in SegPages(k) : Unshared(k, p) => Mapped(p)' = Mapped(p)
    PROVE  (/\ Sound(k)
            /\ \A p \in SegPages(k) : Unshared(k, p) => MappedFor(k, p)
            /\ \A a \in BssBytes(H(k)) :
                  Unshared(k, Floor(a)) /\ Mapped(Floor(a)).frame \in Memory =>
                      mem[Mapped(Floor(a)).frame][a % PageSize] = 0)'
<1>1. /\ Sound(k)
      /\ \A p \in SegPages(k) : Unshared(k, p) => MappedFor(k, p)
      /\ \A a \in BssBytes(H(k)) :
            Unshared(k, Floor(a)) /\ Mapped(Floor(a)).frame \in Memory =>
                mem[Mapped(Floor(a)).frame][a % PageSize] = 0
  BY DEF Finished
<1>2. ASSUME NEW p \in SegPages(k), Unshared(k, p) PROVE MappedFor(k, p)'
  <2>1. MappedFor(k, p) /\ Mapped(p)' = Mapped(p)
    BY <1>1, <1>2
  <2> QED
    BY <2>1, SameFile DEF MappedFor
<1>3. ASSUME NEW a \in BssBytes(H(k)), Unshared(k, Floor(a)),
             Mapped(Floor(a))'.frame \in Memory
      PROVE  mem'[Mapped(Floor(a))'.frame][a % PageSize] = 0
  <2>1. a \in SegBytes(k)
    BY Segment DEF BssBytes, SegBytes
  <2>2. Mapped(Floor(a))' = Mapped(Floor(a)) /\ a % PageSize \in Offsets
    BY <1>3, <2>1, SegmentByte
  <2>3. mem[Mapped(Floor(a)).frame][a % PageSize] = 0
    BY <1>1, <1>3, <2>2
  <2> QED
    BY <1>3, <2>2, <2>3 DEF Clears
<1>4. BssBytes(H(k))' = BssBytes(H(k)) /\ \A a : Floor(a)' = Floor(a)
  BY SameFile DEF BssBytes
<1> QED
  BY <1>1, <1>2, <1>3, <1>4, SameFile

LEMMA StaysKept ==
    ASSUME image' = image, FileKept, Keeps(mem, mem')
    PROVE  FileKept'
<1> SUFFICES ASSUME image.start = 0, NEW f \in Memory \ Frames, NEW o \in Offsets
             PROVE  \/ mem'[f][o] = ModByte(f * PageSize + o)
                    \/ \E n \in Loaded : (f * PageSize + o) - ModBase \in Wiped(n)
  BY SameFile DEF FileKept, ModByte
<1>1. mem'[f][o] = mem[f][o]
  BY DEF Keeps
<1> QED
  BY <1>1 DEF FileKept

LEMMA PageFilled ==
    ASSUME image \in Images, Filled, pc = "pages", msize > 0,
           NEW frame \in Nat, NEW taken, Takes(bitmap, taken, frame),
           fsize > 0 => frame = phys,
           fsize = 0 => frame \in Frames,
           MapPage(taken, frame), pc' # "panic"
    PROVE  /\ Filled'
           /\ Opened(taken, pdir, ptab, virt, [frame |-> frame, writable |-> header.writable],
                     bitmap', pdir', ptab')
<1> USE LoaderTypes, PageTableTypes
<1> DEFINE e == [frame |-> frame, writable |-> header.writable]
<1>1. PICK r : r = insert_mapping(taken, pdir, ptab, virt, e)
  OBVIOUS
<1>2. /\ r.ok
      /\ bitmap' = r.bitmap /\ pdir' = r.pdir /\ ptab' = r.ptab
      /\ virt' = virt + 1 /\ msize' = msize - 1
      /\ fsize' = (IF fsize > 0 THEN fsize - 1 ELSE 0)
      /\ phys' = frame + 1
      /\ mem' = (IF frame < NumBits
                 THEN [mem EXCEPT ![frame] = [o \in Offsets |-> 0]] ELSE mem)
      /\ UNCHANGED <<image, pc, i, break_min>>
  BY <1>1 DEF MapPage, Panic
<1>3. /\ i \in Loaded /\ ~ BadHeader(H(i)) /\ Floor(H(i).addr) <= virt
      /\ virt + msize = End(i)
      /\ fsize = (IF virt < FileEnd(i) THEN FileEnd(i) - virt ELSE 0)
      /\ fsize > 0 => phys = FileFrame(i, virt)
      /\ \A p \in Floor(H(i).addr) .. virt - 1 : MappedFor(i, p)
  BY DEF Filled, Current
<1>4. /\ virt \in Nat /\ msize \in Nat /\ fsize \in Nat /\ i \in Nat
      /\ bitmap \in Bitmaps /\ pdir \in Directory /\ ptab \in RawTables
  BY DEF Filled, Shapes
<1>5. /\ End(i) \in Nat /\ FileEnd(i) \in Nat /\ Floor(H(i).addr) \in Nat
      /\ FileEnd(i) <= End(i)
  BY <1>3, Segment, FileExtent
<1>6. virt \in SegPages(i)
  BY <1>3, <1>4, <1>5 DEF SegPages, PagesTo, End
<1>7. virt \in Pages
  BY <1>3, <1>6, SegmentPage
<1>8. e \in RawEntries /\ e.frame = frame /\ e.writable = H(i).writable
  <2>1. header = H(i) /\ H(i) \in Header
    BY <1>3, Segment DEF header, H
  <2> QED
    BY <2>1 DEF RawEntries, Header
<1> HIDE DEF e
<1>9. Opened(taken, pdir, ptab, virt, e, bitmap', pdir', ptab')
  <2>1. OneTable(bitmap, pdir)
    BY DEF Filled
  <2>2. r.ok /\ Opened(taken, pdir, ptab, virt, e, r.bitmap, r.pdir, r.ptab)
    BY <1>1, <1>2, <1>4, <1>7, <1>8, <2>1, Opens DEF NotInserted
  <2> QED
    BY <1>2, <2>2
<1>10. \A p \in Pages : Mapped(p)' = IF p = virt THEN e ELSE Mapped(p)
  BY <1>9 DEF Opened, Mapped
<1>11. Shapes' /\ OneTable(bitmap, pdir)'
  <2>1. virt' \in Nat /\ msize' \in Nat /\ fsize' \in Nat /\ phys' \in Nat
    BY <1>2, <1>4
  <2> QED
    BY <1>2, <1>9, <2>1 DEF Filled, Shapes, Opened, OneTable
<1>12. Clears(mem, mem') /\ Keeps(mem, mem')
  <2>1. mem \in [Memory -> [Offsets -> Nat]]
    BY DEF Filled
  <2>2. CASE frame < NumBits
    <3>1. frame \in Frames
      BY <2>2 DEF Frames, Bits
    <3> QED
      BY <1>2, <2>1, <2>2, <3>1, ClearsFrame
  <2>3. CASE ~(frame < NumBits)
    BY <1>2, <2>1, <2>3 DEF Clears, Keeps
  <2> QED
    BY <2>2, <2>3
<1>13. ASSUME NEW p, p = virt PROVE MappedFor(i, p)'
  <2>1. Mapped(p)' = e
    BY <1>7, <1>10, <1>13
  <2>2. IF p < FileEnd(i) THEN frame = FileFrame(i, p) ELSE frame \in Frames
    BY <1>3, <1>4, <1>5, <1>13
  <2> QED
    BY <1>2, <1>8, <2>1, <2>2, SameFile DEF MappedFor
<1>14. Current'
  <2>1. /\ Floor(H(i).addr) <= virt' /\ virt' + msize' = End(i)
        /\ fsize' = (IF virt' < FileEnd(i) THEN FileEnd(i) - virt' ELSE 0)
    BY <1>2, <1>3, <1>4, <1>5
  <2>2. ASSUME fsize' > 0 PROVE phys' = FileFrame(i, virt')
    <3>1. fsize > 0 /\ frame = FileFrame(i, virt)
      BY <1>2, <1>3, <1>4, <2>2
    <3>2. Floor(H(i).offs + ModBase + image.start) \in Nat
      BY <1>3, FirstFilePage
    <3> QED
      BY <1>2, <1>4, <1>5, <3>1, <3>2 DEF FileFrame
  <2>3. ASSUME NEW p \in Floor(H(i).addr) .. virt' - 1 PROVE MappedFor(i, p)'
    <3>1. CASE p = virt
      BY <1>13, <3>1
    <3>2. CASE p # virt
      <4>1. p \in Floor(H(i).addr) .. virt - 1
        BY <1>2, <1>4, <1>5, <3>2
      <4>2. MappedFor(i, p) /\ p \in SegPages(i)
        BY <1>3, <1>4, <1>5, <4>1 DEF SegPages, PagesTo, End
      <4>3. Mapped(p)' = Mapped(p)
        BY <1>3, <1>10, <3>2, <4>2, SegmentPage
      <4> QED
        BY <1>2, <4>2, <4>3, SameFile DEF MappedFor
    <3> QED
      BY <3>1, <3>2
  <2>4. Floor(H(i).addr)' = Floor(H(i).addr)
    BY <1>2, SameFile
  <2>5. (~ BadHeader(H(i)))' /\ i' \in Loaded'
    BY <1>2, <1>3, SameFile DEF BadHeader
  <2>6. /\ End(i)' = End(i) /\ FileEnd(i)' = FileEnd(i)
        /\ FileFrame(i, virt)' = FileFrame(i, virt')
        /\ H(i)' = H(i) /\ i' = i
    BY <1>2 DEF End, FileEnd, FileFrame, H
  <2> QED
    BY <2>1, <2>2, <2>3, <2>4, <2>5, <2>6 DEF Current, MappedFor
<1>15. Finished'
  <2>1. ASSUME NEW k \in Loaded, k < i
        PROVE  \A p \in SegPages(k) : Unshared(k, p) => Mapped(p)' = Mapped(p)
    <3>1. \A p \in SegPages(k) : Unshared(k, p) => p # virt
      BY <1>3, <1>4, <1>6, <2>1 DEF Unshared
    <3> QED
      BY <1>10, <3>1, SegmentPage
  <2>2. Finished
    BY DEF Filled
  <2>3. i' = i /\ Loaded' = Loaded
    BY <1>2, SameFile
  <2> QED
    BY <1>2, <1>12, <2>1, <2>2, <2>3, StaysFinished DEF Finished
<1>16. FileKept'
  BY <1>2, <1>12, StaysKept DEF Filled
<1>17. Checked'
  BY <1>2 DEF Filled, Checked
<1> QED
  BY <1>9, <1>11, <1>12, <1>14, <1>15, <1>16, <1>17 DEF Filled, Clears, e

LEMMA InitFilled == Init => FInv
<1> SUFFICES ASSUME Init PROVE FInv
  OBVIOUS
<1> USE PageTableTypes, LoaderTypes
<1>1. /\ image \in Images /\ pc = "multiboot" /\ i = 1 /\ break_min = 0
      /\ virt = 0 /\ phys = 0 /\ fsize = 0 /\ msize = 0
      /\ bitmap = [f \in Frames |-> f \in KernelFrames]
      /\ pdir = [s \in Slots |-> NoPage]
      /\ ptab = [f \in Frames |-> EmptyTable]
      /\ mem = [f \in Memory |-> [o \in Offsets |->
                   IF f < NumBits THEN Dirty ELSE ModByte(f * PageSize + o)]]
  BY DEF Init
<1>2. bitmap \in Bitmaps /\ pdir \in Directory /\ ptab \in RawTables
  BY <1>1 DEF Bitmaps, Frames, Directory, RawTables, EmptyTable
<1>3. Len(image.headers) \in Nat
  BY <1>1 DEF ImageOK
<1>4. Shapes
  BY <1>1, <1>2, <1>3 DEF Shapes
<1>5. ASSUME NEW f \in Memory, NEW o \in Offsets
      PROVE  (IF f < NumBits THEN Dirty ELSE ModByte(f * PageSize + o)) \in Nat
  <2>1. Dirty \in Nat
    BY DEF Dirty
  <2>2. ASSUME ~(f < NumBits) PROVE ModByte(f * PageSize + o) \in Nat
    <3>1. f \in Nat /\ f - NumBits \in Nat /\ o \in Nat
      BY <2>2 DEF Memory, Offsets
    <3>2. f * PageSize - ModBase = (f - NumBits) * PageSize
      BY <3>1 DEF ModBase
    <3>3. (f - NumBits) * PageSize \in Nat /\ f * PageSize \in Nat
      BY <3>1
    <3> QED
      BY <3>1, <3>2, <3>3 DEF ModByte
  <2> QED
    BY <2>1, <2>2
<1>6. mem \in [Memory -> [Offsets -> Nat]]
  <2> DEFINE b(f, o) == IF f < NumBits THEN Dirty ELSE ModByte(f * PageSize + o)
  <2>1. \A f \in Memory, o \in Offsets : b(f, o) \in Nat
    BY <1>5
  <2>2. mem = [f \in Memory |-> [o \in Offsets |-> b(f, o)]]
    BY <1>1
  <2> HIDE DEF b
  <2> QED
    BY <2>1, <2>2
<1>7. FileKept
  <2>1. ASSUME NEW f \in Memory \ Frames, NEW o \in Offsets
        PROVE  mem[f][o] = ModByte(f * PageSize + o)
    <3>1. ~(f < NumBits)
      BY DEF Memory, Frames, Bits
    <3> QED
      BY <1>1, <3>1
  <2> QED
    BY <2>1 DEF FileKept
<1>8. OneTable(bitmap, pdir) /\ Current /\ Checked
  BY <1>1 DEF OneTable, Current, Checked
<1>9. Finished
  <2>1. \A k \in Loaded : k \in 1 .. Len(image.headers)
    BY <1>1, Segment
  <2>2. \A k \in Loaded : ~(k < i)
    BY <1>1, <1>3, <2>1
  <2> QED
    BY <2>2 DEF Finished
<1> QED
  BY <1>1, <1>4, <1>6, <1>7, <1>8, <1>9 DEF FInv, Filled

\* remap shows the megabyte asked for when it is the first of its four.
LEMMA RemapFirst ==
    ASSUME NEW n \in Nat, remap(n) = n
    PROVE  n % 4 = 0
  BY DEF remap

LEMMA CheckFilled ==
    ASSUME image \in Images, Filled, CheckMultiboot \/ CheckELF, pc' # "panic"
    PROVE  Filled'
<1>1. /\ UNCHANGED <<image, locals, tables, mem, break_min>>
      /\ \/ pc = "multiboot" /\ pc' = "elf" /\ image.modules
         \/ /\ pc = "elf" /\ pc' = "headers"
            /\ remap(image.mega) = image.mega /\ image.elf
  BY DEF CheckMultiboot, CheckELF, Panic
<1>2. image.mega \in Nat
  BY LoaderTypes DEF ImageOK
<1>3. Checked'
  BY <1>1, <1>2, RemapFirst DEF Filled, Checked
<1>4. Shapes' /\ OneTable(bitmap, pdir)' /\ mem' \in [Memory -> [Offsets -> Nat]]
  BY <1>1 DEF Filled, Shapes, OneTable, locals, tables
<1>5. Current'
  BY <1>1 DEF Current
<1>6. Clears(mem, mem') /\ Keeps(mem, mem')
  BY <1>1, <1>4 DEF Clears, Keeps
<1>7. Finished'
  <2>1. i' = i /\ Finished /\ \A p : Mapped(p)' = Mapped(p)
    BY <1>1 DEF locals, tables, Mapped, Filled
  <2> QED
    BY <1>1, <1>6, <2>1, SameFile, StaysFinished DEF Finished
<1>8. FileKept'
  BY <1>1, <1>6, StaysKept DEF Filled
<1> QED
  BY <1>3, <1>4, <1>5, <1>7, <1>8 DEF Filled

LEMMA SkipFilled ==
    ASSUME image \in Images, Filled, SkipHeader
    PROVE  Filled'
<1>1. /\ UNCHANGED <<image, pc, virt, phys, fsize, msize, tables, mem, break_min>>
      /\ pc = "headers" /\ i <= Len(image.headers) /\ i' = i + 1 /\ i \notin Loaded
  BY DEF SkipHeader, Loaded, H, header
<1>2. Len(image.headers) \in Nat /\ i \in 1 .. Len(image.headers) + 1
  BY LoaderTypes DEF Filled, Shapes, ImageOK
<1>3. Shapes' /\ OneTable(bitmap, pdir)' /\ mem' \in [Memory -> [Offsets -> Nat]]
  BY <1>1, <1>2 DEF Filled, Shapes, OneTable, tables
<1>4. Current' /\ Checked'
  BY <1>1 DEF Filled, Current, Checked
<1>5. Clears(mem, mem') /\ Keeps(mem, mem')
  BY <1>1, <1>3 DEF Clears, Keeps
<1>6. Finished'
  <2>1. Finished /\ \A p : Mapped(p)' = Mapped(p)
    BY <1>1 DEF tables, Mapped, Filled
  <2>2. \A k \in Loaded : k < i + 1 => k < i
    BY <1>1, <1>2, Segment
  <2> QED
    BY <1>1, <1>5, <2>1, <2>2, SameFile, StaysFinished DEF Finished
<1>7. FileKept'
  BY <1>1, <1>5, StaysKept DEF Filled
<1> QED
  BY <1>3, <1>4, <1>6, <1>7 DEF Filled

LEMMA StartFilled ==
    ASSUME image \in Images, Filled, StartSegment, pc' # "panic"
    PROVE  Filled'
<1>1. /\ pc = "headers" /\ pc' = "pages" /\ i \in Loaded /\ ~ BadHeader(H(i))
      /\ UNCHANGED <<image, i, tables, mem, break_min>>
      /\ virt' = Floor(H(i).addr)
      /\ phys' = Floor(H(i).offs + ModBase + image.start)
      /\ fsize' = Ceil((H(i).addr % PageSize) + H(i).fsize)
      /\ msize' = Ceil((H(i).addr % PageSize) + H(i).msize)
  <2>1. i \in Nat /\ i >= 1
    BY DEF Filled, Shapes
  <2> QED
    BY <2>1 DEF StartSegment, Panic, H, header, Loaded, Filled, Shapes
<1>2. /\ FileEnd(i) \in Nat /\ End(i) \in Nat /\ Floor(H(i).addr) \in Nat
      /\ Floor(H(i).addr) <= FileEnd(i) /\ Floor(H(i).addr) <= End(i)
      /\ Floor(H(i).addr) + Ceil((H(i).addr % PageSize) + H(i).fsize) = FileEnd(i)
      /\ Floor(H(i).addr) + Ceil((H(i).addr % PageSize) + H(i).msize) = End(i)
  BY <1>1, Segment, FileExtent
<1>3. fsize' \in Nat /\ msize' \in Nat /\ phys' \in Nat
  <2>1. H(i).addr \in Nat /\ H(i).fsize \in Nat /\ H(i).msize \in Nat
    BY <1>1, Segment
  <2>2. fsize' \in Nat /\ msize' \in Nat
    BY <1>1, <2>1, SegmentPages
  <2> QED
    BY <1>1, <2>2, FirstFilePage, PageTableTypes
<1>4. /\ fsize' = FileEnd(i) - Floor(H(i).addr) /\ msize' = End(i) - Floor(H(i).addr)
  BY <1>1, <1>2, <1>3
<1>5. phys' = FileFrame(i, Floor(H(i).addr))
  BY <1>1, <1>2, <1>3 DEF FileFrame
<1>6. Shapes' /\ OneTable(bitmap, pdir)' /\ mem' \in [Memory -> [Offsets -> Nat]]
  BY <1>1, <1>2, <1>3 DEF Filled, Shapes, OneTable, tables
<1>7. Current'
  <2>1. /\ i' \in Loaded' /\ i' = i /\ (~ BadHeader(H(i)))'
        /\ Floor(H(i).addr)' = virt' /\ End(i)' = End(i) /\ FileEnd(i)' = FileEnd(i)
        /\ FileFrame(i, virt)' = phys'
    BY <1>1, <1>5 DEF Loaded, H, BadHeader, End, FileEnd, FileFrame
  <2>2. /\ virt' + msize' = End(i)
        /\ fsize' = IF virt' < FileEnd(i) THEN FileEnd(i) - virt' ELSE 0
    BY <1>1, <1>2, <1>4
  <2>3. Floor(H(i).addr) .. virt' - 1 = {}
    BY <1>1, <1>2
  <2>4. virt' <= virt'
    BY <1>1, <1>2
  <2> QED
    BY <1>1, <2>1, <2>2, <2>3, <2>4 DEF Current
<1>8. Clears(mem, mem') /\ Keeps(mem, mem')
  BY <1>1, <1>6 DEF Clears, Keeps
<1>9. Finished'
  <2>1. Finished /\ \A p : Mapped(p)' = Mapped(p)
    BY <1>1 DEF tables, Mapped, Filled
  <2> QED
    BY <1>1, <1>8, <2>1, SameFile, StaysFinished DEF Finished
<1>10. FileKept' /\ Checked'
  BY <1>1, <1>8, StaysKept DEF Filled, Checked
<1> QED
  BY <1>6, <1>7, <1>9, <1>10 DEF Filled

LEMMA FilePageBounds ==
    ASSUME image \in Images, Filled, pc = "pages", fsize > 0
    PROVE  phys = FileFrame(i, virt) /\ phys \notin Frames /\ msize > 0
<1>1. /\ i \in Loaded /\ ~ BadHeader(H(i)) /\ virt + msize = End(i)
      /\ Floor(H(i).addr) <= virt
      /\ fsize = (IF virt < FileEnd(i) THEN FileEnd(i) - virt ELSE 0)
      /\ phys = FileFrame(i, virt)
      /\ virt \in Nat /\ msize \in Nat /\ phys \in Nat
  BY DEF Filled, Current, Shapes
<1>2. msize > 0
  <2>1. FileEnd(i) \in Nat /\ FileEnd(i) <= End(i) /\ End(i) \in Nat
    BY <1>1, FileExtent, Segment
  <2> QED
    BY <1>1, <2>1
<1>3. phys >= NumBits
  <2>1. Floor(H(i).addr) \in Nat
    BY <1>1, Segment
  <2> QED
    BY <1>1, <2>1, FirstFilePage, PageTableTypes DEF FileFrame
<1> QED
  BY <1>1, <1>2, <1>3, PageTableTypes DEF Frames, Bits

LEMMA FilePageFilled ==
    ASSUME image \in Images, Filled, MapFilePage, pc' # "panic"
    PROVE  /\ Filled'
           /\ Opened(bitmap, pdir, ptab, virt, [frame |-> phys, writable |-> header.writable],
                     bitmap', pdir', ptab')
<1>1. pc = "pages" /\ fsize > 0 /\ MapPage(bitmap, phys)
  BY DEF MapFilePage
<1>2. phys \notin Frames /\ msize > 0
  BY <1>1, FilePageBounds
<1>3. PICK frame, taken : frame = phys /\ taken = bitmap
  OBVIOUS
<1>4. MapPage(taken, frame)
  BY <1>1, <1>3 DEF MapPage
<1>5. frame \in Nat /\ Takes(bitmap, taken, frame)
  BY <1>2, <1>3 DEF Filled, Shapes, Takes
<1> QED
  BY <1>1, <1>2, <1>3, <1>4, <1>5, PageFilled

LEMMA ZeroPageFilled ==
    ASSUME image \in Images, Filled, MapZeroPage, pc' # "panic"
    PROVE  /\ Filled'
           /\ \E frame, taken :
                 /\ frame \in Frames
                 /\ Takes(bitmap, taken, frame)
                 /\ Opened(taken, pdir, ptab, virt,
                           [frame |-> frame, writable |-> header.writable],
                           bitmap', pdir', ptab')
<1> DEFINE f == alloc_page(bitmap)
           b == mark_page_allocated(bitmap, f, TRUE)
<1>1. pc = "pages" /\ msize > 0 /\ fsize = 0 /\ f # NoPage /\ MapPage(b, f)
  BY DEF MapZeroPage, Panic
<1>2. f \in Frames /\ ~bitmap[f] /\ f \in Nat
  <2>1. f \in Frames /\ ~bitmap[f]
    BY <1>1, AllocPage DEF Filled, Shapes
  <2> QED
    BY <2>1 DEF Frames, Bits
<1>3. Takes(bitmap, b, f)
  BY <1>2 DEF mark_page_allocated, Takes
<1> HIDE DEF f, b
<1>4. PICK frame, taken : frame = f /\ taken = b
  OBVIOUS
<1>5. MapPage(taken, frame)
  BY <1>1, <1>4 DEF MapPage
<1>6. frame \in Frames /\ frame \in Nat /\ Takes(bitmap, taken, frame)
  BY <1>2, <1>3, <1>4
<1>7. /\ Filled'
      /\ Opened(taken, pdir, ptab, virt, [frame |-> frame, writable |-> header.writable],
                bitmap', pdir', ptab')
  BY <1>1, <1>5, <1>6, PageFilled
<1> QED
  BY <1>6, <1>7

\* memset clears a page of the file only where the segment's own bytes end.
LEMMA ClearsBehind ==
    ASSUME image \in Images, image.start = 0, Filled, pc = "pages", msize = 0,
           NEW f \in Memory \ Frames, NEW o \in Offsets,
           NEW a \in BssBytes(H(i)), Mapped(Floor(a)).frame = f, a % PageSize = o
    PROVE  (f * PageSize + o) - ModBase \in Wiped(i)
<1>1. /\ i \in Loaded /\ ~ BadHeader(H(i)) /\ virt + msize = End(i)
      /\ \A p \in Floor(H(i).addr) .. virt - 1 : MappedFor(i, p)
      /\ virt \in Nat
  BY DEF Filled, Current, Shapes
<1>2. a \in SegBytes(i)
  BY <1>1, Segment DEF BssBytes, SegBytes
<1>3. Floor(a) \in SegPages(i) /\ a \in Nat
  BY <1>1, <1>2, SegmentByte
<1>4. SegPages(i) = Floor(H(i).addr) .. virt - 1
  BY <1>1 DEF SegPages, PagesTo, End
<1>5. MappedFor(i, Floor(a))
  BY <1>1, <1>3, <1>4
<1>6. Floor(a) < FileEnd(i) /\ f = FileFrame(i, Floor(a))
  BY <1>5 DEF MappedFor
<1>7. f * PageSize + o = ModBase + H(i).offs + (a - H(i).addr)
  BY <1>1, <1>2, <1>6, FilePlace
<1>8. Floor(a) \in FilePages(i)
  <2>1. /\ Floor(H(i).addr) <= Floor(a) /\ Floor(a) \in Nat
        /\ Floor(H(i).addr) \in Nat /\ FileEnd(i) \in Nat
    BY <1>1, <1>3, SegmentPage, Segment, FileExtent
  <2> QED
    BY <1>6, <2>1 DEF FilePages, PagesTo, FileEnd
<1>9. (f * PageSize + o) - ModBase = H(i).offs + (a - H(i).addr)
  <2>1. PICK x : x = f * PageSize + o
    OBVIOUS
  <2>2. x = ModBase + H(i).offs + (a - H(i).addr)
    BY <1>7, <2>1
  <2>3. /\ H(i).offs \in Nat /\ H(i).addr \in Nat /\ a \in Nat /\ ModBase \in Nat
    BY <1>1, <1>3, Segment, LoaderTypes
  <2>4. x - ModBase = H(i).offs + (a - H(i).addr)
    BY <2>2, <2>3
  <2> QED
    BY <2>1, <2>4
<1> QED
  BY <1>8, <1>9 DEF Wiped

LEMMA EndFilled ==
    ASSUME image \in Images, Filled, EndSegment, pc' # "panic"
    PROVE  Filled'
<1> USE LoaderTypes
<1>1. /\ pc = "pages" /\ msize = 0 /\ pc' = "headers"
      /\ BssBytes(header) = {} \/ header.writable
      /\ mem' = Zeroed /\ break_min' = virt /\ i' = i + 1
      /\ UNCHANGED <<image, virt, phys, fsize, msize, tables>>
  BY DEF EndSegment, Panic
<1>2. PICK j : j = i
  OBVIOUS
<1>3. /\ j \in Loaded /\ ~ BadHeader(H(j)) /\ virt + msize = End(j) /\ header = H(j)
      /\ \A p \in Floor(H(j).addr) .. virt - 1 : MappedFor(j, p)
      /\ virt \in Nat
  BY <1>1, <1>2 DEF Filled, Current, Shapes, header, H
<1>4. j \in 1 .. Len(image.headers) /\ Len(image.headers) \in Nat
  BY <1>3, Segment
<1>5. SegPages(j) = Floor(H(j).addr) .. virt - 1
  BY <1>1, <1>3 DEF SegPages, PagesTo, End
<1>6. \A p : Mapped(p)' = Mapped(p)
  BY <1>1 DEF Mapped, tables
<1>7. /\ mem \in [Memory -> [Offsets -> Nat]]
      /\ \A f \in Memory, o \in Offsets : mem'[f][o] =
            IF \E a \in BssBytes(H(j)) : Mapped(Floor(a)).frame = f /\ a % PageSize = o
            THEN 0 ELSE mem[f][o]
  BY <1>1, <1>3 DEF Zeroed, Filled
<1>8. mem' \in [Memory -> [Offsets -> Nat]]
  <2> DEFINE b(f, o) ==
        IF \E a \in BssBytes(H(j)) : Mapped(Floor(a)).frame = f /\ a % PageSize = o
        THEN 0 ELSE mem[f][o]
  <2>1. \A f \in Memory, o \in Offsets : b(f, o) \in Nat
    BY <1>7
  <2>2. mem' = [f \in Memory |-> [o \in Offsets |-> b(f, o)]]
    BY <1>1, <1>3 DEF Zeroed
  <2> HIDE DEF b
  <2> QED
    BY <2>1, <2>2
<1>9. Clears(mem, mem')
  BY <1>7, <1>8 DEF Clears
<1>10. Shapes' /\ OneTable(bitmap, pdir)'
  BY <1>1, <1>2, <1>3, <1>4 DEF Filled, Shapes, OneTable, tables
<1>11. Current' /\ Checked'
  BY <1>1 DEF Filled, Current, Checked
<1>12. FileKept'
  <2>1. SUFFICES ASSUME image.start = 0, NEW f \in Memory \ Frames, NEW o \in Offsets
                 PROVE  \/ mem'[f][o] = ModByte(f * PageSize + o)
                        \/ \E n \in Loaded : (f * PageSize + o) - ModBase \in Wiped(n)
    BY <1>1, SameFile DEF FileKept, ModByte
  <2>2. CASE \E a \in BssBytes(H(j)) : Mapped(Floor(a)).frame = f /\ a % PageSize = o
    BY <1>1, <1>2, <1>3, <2>1, <2>2, ClearsBehind
  <2>3. CASE mem'[f][o] = mem[f][o]
    BY <2>1, <2>3 DEF Filled, FileKept
  <2> QED
    BY <1>7, <2>2, <2>3
<1>13. Finished'
  <2>1. \A k \in Loaded : k < i + 1 => k < i \/ k = j
    BY <1>2, <1>4, Segment
  <2>2. ASSUME NEW k \in Loaded, k < i
        PROVE  (/\ Sound(k)
                /\ \A p \in SegPages(k) : Unshared(k, p) => MappedFor(k, p)
                /\ \A a \in BssBytes(H(k)) :
                      Unshared(k, Floor(a)) /\ Mapped(Floor(a)).frame \in Memory =>
                          mem[Mapped(Floor(a)).frame][a % PageSize] = 0)'
    BY <1>1, <1>6, <1>9, <2>2, StaysFinished DEF Filled
  <2>3. Sound(j)'
    BY <1>1, <1>3, SameFile DEF Sound
  <2>4. \A p \in SegPages(j) : MappedFor(j, p)'
    BY <1>1, <1>3, <1>5, <1>6, SameFile DEF MappedFor
  <2>5. ASSUME NEW a \in BssBytes(H(j)), Mapped(Floor(a)).frame \in Memory
        PROVE  mem'[Mapped(Floor(a)).frame][a % PageSize] = 0
    <3>1. a \in SegBytes(j)
      BY <1>3, Segment DEF BssBytes, SegBytes
    <3>2. a % PageSize \in Offsets
      BY <1>3, <3>1, SegmentByte
    <3> QED
      BY <1>7, <2>5, <3>2
  <2>6. BssBytes(H(j))' = BssBytes(H(j)) /\ \A a : Floor(a)' = Floor(a)
    BY <1>1, SameFile DEF BssBytes
  <2>7. (/\ Sound(j)
         /\ \A p \in SegPages(j) : Unshared(j, p) => MappedFor(j, p)
         /\ \A a \in BssBytes(H(j)) :
               Unshared(j, Floor(a)) /\ Mapped(Floor(a)).frame \in Memory =>
                   mem[Mapped(Floor(a)).frame][a % PageSize] = 0)'
    BY <1>1, <1>6, <2>3, <2>4, <2>5, <2>6, SameFile
  <2> QED
    BY <1>1, <2>1, <2>2, <2>7, SameFile DEF Finished
<1> QED
  BY <1>8, <1>10, <1>11, <1>12, <1>13 DEF Filled

LEMMA StackFilled ==
    ASSUME image \in Images, Filled, MapStack, pc' # "panic"
    PROVE  /\ Filled'
           /\ \E frame, taken :
                 /\ frame \in Frames
                 /\ Takes(bitmap, taken, frame)
                 /\ Opened(taken, pdir, ptab, StackPage, [frame |-> frame, writable |-> TRUE],
                           bitmap', pdir', ptab')
<1> USE LoaderTypes, PageTableTypes
<1> DEFINE f == alloc_page(bitmap)
           taken == mark_page_allocated(bitmap, f, TRUE)
           e == [frame |-> f, writable |-> TRUE]
<1>1. PICK r : r = insert_mapping(taken, pdir, ptab, StackPage, e)
  OBVIOUS
<1>2. /\ pc = "headers" /\ i > Len(image.headers) /\ f # NoPage /\ r.ok
      /\ bitmap' = r.bitmap /\ pdir' = r.pdir /\ ptab' = r.ptab
      /\ mem' = [mem EXCEPT ![f] = [o \in Offsets |-> 0]]
      /\ pc' = "user" /\ UNCHANGED <<image, locals, break_min>>
  BY <1>1 DEF MapStack, Panic
<1>3. /\ bitmap \in Bitmaps /\ pdir \in Directory /\ ptab \in RawTables
      /\ i \in 1 .. Len(image.headers) + 1 /\ Len(image.headers) \in Nat
      /\ mem \in [Memory -> [Offsets -> Nat]] /\ OneTable(bitmap, pdir)
  BY DEF Filled, Shapes, ImageOK
<1>4. f \in Frames /\ ~bitmap[f] /\ f \in Nat
  <2>1. f \in Frames /\ ~bitmap[f]
    BY <1>2, <1>3, AllocPage
  <2> QED
    BY <2>1 DEF Frames, Bits
<1>5. Takes(bitmap, taken, f)
  BY <1>4 DEF mark_page_allocated, Takes
<1>6. e \in RawEntries
  BY <1>4 DEF RawEntries
<1> HIDE DEF taken, f
<1>7. Opened(taken, pdir, ptab, StackPage, e, bitmap', pdir', ptab')
  <2> HIDE DEF e
  <2>1. r.ok /\ Opened(taken, pdir, ptab, StackPage, e, r.bitmap, r.pdir, r.ptab)
    BY <1>1, <1>2, <1>3, <1>5, <1>6, PageSlot, Opens DEF NotInserted
  <2> QED
    BY <1>2, <2>1
<1>8. Clears(mem, mem') /\ Keeps(mem, mem')
  BY <1>2, <1>3, <1>4, ClearsFrame
<1>9. Shapes' /\ OneTable(bitmap, pdir)'
  BY <1>2, <1>7 DEF Filled, Shapes, Opened, OneTable, locals
<1>10. Current' /\ Checked'
  BY <1>2, <1>3 DEF Filled, Current, Checked, locals
<1>11. Finished'
  <2>1. i' = i /\ Finished
    BY <1>2 DEF Filled, locals
  <2>2. \A p \in Pages : p # StackPage => Mapped(p)' = Mapped(p)
    BY <1>7 DEF Opened, Mapped
  <2>3. \A k \in Loaded : \A p \in SegPages(k) : Mapped(p)' = Mapped(p)
    <3>1. \A k \in Loaded : \A p \in SegPages(k) : p \in Pages /\ p # StackPage
      BY SegmentPage
    <3> QED
      BY <2>2, <3>1
  <2> QED
    BY <1>2, <1>8, <2>1, <2>3, SameFile, StaysFinished DEF Finished
<1>12. FileKept'
  BY <1>2, <1>8, StaysKept DEF Filled
<1>13. Filled'
  BY <1>8, <1>9, <1>10, <1>11, <1>12 DEF Filled, Clears
<1> QED
  BY <1>4, <1>5, <1>7, <1>13

LEMMA StepFilled == FInv /\ [Next]_vars => FInv'
<1> SUFFICES ASSUME FInv, [Next]_vars PROVE FInv'
  OBVIOUS
<1>1. image' = image /\ image \in Images
  BY DEF FInv, Next, vars, CheckMultiboot, CheckELF, SkipHeader, StartSegment,
         MapFilePage, MapZeroPage, MapPage, EndSegment, MapStack, Panic
<1>2. SUFFICES ASSUME pc' # "panic" PROVE Filled'
  BY <1>1 DEF FInv
<1>3. CASE UNCHANGED vars
  <2>1. Filled
    BY <1>2, <1>3 DEF FInv, vars
  <2>2. UNCHANGED <<pc, i, virt, phys, fsize, msize, bitmap, pdir, ptab, mem, break_min>>
    BY <1>3 DEF vars, locals, tables
  <2>3. Clears(mem, mem') /\ Keeps(mem, mem')
    BY <2>1, <2>2 DEF Filled, Clears, Keeps
  <2>4. \A p : Mapped(p)' = Mapped(p)
    BY <2>2 DEF Mapped
  <2>5. Finished'
    BY <1>1, <2>1, <2>2, <2>3, <2>4, SameFile, StaysFinished DEF Finished, Filled
  <2>6. Current'
    BY <1>1, <2>1, <2>2, <2>4
    DEF Filled, Current, MappedFor, Loaded, H, BadHeader, End, FileEnd, FileFrame
  <2>7. Shapes' /\ OneTable(bitmap, pdir)' /\ Checked'
    BY <1>1, <2>1, <2>2 DEF Filled, Shapes, OneTable, Checked
  <2> QED
    BY <1>1, <2>1, <2>2, <2>3, <2>5, <2>6, <2>7, StaysKept DEF Filled
<1>4. CASE Next
  <2>1. Filled
    BY <1>4 DEF FInv, Next, CheckMultiboot, CheckELF, SkipHeader, StartSegment,
                MapFilePage, MapZeroPage, EndSegment, MapStack
  <2> QED
    BY <1>1, <1>2, <1>4, <2>1, CheckFilled, SkipFilled, StartFilled, FilePageFilled,
       ZeroPageFilled, EndFilled, StackFilled DEF Next
<1> QED
  BY <1>3, <1>4

\* Every segment the program sees, when the last header is done.
LEMMA FilledIsLoaded == FInv => ImageLoaded
<1> SUFFICES ASSUME FInv, pc = "user", image.start = 0,
                    NEW k \in Loaded, NEW a \in SegBytes(k), Unshared(k, Floor(a))
             PROVE  LET d == a - H(k).addr
                        entry == Mapped(Floor(a))
                        byte == mem[entry.frame][a % PageSize]
                    IN  /\ entry.writable = H(k).writable
                        /\ d >= H(k).fsize => byte = 0
                        /\ d < H(k).fsize =>
                               \/ byte = ModByte(ModBase + H(k).offs + d)
                               \/ \E n \in Loaded : H(k).offs + d \in Wiped(n)
  BY DEF ImageLoaded
<1> DEFINE p == Floor(a)
           o == a % PageSize
           d == a - H(k).addr
           f == Mapped(p).frame
<1>1. image \in Images /\ Filled
  BY DEF FInv
<1>2. /\ H(k).addr \in Nat /\ H(k).offs \in Nat /\ H(k).fsize \in Nat /\ H(k).msize \in Nat
      /\ k \in 1 .. Len(image.headers) /\ Len(image.headers) \in Nat
  BY <1>1, Segment
<1>3. /\ a \in Nat /\ p \in SegPages(k) /\ o \in Offsets
      /\ a < H(k).addr + H(k).fsize => p < FileEnd(k)
  BY <1>1, SegmentByte
<1>4. /\ a >= H(k).addr /\ a < H(k).addr + H(k).msize
  BY <1>2 DEF SegBytes
<1>5. /\ ~ BadHeader(H(k)) /\ MappedFor(k, p)
      /\ a \in BssBytes(H(k)) /\ f \in Memory => mem[f][o] = 0
  <2>1. k < i
    BY <1>1, <1>2 DEF Filled, Checked
  <2> QED
    BY <1>1, <1>3, <2>1 DEF Filled, Finished, Sound
<1>6. Mapped(p).writable = H(k).writable
  BY <1>5 DEF MappedFor
<1>7. p < FileEnd(k) => f = FileFrame(k, p) /\ f \in Memory \ Frames
  BY <1>1, <1>5, FilePlace DEF MappedFor
<1>8. f \in Memory
  <2>1. p < FileEnd(k) \/ f \in Frames
    BY <1>5 DEF MappedFor
  <2>2. Frames \subseteq Memory
    BY LoaderTypes, PageTableTypes DEF Frames, Bits, Memory
  <2> QED
    BY <1>7, <2>1, <2>2
<1>9. ASSUME d >= H(k).fsize PROVE mem[f][o] = 0
  <2>1. a \in BssBytes(H(k))
    BY <1>2, <1>3, <1>4, <1>9 DEF BssBytes
  <2> QED
    BY <1>5, <1>8, <2>1
<1>10. ASSUME d < H(k).fsize
       PROVE  \/ mem[f][o] = ModByte(ModBase + H(k).offs + d)
              \/ \E n \in Loaded : H(k).offs + d \in Wiped(n)
  <2>1. p < FileEnd(k)
    BY <1>2, <1>3, <1>10
  <2>2. f \in Memory \ Frames /\ f * PageSize + o = ModBase + H(k).offs + d
    BY <1>1, <1>5, <1>7, <2>1, FilePlace
  <2>3. \/ mem[f][o] = ModByte(f * PageSize + o)
        \/ \E n \in Loaded : (f * PageSize + o) - ModBase \in Wiped(n)
    BY <1>1, <1>3, <2>2 DEF Filled, FileKept
  <2>4. (ModBase + H(k).offs + d) - ModBase = H(k).offs + d
    BY <1>2, <1>3, LoaderTypes
  <2> QED
    BY <2>2, <2>3, <2>4
<1> QED
  BY <1>6, <1>9, <1>10

\* The invariant of root_invoke for every file: what the loop has mapped for
\* the segment it is in, what is left of the segments before it, and which
\* bytes of the file can have been cleared.
THEOREM FileInMemory == Spec => []FInv
<1>1. Init => FInv
  BY InitFilled
<1>2. FInv /\ [Next]_vars => FInv'
  BY StepFilled
<1> QED
  BY <1>1, <1>2, PTL DEF Spec

\* For every file that begins at a page, whatever its segments share,
\* root_invoke starts the program with each byte of an unshared page as the
\* file has it or zero, and writable as the file says; a byte of the file can
\* be lost only to the .bss of a segment that ends in the same page of the file.
THEOREM ProgramIsLoaded == Spec => []ImageLoaded
  BY FileInMemory, FilledIsLoaded, PTL

-----------------------------------------------------------------------------
(* What a file needs.  Every frame allocated since boot is the table of a   *)
(* slot that is needed, a page without bytes in the file, or the stack; so  *)
(* the pool runs out only for a file that needs more than it has.           *)

Done(p) ==
    \/ \E k \in Loaded : k < i /\ p \in SegPages(k)
    \/ pc = "pages" /\ Floor(H(i).addr) <= p /\ p < virt
    \/ pc = "user" /\ p = StackPage

Used(bm) == {f \in Frames : bm[f]}
Filling(pd) == {s \in Slots : pd[s] # NoPage}

NeededSlots == {Slot(p) : p \in {StackPage} \cup UNION {SegPages(k) : k \in Loaded}}

ZeroPairs == UNION {{<<k, p>> : p \in ZeroPages(k)} : k \in Loaded}
ZerosDone ==
    {z \in ZeroPairs : z[1] < i \/ (pc = "pages" /\ z[1] = i /\ z[2] < virt)}

Counted ==
    /\ \A s \in Slots : pdir[s] # NoPage <=> \E p \in Pages : Done(p) /\ Slot(p) = s
    /\ Cardinality(Used(bitmap)) =
           Cardinality(KernelFrames) + Cardinality(Filling(pdir))
           + Cardinality(ZerosDone) + (IF pc = "user" THEN 1 ELSE 0)

Fitting == WellFormed /\ Needed <= NumBits

CInv ==
    /\ pc # "panic" => Counted
    /\ pc = "panic" => ~ Fitting

LEMMA FiniteNeeds ==
    ASSUME image \in Images
    PROVE  /\ IsFiniteSet(Frames) /\ Cardinality(Frames) = NumBits
           /\ IsFiniteSet(KernelFrames)
           /\ IsFiniteSet(Slots)
           /\ NeededSlots \subseteq Slots /\ IsFiniteSet(NeededSlots)
           /\ IsFiniteSet(ZeroPairs)
<1> USE LoaderTypes, PageTableTypes
<1>1. IsFiniteSet(Frames) /\ Cardinality(Frames) = NumBits
  <2>1. 0 \in Int /\ NumBits - 1 \in Int
    OBVIOUS
  <2> QED
    BY <2>1, FS_Interval DEF Frames, Bits
<1>2. IsFiniteSet(KernelFrames)
  BY <1>1, FS_Subset
<1>3. IsFiniteSet(Slots)
  <2>1. 0 \in Int /\ NumSlots - 1 \in Int
    OBVIOUS
  <2> QED
    BY <2>1, FS_Interval DEF Slots
<1>4. NeededSlots \subseteq Slots
  BY PageSlot, SegmentPage DEF NeededSlots
<1>5. IsFiniteSet(NeededSlots)
  BY <1>3, <1>4, FS_Subset
<1>6. IsFiniteSet(ZeroPairs)
  <2> DEFINE n == Len(image.headers)
             P == (1 .. n) \X Pages
  <2>1. n \in Nat
    BY DEF ImageOK
  <2>2. IsFiniteSet(1 .. n) /\ IsFiniteSet(Pages)
    <3>1. 0 \in Int /\ 1 \in Int /\ n \in Int /\ StackPage \in Int
      BY <2>1
    <3> QED
      BY <3>1, FS_Interval DEF Pages
  <2>3. IsFiniteSet(P)
    BY <2>2, FS_Product
  <2>4. ZeroPairs \subseteq P
    <3>1. ASSUME NEW k \in Loaded, NEW p \in ZeroPages(k) PROVE <<k, p>> \in P
      <4>1. p \in SegPages(k)
        BY DEF ZeroPages
      <4> QED
        BY <4>1, Segment, SegmentPage
    <3> QED
      BY <3>1 DEF ZeroPairs
  <2> QED
    BY <2>3, <2>4, FS_Subset
<1> QED
  BY <1>1, <1>2, <1>3, <1>4, <1>5, <1>6

\* A file needs more frames than there are when those counted so far are all.
LEMMA TooFew ==
    ASSUME image \in Images,
           NEW D, D \subseteq NeededSlots,
           NEW Z, Z \subseteq ZeroPairs,
           Cardinality(KernelFrames) + Cardinality(D) + Cardinality(Z) >= NumBits
    PROVE  ~ Fitting
<1>1. /\ Cardinality(D) <= Cardinality(NeededSlots) /\ IsFiniteSet(D)
      /\ Cardinality(Z) <= Cardinality(ZeroPairs) /\ IsFiniteSet(Z)
  BY FiniteNeeds, FS_Subset
<1>2. /\ Cardinality(D) \in Nat /\ Cardinality(NeededSlots) \in Nat
      /\ Cardinality(Z) \in Nat /\ Cardinality(ZeroPairs) \in Nat
      /\ Cardinality(KernelFrames) \in Nat
  BY <1>1, FiniteNeeds, FS_CardinalityType
<1>3. Needed = Cardinality(KernelFrames) + Cardinality(NeededSlots)
                   + Cardinality(ZeroPairs) + 1
  BY DEF Needed, NeededSlots, ZeroPairs
<1>4. ~ (Needed <= NumBits)
  BY <1>1, <1>2, <1>3, PageTableTypes
<1> QED
  BY <1>4 DEF Fitting

\* The frames that mapping one page takes: its own, if it is one of the pool,
\* and one for each slot that gets a table.
LEMMA CountFrame ==
    ASSUME image \in Images,
           NEW bm \in Bitmaps, NEW taken, NEW f, Takes(bm, taken, f)
    PROVE  /\ IsFiniteSet(Used(bm)) /\ Cardinality(Used(bm)) \in Nat
           /\ Cardinality(Used(taken)) =
                  Cardinality(Used(bm)) + (IF f \in Frames THEN 1 ELSE 0)
<1>1. /\ IsFiniteSet(Used(bm)) /\ Cardinality(Used(bm)) \in Nat
  <2>1. Used(bm) \subseteq Frames
    BY DEF Used
  <2> QED
    BY <2>1, FiniteNeeds, FS_Subset, FS_CardinalityType
<1>2. CASE f \notin Frames
  BY <1>1, <1>2 DEF Takes
<1>3. CASE f \in Frames
  <2>1. f \notin Used(bm)
    BY <1>3 DEF Takes, Used
  <2>2. Used(taken) = Used(bm) \cup {f}
    BY <1>3, TakesFrame DEF Used
  <2>3. Cardinality(Used(bm) \cup {f}) = Cardinality(Used(bm)) + 1
    BY <1>1, <2>1, FS_AddElement
  <2> QED
    BY <1>1, <1>3, <2>2, <2>3
<1> QED
  BY <1>1, <1>2, <1>3

TableCounted(taken, pd, page, bm2, pd2) ==
    /\ \A s \in Slots : pd2[s] # NoPage <=> pd[s] # NoPage \/ s = Slot(page)
    /\ Cardinality(Filling(pd)) \in Nat /\ Cardinality(Filling(pd2)) \in Nat
    /\ Cardinality(Used(bm2)) = Cardinality(Used(taken))
           + (Cardinality(Filling(pd2)) - Cardinality(Filling(pd)))

LEMMA CountTable ==
    ASSUME image \in Images,
           NEW taken \in Bitmaps, NEW pd \in Directory, NEW pt,
           NEW page \in Pages, NEW e, NEW bm2, NEW pd2, NEW pt2,
           Opened(taken, pd, pt, page, e, bm2, pd2, pt2)
    PROVE  TableCounted(taken, pd, page, bm2, pd2)
<1> USE PageTableTypes
<1>1. PICK t \in Frames :
         /\ bm2 = [taken EXCEPT ![t] = TRUE]
         /\ pd2 = [pd EXCEPT ![Slot(page)] = t]
         /\ \/ pd[Slot(page)] = t /\ taken[t]
            \/ pd[Slot(page)] = NoPage /\ ~taken[t]
  BY DEF Opened
<1>2. Slot(page) \in Slots
  BY PageSlot
<1>3. \A s \in Slots : pd2[s] = IF s = Slot(page) THEN t ELSE pd[s]
  BY <1>1, <1>2 DEF Directory
<1>4. \A g \in Frames : bm2[g] <=> taken[g] \/ g = t
  BY <1>1, Zenon DEF Bitmaps, Frames
<1>5. Used(bm2) = Used(taken) \cup {t} /\ Filling(pd2) = Filling(pd) \cup {Slot(page)}
  BY <1>2, <1>3, <1>4 DEF Used, Filling
<1>6. IsFiniteSet(Used(taken)) /\ IsFiniteSet(Filling(pd))
  <2>1. Used(taken) \subseteq Frames /\ Filling(pd) \subseteq Slots
    BY DEF Used, Filling
  <2> QED
    BY <2>1, FiniteNeeds, FS_Subset
<1>7. /\ Cardinality(Used(taken)) \in Nat /\ Cardinality(Filling(pd)) \in Nat
      /\ Cardinality(Used(bm2)) =
            Cardinality(Used(taken)) + (IF t \in Used(taken) THEN 0 ELSE 1)
      /\ Cardinality(Filling(pd2)) =
            Cardinality(Filling(pd)) + (IF Slot(page) \in Filling(pd) THEN 0 ELSE 1)
  BY <1>5, <1>6, FS_CardinalityType, FS_AddElement
<1>8. t \in Used(taken) <=> Slot(page) \in Filling(pd)
  BY <1>1, <1>2 DEF Used, Filling
<1>9. \A s \in Slots : pd2[s] # NoPage <=> pd[s] # NoPage \/ s = Slot(page)
  BY <1>3
<1> QED
  BY <1>7, <1>8, <1>9 DEF TableCounted

\* A step that maps nothing and comes to no other page.
LEMMA StaysCounted ==
    ASSUME Counted, UNCHANGED <<bitmap, pdir>>, ZerosDone' = ZerosDone,
           \A p \in Pages : Done(p)' <=> Done(p),
           pc # "user", pc' # "user"
    PROVE  Counted'
<1>1. Used(bitmap)' = Used(bitmap) /\ Filling(pdir)' = Filling(pdir)
  BY DEF Used, Filling
<1> QED
  BY <1>1 DEF Counted

\* One that maps page, to a frame of the pool or (zero is 0) of the file.
LEMMA MapsCounted ==
    ASSUME image \in Images, image' = image, Filled, Counted,
           NEW taken, NEW f, Takes(bitmap, taken, f),
           NEW page \in Pages, NEW e,
           Opened(taken, pdir, ptab, page, e, bitmap', pdir', ptab'),
           \A p \in Pages : Done(p)' <=> Done(p) \/ p = page,
           NEW zero \in {0, 1}, Cardinality(ZerosDone') = Cardinality(ZerosDone) + zero,
           pc # "user",
           (IF f \in Frames THEN 1 ELSE 0) = zero + (IF pc' = "user" THEN 1 ELSE 0)
    PROVE  Counted'
<1>1. bitmap \in Bitmaps /\ pdir \in Directory /\ taken \in Bitmaps
  BY TakesFrame DEF Filled, Shapes
<1>2. /\ \A s \in Slots : pdir'[s] # NoPage <=> pdir[s] # NoPage \/ s = Slot(page)
      /\ Cardinality(Filling(pdir)) \in Nat /\ Cardinality(Filling(pdir')) \in Nat
      /\ Cardinality(Used(bitmap')) = Cardinality(Used(taken))
             + (Cardinality(Filling(pdir')) - Cardinality(Filling(pdir)))
  <2>1. PICK bm2, pd2, pt2 : bm2 = bitmap' /\ pd2 = pdir' /\ pt2 = ptab'
    OBVIOUS
  <2>2. Opened(taken, pdir, ptab, page, e, bm2, pd2, pt2)
    BY <2>1
  <2>3. TableCounted(taken, pdir, page, bm2, pd2)
    BY <1>1, <2>2, CountTable
  <2> QED
    BY <2>1, <2>3 DEF TableCounted
<1>3. /\ Cardinality(Used(bitmap)) \in Nat
      /\ Cardinality(Used(taken)) =
             Cardinality(Used(bitmap)) + (IF f \in Frames THEN 1 ELSE 0)
  BY <1>1, CountFrame
<1>4. \A s \in Slots : pdir'[s] # NoPage <=> \E p \in Pages : Done(p)' /\ Slot(p) = s
  BY <1>2 DEF Counted
<1>5. /\ Cardinality(KernelFrames) \in Nat
      /\ Cardinality(ZerosDone) \in Nat
  <2>1. ZerosDone \subseteq ZeroPairs
    BY DEF ZerosDone
  <2>2. IsFiniteSet(ZerosDone)
    BY <2>1, FiniteNeeds, FS_Subset
  <2> QED
    BY <2>2, FiniteNeeds, FS_CardinalityType
<1>6. Cardinality(Used(bitmap')) =
          Cardinality(KernelFrames) + Cardinality(Filling(pdir'))
          + Cardinality(ZerosDone') + (IF pc' = "user" THEN 1 ELSE 0)
  <2>1. Cardinality(Used(bitmap)) =
            Cardinality(KernelFrames) + Cardinality(Filling(pdir)) + Cardinality(ZerosDone)
    BY <1>2, <1>5 DEF Counted
  <2>2. PICK w : w = Cardinality(Used(taken))
    OBVIOUS
  <2> QED
    BY <1>2, <1>3, <1>5, <2>1, <2>2
<1> QED
  BY <1>4, <1>6 DEF Counted, Used, Filling

\* The pairs of a segment are those of its pages that the file has no bytes for.
LEMMA ZeroPair ==
    ASSUME image \in Images, NEW k \in Loaded, NEW p
    PROVE  <<k, p>> \in ZeroPairs <=> p \in SegPages(k) /\ p \notin FilePages(k)
  BY DEF ZeroPairs, ZeroPages

LEMMA ZeroPairsAre ==
    ASSUME image \in Images, NEW z \in ZeroPairs
    PROVE  /\ z = <<z[1], z[2]>> /\ z[1] \in Loaded
           /\ z[1] \in Nat /\ z[2] \in SegPages(z[1]) /\ z[2] \notin FilePages(z[1])
<1>1. PICK k \in Loaded : \E p \in ZeroPages(k) : z = <<k, p>>
  BY DEF ZeroPairs
<1> QED
  BY <1>1, Segment DEF ZeroPages

LEMMA NotInPanic == FInv /\ [Next]_vars /\ pc' # "panic" => pc # "panic"
  BY DEF Next, vars, CheckMultiboot, CheckELF, SkipHeader, StartSegment,
         MapFilePage, MapZeroPage, EndSegment, MapStack

\* Checks and headers.
LEMMA HeaderCounted ==
    ASSUME image \in Images, Filled, Filled', Counted, pc' # "panic",
           CheckMultiboot \/ CheckELF \/ SkipHeader \/ StartSegment \/ EndSegment
    PROVE  Counted'
<1>1. UNCHANGED <<image, bitmap, pdir, ptab>> /\ pc # "user" /\ pc' # "user"
  BY DEF CheckMultiboot, CheckELF, SkipHeader, StartSegment, EndSegment, Panic, tables
<1>2. \A k : SegPages(k)' = SegPages(k) /\ H(k)' = H(k)
  BY <1>1, SameFile
<1>3. Loaded' = Loaded /\ ZeroPairs' = ZeroPairs
  BY <1>1, SameFile DEF ZeroPairs
<1>4. \A k \in Loaded : k \in Nat /\ Floor(H(k).addr) \in Nat
  BY Segment
<1>5. i \in Nat
  BY DEF Filled, Shapes
<1>6. CASE CheckMultiboot \/ CheckELF
  <2>1. i' = i /\ pc # "pages" /\ pc' # "pages"
    BY <1>6 DEF CheckMultiboot, CheckELF, Panic, locals
  <2>2. ZerosDone' = ZerosDone /\ \A p \in Pages : Done(p)' <=> Done(p)
    BY <1>1, <1>2, <1>3, <2>1 DEF ZerosDone, Done
  <2> QED
    BY <1>1, <2>2, StaysCounted
<1>7. CASE SkipHeader
  <2>1. i' = i + 1 /\ pc # "pages" /\ pc' = pc /\ i \notin Loaded
    BY <1>7 DEF SkipHeader, Loaded, H, header
  <2>2. \A k \in Loaded : k < i' <=> k < i
    BY <1>4, <1>5, <2>1
  <2>3. ZerosDone' = ZerosDone
    BY <1>3, <2>1, <2>2, ZeroPairsAre DEF ZerosDone
  <2>4. \A p \in Pages : Done(p)' <=> Done(p)
    BY <1>1, <1>2, <1>3, <2>1, <2>2 DEF Done
  <2> QED
    BY <1>1, <2>3, <2>4, StaysCounted
<1>8. CASE StartSegment
  <2>1. i' = i /\ pc = "headers" /\ pc' = "pages" /\ virt' = Floor(H(i).addr)
    BY <1>8 DEF StartSegment, Panic, header, H
  <2>2. i \in Loaded
    BY <1>3, <2>1 DEF Filled, Current
  <2>3. ZerosDone' = ZerosDone
    <3>1. \A z \in ZeroPairs : z[1] = i => ~(z[2] < Floor(H(i).addr))
      BY <1>4, <2>2, ZeroPairsAre, SegmentPage
    <3> QED
      BY <1>3, <2>1, <3>1 DEF ZerosDone
  <2>4. \A p \in Pages : Done(p)' <=> Done(p)
    <3>1. \A p \in Pages : ~(Floor(H(i).addr) <= p /\ p < Floor(H(i).addr))
      BY <1>4, <2>2, PageSlot
    <3>2. Floor(H(i).addr)' = Floor(H(i).addr)
      BY <1>2, <2>1 DEF H
    <3> QED
      BY <1>1, <1>2, <1>3, <2>1, <3>1, <3>2 DEF Done
  <2> QED
    BY <1>1, <2>3, <2>4, StaysCounted
<1>9. CASE EndSegment
  <2>1. i' = i + 1 /\ pc = "pages" /\ pc' = "headers" /\ msize = 0
    BY <1>9 DEF EndSegment, Panic
  <2>2. i \in Loaded /\ virt = End(i)
    BY <2>1 DEF Filled, Current, Shapes
  <2>3. SegPages(i) = Floor(H(i).addr) .. virt - 1 /\ virt \in Nat
    BY <2>2 DEF SegPages, PagesTo, End, Filled, Shapes
  <2>4. \A k \in Loaded : k < i' <=> k < i \/ k = i
    BY <1>4, <1>5, <2>1
  <2>5. ZerosDone' = ZerosDone
    <3>1. \A z \in ZeroPairs : z[1] = i => z[2] < virt
      BY <2>2, ZeroPairsAre, SegmentPage
    <3> QED
      BY <1>3, <2>1, <2>4, <3>1, ZeroPairsAre DEF ZerosDone
  <2>6. \A p \in Pages : Done(p)' <=> Done(p)
    <3>1. \A p \in Pages : p \in SegPages(i) <=> Floor(H(i).addr) <= p /\ p < virt
      BY <1>4, <2>2, <2>3, PageSlot
    <3> QED
      BY <1>1, <1>2, <1>3, <2>1, <2>2, <2>4, <3>1 DEF Done
  <2> QED
    BY <1>1, <2>5, <2>6, StaysCounted
<1> QED
  BY <1>6, <1>7, <1>8, <1>9

\* The pairs of the page loop's segment that it has come past.
LEMMA NextZero ==
    ASSUME image \in Images, image' = image, Filled, pc = "pages", msize > 0,
           pc' = pc, i' = i, virt' = virt + 1
    PROVE  /\ virt \in Pages
           /\ \A p \in Pages : Done(p)' <=> Done(p) \/ p = virt
           /\ <<i, virt>> \notin ZerosDone
           /\ <<i, virt>> \in ZeroPairs <=> fsize = 0
           /\ ZerosDone' = IF fsize = 0 THEN ZerosDone \cup {<<i, virt>>} ELSE ZerosDone
<1>1. /\ i \in Loaded /\ ~ BadHeader(H(i)) /\ virt + msize = End(i)
      /\ Floor(H(i).addr) <= virt /\ virt \in Nat /\ msize \in Nat /\ i \in Nat
      /\ fsize = (IF virt < FileEnd(i) THEN FileEnd(i) - virt ELSE 0)
  BY DEF Filled, Current, Shapes
<1>2. Floor(H(i).addr) \in Nat /\ End(i) \in Nat /\ FileEnd(i) \in Nat
  BY <1>1, Segment, FileExtent
<1>3. virt \in SegPages(i) /\ virt \in Pages
  <2>1. virt \in SegPages(i)
    BY <1>1, <1>2 DEF SegPages, PagesTo, End
  <2> QED
    BY <1>1, <2>1, SegmentPage
<1>4. virt \in FilePages(i) <=> fsize # 0
  BY <1>1, <1>2 DEF FilePages, PagesTo, FileEnd
<1>5. <<i, virt>> \in ZeroPairs <=> fsize = 0
  BY <1>1, <1>3, <1>4, ZeroPair
<1>6. \A p \in Pages : Done(p)' <=> Done(p) \/ p = virt
  <2>1. \A p \in Pages : Floor(H(i).addr) <= p /\ p < virt + 1
                            <=> (Floor(H(i).addr) <= p /\ p < virt) \/ p = virt
    BY <1>1, <1>2, PageSlot
  <2>2. Floor(H(i).addr)' = Floor(H(i).addr)
    BY DEF H
  <2> QED
    BY <2>1, <2>2, SameFile DEF Done
<1>7. <<i, virt>> \notin ZerosDone
  BY <1>1 DEF ZerosDone
<1>8. ZeroPairs' = ZeroPairs
  BY SameFile DEF ZeroPairs
<1>9. \A z \in ZeroPairs : z[1] = i => (z[2] < virt + 1 <=> z[2] < virt \/ z = <<i, virt>>)
  <2>1. \A z \in ZeroPairs : z = <<z[1], z[2]>> /\ (z[1] = i => z[2] \in Nat)
    BY ZeroPairsAre, SegmentPage
  <2> QED
    BY <1>1, <2>1
<1>10. ZerosDone' = {z \in ZeroPairs : z \in ZerosDone \/ z = <<i, virt>>}
  <2>1. \A z \in ZeroPairs : (z \in ZerosDone)' <=> z \in ZerosDone \/ z = <<i, virt>>
    <3>1. \A z \in ZeroPairs : (z[1] < i \/ (z[1] = i /\ z[2] < virt + 1))
                <=> (z[1] < i \/ (z[1] = i /\ z[2] < virt)) \/ z = <<i, virt>>
      BY <1>1, <1>9
    <3> QED
      BY <1>8, <3>1 DEF ZerosDone
  <2> QED
    BY <1>8, <2>1 DEF ZerosDone
<1> QED
  BY <1>3, <1>5, <1>6, <1>7, <1>10 DEF ZerosDone

LEMMA LoopCounted ==
    ASSUME image \in Images, Filled, Counted, pc' # "panic",
           MapFilePage \/ MapZeroPage
    PROVE  Counted'
<1>1. /\ image' = image /\ pc = "pages" /\ pc' = pc /\ i' = i /\ virt' = virt + 1
  BY DEF MapFilePage, MapZeroPage, MapPage, Panic
<1>2. IsFiniteSet(ZerosDone)
  <2>1. ZerosDone \subseteq ZeroPairs
    BY DEF ZerosDone
  <2> QED
    BY <2>1, FiniteNeeds, FS_Subset
<1>3. CASE MapFilePage
  <2>1. fsize > 0 /\ msize > 0 /\ phys \notin Frames
    BY <1>3, FilePageBounds DEF MapFilePage
  <2>2. /\ virt \in Pages /\ ZerosDone' = ZerosDone
        /\ \A p \in Pages : Done(p)' <=> Done(p) \/ p = virt
    BY <1>1, <2>1, NextZero DEF Filled, Shapes
  <2>3. Opened(bitmap, pdir, ptab, virt, [frame |-> phys, writable |-> header.writable],
               bitmap', pdir', ptab')
    BY <1>3, FilePageFilled
  <2>4. PICK f, page, taken : f = phys /\ page = virt /\ taken = bitmap
    OBVIOUS
  <2>5. PICK e : e = [frame |-> phys, writable |-> header.writable]
    OBVIOUS
  <2>6. Takes(bitmap, taken, f) /\ f \notin Frames
    BY <2>1, <2>4 DEF Takes
  <2>7. Cardinality(ZerosDone') = Cardinality(ZerosDone) + 0
    BY <1>2, <2>2, FS_CardinalityType
  <2>8. Opened(taken, pdir, ptab, page, e, bitmap', pdir', ptab')
    BY <2>3, <2>4, <2>5
  <2>9. page \in Pages /\ \A p \in Pages : Done(p)' <=> Done(p) \/ p = page
    BY <2>2, <2>4
  <2> QED
    BY <1>1, <2>6, <2>7, <2>8, <2>9, MapsCounted
<1>4. CASE MapZeroPage
  <2>1. fsize = 0 /\ msize > 0
    BY <1>4 DEF MapZeroPage
  <2>2. /\ virt \in Pages /\ ZerosDone' = ZerosDone \cup {<<i, virt>>}
        /\ <<i, virt>> \notin ZerosDone
        /\ \A p \in Pages : Done(p)' <=> Done(p) \/ p = virt
    BY <1>1, <2>1, NextZero
  <2>3. PICK f, taken :
           /\ f \in Frames
           /\ Takes(bitmap, taken, f)
           /\ Opened(taken, pdir, ptab, virt, [frame |-> f, writable |-> header.writable],
                     bitmap', pdir', ptab')
    BY <1>4, ZeroPageFilled
  <2>4. PICK e, page : e = [frame |-> f, writable |-> header.writable] /\ page = virt
    OBVIOUS
  <2>5. Cardinality(ZerosDone') = Cardinality(ZerosDone) + 1
    BY <1>2, <2>2, FS_AddElement
  <2>6. Opened(taken, pdir, ptab, page, e, bitmap', pdir', ptab')
    BY <2>3, <2>4
  <2>7. page \in Pages /\ \A p \in Pages : Done(p)' <=> Done(p) \/ p = page
    BY <2>2, <2>4
  <2> QED
    BY <1>1, <2>3, <2>5, <2>6, <2>7, MapsCounted
<1> QED
  BY <1>3, <1>4

LEMMA StackCounted ==
    ASSUME image \in Images, Filled, Counted, pc' # "panic", MapStack
    PROVE  Counted'
<1>1. /\ image' = image /\ pc = "headers" /\ pc' = "user" /\ i' = i
  BY DEF MapStack, Panic, locals
<1>2. PICK f, taken :
         /\ f \in Frames
         /\ Takes(bitmap, taken, f)
         /\ Opened(taken, pdir, ptab, StackPage, [frame |-> f, writable |-> TRUE],
                   bitmap', pdir', ptab')
  BY StackFilled
<1>3. PICK e : e = [frame |-> f, writable |-> TRUE]
  OBVIOUS
<1>4. ZerosDone' = ZerosDone
  <2>1. ZeroPairs' = ZeroPairs
    BY <1>1, SameFile DEF ZeroPairs
  <2> QED
    BY <1>1, <2>1 DEF ZerosDone
<1>5. Cardinality(ZerosDone') = Cardinality(ZerosDone) + 0
  <2>1. ZerosDone \subseteq ZeroPairs
    BY DEF ZerosDone
  <2>2. IsFiniteSet(ZerosDone)
    BY <2>1, FiniteNeeds, FS_Subset
  <2> QED
    BY <1>4, <2>2, FS_CardinalityType
<1>6. \A p \in Pages : Done(p)' <=> Done(p) \/ p = StackPage
  BY <1>1, SameFile DEF Done
<1>7. Opened(taken, pdir, ptab, StackPage, e, bitmap', pdir', ptab') /\ StackPage \in Pages
  BY <1>2, <1>3, PageSlot
<1> QED
  BY <1>1, <1>2, <1>5, <1>6, <1>7, MapsCounted

LEMMA CountedNeeded ==
    ASSUME image \in Images, Filled, Counted, pc # "user"
    PROVE  /\ Filling(pdir) \subseteq NeededSlots /\ ZerosDone \subseteq ZeroPairs
           /\ IsFiniteSet(Filling(pdir)) /\ IsFiniteSet(ZerosDone)
           /\ Cardinality(Filling(pdir)) \in Nat /\ Cardinality(ZerosDone) \in Nat
           /\ Cardinality(KernelFrames) \in Nat
<1>1. \A p \in Pages : Done(p) => \E k \in Loaded : p \in SegPages(k)
  <2>1. ASSUME NEW p \in Pages, pc = "pages", Floor(H(i).addr) <= p, p < virt
        PROVE  i \in Loaded /\ p \in SegPages(i)
    <3>1. /\ i \in Loaded /\ virt + msize = End(i) /\ virt \in Nat /\ msize \in Nat
      BY <2>1 DEF Filled, Current, Shapes
    <3>2. p \in Nat /\ Floor(H(i).addr) \in Nat /\ End(i) \in Nat
      BY <3>1, PageSlot, Segment
    <3> QED
      BY <2>1, <3>1, <3>2 DEF SegPages, PagesTo, End
  <2> QED
    BY <2>1 DEF Done
<1>2. Filling(pdir) \subseteq NeededSlots
  BY <1>1 DEF Filling, Counted, NeededSlots
<1>3. ZerosDone \subseteq ZeroPairs
  BY DEF ZerosDone
<1>4. IsFiniteSet(Filling(pdir)) /\ IsFiniteSet(ZerosDone)
  BY <1>2, <1>3, FiniteNeeds, FS_Subset
<1> QED
  BY <1>2, <1>3, <1>4, FiniteNeeds, FS_CardinalityType

\* When every frame is taken there are as many as have been counted.
LEMMA AllUsed ==
    ASSUME image \in Images, Filled, Counted, pc # "user",
           NEW taken, NEW f, Takes(bitmap, taken, f), \A g \in Frames : taken[g]
    PROVE  Cardinality(KernelFrames) + Cardinality(Filling(pdir)) + Cardinality(ZerosDone)
               + (IF f \in Frames THEN 1 ELSE 0) = NumBits
<1>1. Used(taken) = Frames
  BY DEF Used
<1>2. Cardinality(Used(taken)) =
          Cardinality(Used(bitmap)) + (IF f \in Frames THEN 1 ELSE 0)
  BY CountFrame DEF Filled, Shapes
<1>3. Cardinality(Used(bitmap)) =
          Cardinality(KernelFrames) + Cardinality(Filling(pdir)) + Cardinality(ZerosDone) + 0
  BY DEF Counted
<1>4. Cardinality(Used(taken)) = NumBits
  BY <1>1, FiniteNeeds
<1>5. Cardinality(Used(bitmap)) \in Nat
  BY CountFrame DEF Filled, Shapes
<1> QED
  BY <1>2, <1>3, <1>4, <1>5, CountedNeeded

LEMMA NoFrameLeft ==
    ASSUME image \in Images, Filled, Counted, pc # "user", \A g \in Frames : bitmap[g]
    PROVE  ~ Fitting
<1>1. PICK f : f \notin Frames
  BY PageTableTypes
<1>2. Takes(bitmap, bitmap, f)
  BY <1>1 DEF Takes
<1>3. PICK taken : taken = bitmap
  OBVIOUS
<1>4. Cardinality(KernelFrames) + Cardinality(Filling(pdir)) + Cardinality(ZerosDone) = NumBits
  <2>1. Takes(bitmap, taken, f) /\ \A g \in Frames : taken[g]
    BY <1>2, <1>3
  <2>2. Cardinality(KernelFrames) + Cardinality(Filling(pdir)) + Cardinality(ZerosDone) + 0
            = NumBits
    BY <1>1, <2>1, AllUsed
  <2> QED
    BY <2>2, CountedNeeded
<1> QED
  BY <1>4, CountedNeeded, PageTableTypes, TooFew

\* The last frame was taken for the page itself, and none is left for its table.
LEMMA NoTableLeft ==
    ASSUME image \in Images, Filled, Counted, pc # "user",
           NEW taken, NEW f \in Frames, Takes(bitmap, taken, f), \A g \in Frames : taken[g],
           NEW D, D \subseteq NeededSlots, NEW Z, Z \subseteq ZeroPairs,
           Cardinality(D) + Cardinality(Z) >=
               Cardinality(Filling(pdir)) + Cardinality(ZerosDone) + 1
    PROVE  ~ Fitting
<1>1. Cardinality(KernelFrames) + Cardinality(Filling(pdir)) + Cardinality(ZerosDone) + 1
          = NumBits
  BY AllUsed
<1>2. Cardinality(D) \in Nat /\ Cardinality(Z) \in Nat
  BY FiniteNeeds, FS_Subset, FS_CardinalityType
<1>3. Cardinality(KernelFrames) + Cardinality(D) + Cardinality(Z) >= NumBits
  BY <1>1, <1>2, CountedNeeded, PageTableTypes
<1> QED
  BY <1>3, TooFew

LEMMA SameFitting ==
    ASSUME image' = image
    PROVE  (Fitting' <=> Fitting) /\ (WellFormed' <=> WellFormed)
  BY DEF Fitting, WellFormed, Needed, Loaded, H, ZeroPages, SegPages, FilePages, PagesTo

\* insert_mapping fails only when every frame is taken.
LEMMA InsertFails ==
    ASSUME Filled, NEW taken, NEW f, Takes(bitmap, taken, f), NEW page \in Pages,
           NEW e \in RawEntries, ~ insert_mapping(taken, pdir, ptab, page, e).ok
    PROVE  pdir[Slot(page)] = NoPage /\ \A g \in Frames : taken[g]
<1>1. PICK r : r = insert_mapping(taken, pdir, ptab, page, e)
  OBVIOUS
<1>2. /\ bitmap \in Bitmaps /\ pdir \in Directory /\ ptab \in RawTables
      /\ OneTable(bitmap, pdir)
  BY DEF Filled, Shapes
<1>3. \/ NotInserted(taken, pdir, ptab, page, r)
      \/ r.ok /\ Opened(taken, pdir, ptab, page, e, r.bitmap, r.pdir, r.ptab)
  BY <1>1, <1>2, Opens
<1> QED
  BY <1>1, <1>3 DEF NotInserted

LEMMA CheckPanics ==
    ASSUME image \in Images, Filled, pc' = "panic",
           CheckMultiboot \/ CheckELF \/ StartSegment \/ EndSegment
    PROVE  ~ Fitting
<1>1. CASE CheckMultiboot
  BY <1>1 DEF CheckMultiboot, Fitting, WellFormed
<1>2. CASE CheckELF
  <2>1. image.mega \in Nat
    BY LoaderTypes DEF ImageOK
  <2>2. image.mega % 4 = 0 => remap(image.mega) = image.mega
    BY <2>1 DEF remap
  <2> QED
    BY <1>2, <2>2 DEF CheckELF, Fitting, WellFormed
<1>3. CASE StartSegment
  <2>1. pc = "headers" /\ i <= Len(image.headers) /\ header = H(i) /\ header.load
        /\ BadHeader(H(i))
    BY <1>3 DEF StartSegment, H, header
  <2>2. i \in Loaded
    BY <2>1 DEF Loaded, H, Filled, Shapes
  <2>3. H(i).fsize \in Nat /\ H(i).msize \in Nat
    BY <2>2, Segment
  <2> QED
    BY <2>1, <2>2, <2>3 DEF BadHeader, Fitting, WellFormed
<1>4. CASE EndSegment
  <2>1. pc = "pages" /\ BssBytes(H(i)) # {} /\ ~ H(i).writable
    BY <1>4 DEF EndSegment, H, header
  <2>2. i \in Loaded
    BY <2>1 DEF Filled, Current
  <2>3. H(i).addr \in Nat /\ H(i).fsize \in Nat /\ H(i).msize \in Nat
    BY <2>2, Segment
  <2>4. H(i).fsize < H(i).msize
    BY <2>1, <2>3 DEF BssBytes
  <2> QED
    BY <2>1, <2>2, <2>4 DEF Fitting, WellFormed
<1> QED
  BY <1>1, <1>2, <1>3, <1>4

LEMMA LoopPanics ==
    ASSUME image \in Images, Filled, Counted, pc' = "panic",
           MapFilePage \/ MapZeroPage
    PROVE  ~ Fitting
<1> USE PageTableTypes
<1>1. pc = "pages" /\ bitmap \in Bitmaps /\ i \in Loaded
  BY DEF MapFilePage, MapZeroPage, Filled, Shapes, Current
<1>2. header = H(i) /\ H(i) \in Header
  BY <1>1, Segment DEF header, H
<1>3. ASSUME msize > 0 PROVE virt \in Pages /\ virt \in SegPages(i)
  <2>1. virt + msize = End(i) /\ Floor(H(i).addr) <= virt /\ virt \in Nat /\ msize \in Nat
    BY <1>1 DEF Filled, Current, Shapes
  <2>2. virt \in SegPages(i)
    BY <1>1, <1>3, <2>1, Segment DEF SegPages, PagesTo, End
  <2> QED
    BY <1>1, <2>2, SegmentPage
<1>4. CASE MapFilePage
  <2> DEFINE e == [frame |-> phys, writable |-> header.writable]
  <2>1. phys \notin Frames /\ msize > 0 /\ phys \in Nat
    BY <1>1, <1>4, FilePageBounds DEF MapFilePage, Filled, Shapes
  <2>2. ~ insert_mapping(bitmap, pdir, ptab, virt, e).ok
    BY <1>1, <1>4 DEF MapFilePage, MapPage
  <2>3. Takes(bitmap, bitmap, phys) /\ e \in RawEntries
    BY <1>2, <2>1 DEF Takes, RawEntries, Header
  <2> HIDE DEF e
  <2>4. \A g \in Frames : bitmap[g]
    BY <1>3, <2>1, <2>2, <2>3, InsertFails
  <2> QED
    BY <1>1, <2>4, NoFrameLeft
<1>5. CASE MapZeroPage
  <2> DEFINE f == alloc_page(bitmap)
             taken == mark_page_allocated(bitmap, f, TRUE)
             e == [frame |-> f, writable |-> header.writable]
  <2>1. msize > 0 /\ fsize = 0
        /\ (f = NoPage \/ ~ insert_mapping(taken, pdir, ptab, virt, e).ok)
    BY <1>1, <1>5 DEF MapZeroPage, MapPage
  <2>2. CASE f = NoPage
    <3>1. \A g \in Frames : bitmap[g]
      BY <1>1, <2>2, AllocPage
    <3> QED
      BY <1>1, <3>1, NoFrameLeft
  <2>3. CASE f # NoPage
    <3>1. f \in Frames /\ ~bitmap[f] /\ f \in Nat
      <4>1. f \in Frames /\ ~bitmap[f]
        BY <1>1, <2>3, AllocPage
      <4> QED
        BY <4>1 DEF Frames, Bits
    <3>2. Takes(bitmap, taken, f) /\ e \in RawEntries
      BY <1>2, <3>1 DEF Takes, mark_page_allocated, RawEntries, Header
    <3>3. f # NoPage => ~ insert_mapping(taken, pdir, ptab, virt, e).ok
      BY <2>1
    <3> HIDE DEF e, taken, f
    <3>4. \A g \in Frames : taken[g]
      BY <1>3, <2>1, <2>3, <3>2, <3>3, InsertFails
    <3> DEFINE Z == ZerosDone \cup {<<i, virt>>}
    <3>5. <<i, virt>> \notin ZerosDone /\ <<i, virt>> \in ZeroPairs
      <4>1. /\ ~ BadHeader(H(i)) /\ virt \in Nat /\ i \in Nat
            /\ fsize = (IF virt < FileEnd(i) THEN FileEnd(i) - virt ELSE 0)
        BY <1>1 DEF Filled, Current, Shapes
      <4>2. virt \notin FilePages(i)
        BY <1>1, <2>1, <4>1, FileExtent, Segment DEF FilePages, PagesTo, FileEnd
      <4>3. <<i, virt>> \in ZeroPairs
        BY <1>1, <1>3, <2>1, <4>2, ZeroPair
      <4>4. <<i, virt>> \notin ZerosDone
        BY <4>1 DEF ZerosDone
      <4> QED
        BY <4>3, <4>4
    <3>6. Cardinality(Z) = Cardinality(ZerosDone) + 1
      BY <1>1, <3>5, CountedNeeded, FS_AddElement
    <3>7. Z \subseteq ZeroPairs
      BY <3>5 DEF ZerosDone
    <3> HIDE DEF Z
    <3>8. Cardinality(Filling(pdir)) + Cardinality(Z) >=
              Cardinality(Filling(pdir)) + Cardinality(ZerosDone) + 1
      BY <1>1, <3>6, CountedNeeded
    <3> QED
      BY <1>1, <3>1, <3>2, <3>4, <3>7, <3>8, CountedNeeded, NoTableLeft
  <2> QED
    BY <2>2, <2>3
<1> QED
  BY <1>4, <1>5

LEMMA StackPanics ==
    ASSUME image \in Images, Filled, Counted, pc' = "panic", MapStack
    PROVE  ~ Fitting
<1> USE PageTableTypes
<1> DEFINE f == alloc_page(bitmap)
           taken == mark_page_allocated(bitmap, f, TRUE)
           e == [frame |-> f, writable |-> TRUE]
<1>1. pc = "headers" /\ bitmap \in Bitmaps
      /\ (f = NoPage \/ ~ insert_mapping(taken, pdir, ptab, StackPage, e).ok)
  BY DEF MapStack, Filled, Shapes
<1>2. CASE f = NoPage
  <2>1. \A g \in Frames : bitmap[g]
    BY <1>1, <1>2, AllocPage
  <2> QED
    BY <1>1, <2>1, NoFrameLeft
<1>3. CASE f # NoPage
  <2>1. f \in Frames /\ ~bitmap[f] /\ f \in Nat
    <3>1. f \in Frames /\ ~bitmap[f]
      BY <1>1, <1>3, AllocPage
    <3> QED
      BY <3>1 DEF Frames, Bits
  <2>2. Takes(bitmap, taken, f) /\ e \in RawEntries
    BY <2>1 DEF Takes, mark_page_allocated, RawEntries
  <2> HIDE DEF e, taken, f
  <2>3. pdir[Slot(StackPage)] = NoPage /\ \A g \in Frames : taken[g]
    BY <1>1, <1>3, <2>2, PageSlot, InsertFails
  <2> DEFINE D == Filling(pdir) \cup {Slot(StackPage)}
  <2>4. D \subseteq NeededSlots
    BY <1>1, CountedNeeded DEF NeededSlots
  <2>5. Cardinality(D) = Cardinality(Filling(pdir)) + 1
    <3>1. Slot(StackPage) \notin Filling(pdir)
      BY <2>3 DEF Filling
    <3> QED
      BY <1>1, <3>1, CountedNeeded, FS_AddElement
  <2> HIDE DEF D
  <2>6. Cardinality(D) + Cardinality(ZerosDone) >=
            Cardinality(Filling(pdir)) + Cardinality(ZerosDone) + 1
    BY <1>1, <2>5, CountedNeeded
  <2> QED
    BY <1>1, <2>1, <2>2, <2>3, <2>4, <2>6, CountedNeeded, NoTableLeft
<1> QED
  BY <1>2, <1>3

LEMMA InitCounted == Init => CInv
<1> SUFFICES ASSUME Init PROVE CInv
  OBVIOUS
<1> USE LoaderTypes, PageTableTypes
<1>1. /\ image \in Images /\ pc = "multiboot" /\ i = 1
      /\ bitmap = [f \in Frames |-> f \in KernelFrames]
      /\ pdir = [s \in Slots |-> NoPage]
  BY DEF Init
<1>2. Used(bitmap) = KernelFrames /\ Filling(pdir) = {}
  BY <1>1 DEF Used, Filling
<1>3. \A k \in Loaded : ~(k < i)
  <2>1. \A k \in Loaded : k \in 1 .. Len(image.headers) /\ Len(image.headers) \in Nat
    BY <1>1, Segment
  <2> QED
    BY <1>1, <2>1
<1>4. ZerosDone = {} /\ \A p \in Pages : ~ Done(p)
  BY <1>1, <1>3, ZeroPairsAre DEF ZerosDone, Done
<1>5. Cardinality(Used(bitmap)) =
          Cardinality(KernelFrames) + Cardinality(Filling(pdir)) + Cardinality(ZerosDone) + 0
  <2>1. Cardinality(KernelFrames) \in Nat
    BY <1>1, FiniteNeeds, FS_CardinalityType
  <2>2. Cardinality(Filling(pdir)) = 0 /\ Cardinality(ZerosDone) = 0
    BY <1>2, <1>4, FS_EmptySet
  <2>3. Cardinality(Used(bitmap)) = Cardinality(KernelFrames)
    BY <1>2
  <2> QED
    BY <2>1, <2>2, <2>3
<1> QED
  BY <1>1, <1>4, <1>5 DEF CInv, Counted

LEMMA StepCounted == FInv /\ FInv' /\ CInv /\ [Next]_vars => CInv'
<1> SUFFICES ASSUME FInv, FInv', CInv, [Next]_vars PROVE CInv'
  OBVIOUS
<1>1. image' = image /\ image \in Images
  BY DEF FInv, Next, vars, CheckMultiboot, CheckELF, SkipHeader, StartSegment,
         MapFilePage, MapZeroPage, MapPage, EndSegment, MapStack, Panic
<1>2. CASE UNCHANGED vars
  <2>1. UNCHANGED <<image, pc, i, virt, bitmap, pdir>>
    BY <1>2 DEF vars, locals, tables
  <2>2. Counted' <=> Counted
    BY <2>1 DEF Counted, Used, Filling, ZerosDone, ZeroPairs, ZeroPages, SegPages,
                FilePages, PagesTo, Loaded, H, Done
  <2> QED
    BY <1>1, <2>1, <2>2, SameFitting DEF CInv
<1>3. CASE Next
  <2>1. pc # "panic"
    BY <1>3 DEF Next, CheckMultiboot, CheckELF, SkipHeader, StartSegment,
                MapFilePage, MapZeroPage, EndSegment, MapStack
  <2>2. Filled /\ Counted
    BY <2>1 DEF FInv, CInv
  <2>3. ASSUME pc' # "panic" PROVE Counted'
    <3>1. Filled'
      BY <2>3 DEF FInv
    <3> QED
      BY <1>1, <1>3, <2>2, <2>3, <3>1, HeaderCounted, LoopCounted, StackCounted DEF Next
  <2>4. ASSUME pc' = "panic" PROVE ~ Fitting
    <3>1. ~ SkipHeader
      BY <2>1, <2>4 DEF SkipHeader
    <3> QED
      BY <1>1, <1>3, <2>2, <2>4, <3>1, CheckPanics, LoopPanics, StackPanics DEF Next
  <2> QED
    BY <1>1, <2>3, <2>4, SameFitting DEF CInv
<1> QED
  BY <1>2, <1>3

\* When the program runs, everything it needs has been counted.
LEMMA CountedFits == FInv /\ CInv => RunsIffFits
<1> SUFFICES ASSUME FInv, CInv, pc = "user" PROVE WellFormed /\ Needed <= NumBits
  BY DEF RunsIffFits, CInv, Fitting
<1>1. image \in Images /\ Filled /\ Counted
  BY DEF FInv, CInv
<1>2. i = Len(image.headers) + 1 /\ image.modules /\ image.elf /\ image.mega % 4 = 0
  BY <1>1 DEF Filled, Checked
<1>3. \A k \in Loaded : k < i
  <2>1. \A k \in Loaded : k \in 1 .. Len(image.headers) /\ Len(image.headers) \in Nat
    BY <1>1, Segment
  <2> QED
    BY <1>2, <2>1
<1>4. WellFormed
  <2>1. ASSUME NEW k \in Loaded
        PROVE  /\ H(k).fsize <= H(k).msize
               /\ H(k).addr % PageSize = H(k).offs % PageSize
               /\ H(k).fsize < H(k).msize => H(k).writable
    <3>1. Sound(k)
      BY <1>1, <1>3 DEF Filled, Finished
    <3>2. H(k).addr \in Nat /\ H(k).fsize \in Nat /\ H(k).msize \in Nat
      BY <1>1, Segment
    <3>3. H(k).fsize < H(k).msize => H(k).addr + H(k).fsize \in BssBytes(H(k))
      BY <3>2 DEF BssBytes
    <3> QED
      BY <3>1, <3>2, <3>3 DEF Sound, BadHeader
  <2> QED
    BY <1>2, <2>1 DEF WellFormed
<1>5. Filling(pdir) = NeededSlots
  <2>1. \A p \in Pages : Done(p) <=> p = StackPage \/ \E k \in Loaded : p \in SegPages(k)
    BY <1>3 DEF Done
  <2>2. \A k \in Loaded : \A p \in SegPages(k) : p \in Pages
    BY <1>1, SegmentPage
  <2>3. \A s : s \in NeededSlots <=>
                   \/ s = Slot(StackPage)
                   \/ \E k \in Loaded : \E p \in SegPages(k) : s = Slot(p)
    BY DEF NeededSlots
  <2>4. \A s \in Slots : pdir[s] # NoPage <=> s \in NeededSlots
    BY <1>1, <2>1, <2>2, <2>3, PageSlot DEF Counted
  <2> QED
    BY <1>1, <2>4, FiniteNeeds DEF Filling
<1>6. ZerosDone = ZeroPairs
  BY <1>1, <1>3, ZeroPairsAre DEF ZerosDone
<1>7. Cardinality(Used(bitmap)) = Needed
  BY <1>1, <1>5, <1>6 DEF Counted, Needed, NeededSlots, ZeroPairs
<1>8. Cardinality(Used(bitmap)) <= NumBits
  <2>1. Used(bitmap) \subseteq Frames
    BY DEF Used
  <2> QED
    BY <1>1, <2>1, FiniteNeeds, FS_Subset
<1> QED
  BY <1>4, <1>7, <1>8

\* Every frame is accounted for at every step, and a panic of root_invoke
\* always has its reason in the file or in the size of the pool.
THEOREM FramesCounted == Spec => []CInv
<1>1. Init => CInv
  BY InitCounted
<1>2. FInv /\ FInv' /\ CInv /\ [Next]_vars => CInv'
  BY StepCounted
<1> QED
  BY <1>1, <1>2, FileInMemory, PTL DEF Spec

\* root_invoke starts the program only if its file is well formed and the pool
\* has the frames it needs, and panics only if not: no frame is lost on the
\* way, whatever is mapped over what.
THEOREM StartsIffFits == Spec => []RunsIffFits
  BY FileInMemory, FramesCounted, CountedFits, PTL
=============================================================================
