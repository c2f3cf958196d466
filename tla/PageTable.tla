------------------------------ MODULE PageTable ------------------------------
(***************************************************************************)
(* The two-level page tables of kern/src/ptab.cc as pure operators.  A     *)
(* virtual page is a page number (address >> 12).  pdir maps a slot (one   *)
(* per PtSize pages) to the pool frame that holds its table, or NoPage;    *)
(* ptab[f] is frame f read as a table: the frame an index maps to, Image   *)
(* for memory outside the pool, or NoPage for an entry of zero.            *)
(***************************************************************************)
EXTENDS PageBitmap

CONSTANTS
    PtSize,     \* entries of a page table (1024 in the code)
    NumSlots,   \* slots of the page directory that user space can use
    Image       \* a mapped page whose frame is not in the allocator's pool

ASSUME PageTableAssumption ==
    /\ PtSize \in Nat \ {0}
    /\ NumSlots \in Nat \ {0}
    /\ Image \notin Int /\ Image # NoPage

Frames  == Bits
Slots   == 0 .. NumSlots - 1
Indices == 0 .. PtSize - 1
Entries == Frames \cup {Image, NoPage}

Slot(page)  == page \div PtSize         \* virt >> 22
Index(page) == page % PtSize            \* (virt >> PAGE_BITS) & 0x3ff

EmptyTable == [k \in Indices |-> NoPage]

\* alloc_page(1): the lowest free frame.
alloc_page(bm) == FirstFit(bm, NumBits, 1)

get_mapping(pdir, ptab, page) ==
    IF pdir[Slot(page)] = NoPage
    THEN NoPage
    ELSE ptab[pdir[Slot(page)]][Index(page)]

\* The memory after insert_mapping, and whether it returned true: a missing
\* table is allocated (zeroed), and without memory for it nothing changes.
insert_mapping(bm, pdir, ptab, page, entry) ==
    LET missing == pdir[Slot(page)] = NoPage
        table   == IF missing THEN alloc_page(bm) ELSE pdir[Slot(page)]
        old     == IF missing THEN EmptyTable ELSE ptab[table]
    IN  IF table = NoPage
        THEN [ok |-> FALSE, bitmap |-> bm, pdir |-> pdir, ptab |-> ptab]
        ELSE [ok     |-> TRUE,
              bitmap |-> mark_page_allocated(bm, table, TRUE),
              pdir   |-> [pdir EXCEPT ![Slot(page)] = table],
              ptab   |-> [ptab EXCEPT ![table] =
                              [old EXCEPT ![Index(page)] = entry]]]
=============================================================================
