---------------------------- MODULE KallocSearch ----------------------------
(***************************************************************************)
(* Kalloc (kern/src/kalloc.cc) step by step.  alloc_page's loop is one     *)
(* action per iteration: i, found and first are its local variables.  The  *)
(* callers are the kernel's: init allocates the I/O bitmap (2 pages), the  *)
(* kernel stack and two page tables, bootstrap cuts the first execution    *)
(* context from the top of the pool (operator new, Kalloc::alloc), and     *)
(* from then on system calls allocate and free.                            *)
(*                                                                         *)
(* Addresses are offsets from `begin' counted in units; a page is          *)
(* PageUnits of them, so an execution context takes part of a page and the *)
(* pool no longer ends at a page boundary once it is cut.                  *)
(***************************************************************************)
EXTENDS PageBitmap, Sequences

CONSTANTS
    WordBits,   \* bits of one bitmap word (32 in the code)
    PageUnits,  \* units in a page
    PoolEnd,    \* end - begin at boot, in units
    BootSizes,  \* sizes of the page allocations made by init, in order
    BootTop,    \* BootTop[k]: pages taken by the first k of them
    EcSize,     \* sizeof (Ec), in units
    MaxRun      \* the longest run a caller asks for

ASSUME SearchAssumption ==
    /\ WordBits \in Nat \ {0}
    /\ NumBits % WordBits = 0
    /\ PageUnits \in Nat \ {0}
    /\ PoolEnd \in PageUnits .. NumBits * PageUnits
    /\ EcSize \in Nat
    /\ MaxRun \in Nat \ {0}

\* init's pages and the execution context fit in the pool together.
ASSUME BootAssumption ==
    /\ BootSizes \in Seq(1 .. MaxRun)
    /\ BootTop \in [0 .. Len(BootSizes) -> Nat]
    /\ BootTop[0] = 0
    /\ \A k \in 1 .. Len(BootSizes) :
            BootTop[k] = BootTop[k - 1] + BootSizes[k]
    /\ \A k \in 0 .. Len(BootSizes) :
            BootTop[k] * PageUnits + EcSize <= PoolEnd

VARIABLES
    bitmap,     \* Kalloc::page_bitmap
    end,        \* Kalloc::end
    boot,       \* calls made so far by init and bootstrap
    pc,         \* "idle", or "scan" inside alloc_page
    size, i, found, first,  \* alloc_page's argument and locals
    result,     \* the page alloc_page returned last
    panicked    \* panic() was called

scan == <<size, i, found, first>>
vars == <<bitmap, end, boot, pc, scan, result, panicked>>

\* Mutant: the limit is that of the pool at boot.
PageLimit_AtBoot == PoolEnd \div PageUnits

PageLimit == end \div PageUnits         \* (end - begin) >> PAGE_BITS

Booted == boot > Len(BootSizes)

FullWord(idx) ==
    \A b \in Bits : b \div WordBits = idx \div WordBits => bitmap[b]

Init ==
    /\ bitmap = [b \in Bits |-> FALSE]
    /\ end = PoolEnd
    /\ boot = 0
    /\ pc = "idle"
    /\ size = 0 /\ i = 0 /\ found = 0 /\ first = 0
    /\ result = NoPage
    /\ panicked = FALSE
-----------------------------------------------------------------------------
(* alloc_page *)

Call(n) ==
    /\ pc = "idle" /\ ~panicked
    /\ pc' = "scan"
    /\ size' = n
    /\ i' = 0 /\ found' = 0 /\ first' = 0
    /\ UNCHANGED <<bitmap, end, result, panicked>>

BootCall ==
    /\ boot < Len(BootSizes)
    /\ Call(BootSizes[boot + 1])
    /\ boot' = boot + 1

\* The kernel asks for one page from here on; the search is checked for every
\* size its interface takes, up to MaxRun.
KernelCall ==
    /\ Booted
    /\ \E n \in 1 .. MaxRun : Call(n)
    /\ UNCHANGED boot

InLoop == pc = "scan" /\ i < PageLimit /\ found < size

\* Mutant: pages found before a full word are counted with those after it.
SkipFullWord_KeepsFound ==
    /\ InLoop
    /\ FullWord(i)
    /\ i' = i + WordBits
    /\ UNCHANGED <<bitmap, end, boot, pc, size, found, first, result, panicked>>

SkipFullWord ==
    /\ InLoop
    /\ FullWord(i)
    /\ i' = i + (WordBits - 1) + 1
    /\ found' = 0
    /\ UNCHANGED <<bitmap, end, boot, pc, size, first, result, panicked>>

\* Mutant: every free page becomes the first of the run.
FreeBit_MovesFirst ==
    /\ InLoop
    /\ ~ FullWord(i)
    /\ ~ is_page_allocated(bitmap, i)
    /\ first' = i /\ found' = found + 1 /\ i' = i + 1
    /\ UNCHANGED <<bitmap, end, boot, pc, size, result, panicked>>

FreeBit ==
    /\ InLoop
    /\ ~ FullWord(i)
    /\ ~ is_page_allocated(bitmap, i)
    /\ first' = IF found = 0 THEN i ELSE first
    /\ found' = found + 1
    /\ i' = i + 1
    /\ UNCHANGED <<bitmap, end, boot, pc, size, result, panicked>>

\* Mutant: a page in use does not end the run.
UsedBit_KeepsFound ==
    /\ InLoop
    /\ ~ FullWord(i)
    /\ is_page_allocated(bitmap, i)
    /\ i' = i + 1
    /\ UNCHANGED <<bitmap, end, boot, pc, size, found, first, result, panicked>>

UsedBit ==
    /\ InLoop
    /\ ~ FullWord(i)
    /\ is_page_allocated(bitmap, i)
    /\ found' = 0
    /\ i' = i + 1
    /\ UNCHANGED <<bitmap, end, boot, pc, size, first, result, panicked>>

Return ==
    /\ pc = "scan" /\ ~ InLoop
    /\ pc' = "idle"
    /\ IF found # size
       THEN result' = NoPage /\ UNCHANGED bitmap
       ELSE result' = first /\ bitmap' = MarkRun(bitmap, first, size)
    /\ UNCHANGED <<end, boot, scan, panicked>>

Scan == SkipFullWord \/ FreeBit \/ UsedBit \/ Return
-----------------------------------------------------------------------------
(* free_page and alloc *)

\* Mutant: the bound of the check is off by one.
free_page_ShortByOne(p) ==
    LET valid == p \in 0 .. PageLimit - 2 /\ is_page_allocated(bitmap, p)
    IN  /\ bitmap' = IF valid THEN mark_page_allocated(bitmap, p, FALSE)
                              ELSE bitmap
        /\ panicked' = ~valid

free_page(p) ==
    LET valid == p \in 0 .. PageLimit - 1 /\ is_page_allocated(bitmap, p)
    IN  /\ bitmap' = IF valid THEN mark_page_allocated(bitmap, p, FALSE)
                              ELSE bitmap
        /\ panicked' = ~valid

\* A caller frees a page it was given, never one that init keeps.
KernelFree ==
    /\ pc = "idle" /\ Booted /\ ~panicked
    /\ \E p \in Bits :
        /\ p >= BootTop[Len(BootSizes)]
        /\ bitmap[p]
        /\ free_page(p)
    /\ UNCHANGED <<end, boot, pc, scan, result>>

\* new Ec in bootstrap: Kalloc::alloc moves end down, whatever the bitmap says.
NewEc ==
    /\ pc = "idle" /\ ~panicked
    /\ boot = Len(BootSizes)
    /\ boot' = boot + 1
    /\ end' = IF end - EcSize < 0 THEN end ELSE end - EcSize
    /\ panicked' = (end - EcSize < 0)
    /\ UNCHANGED <<bitmap, pc, scan, result>>

Next == BootCall \/ NewEc \/ KernelCall \/ KernelFree \/ Scan

Spec == Init /\ [][Next]_vars /\ WF_vars(Scan)
-----------------------------------------------------------------------------
(* Properties *)

\* The locals have their types and the bump pointer stays inside the pool.
TypeOK ==
    /\ bitmap \in Bitmaps
    /\ end \in 0 .. PoolEnd
    /\ boot \in 0 .. Len(BootSizes) + 1
    /\ pc \in {"idle", "scan"}
    /\ size \in 0 .. MaxRun
    /\ i \in Nat
    /\ found \in 0 .. size
    /\ first \in Bits
    /\ result \in Bits \cup {NoPage}
    /\ panicked \in BOOLEAN

\* The loop invariant of alloc_page: the last `found' pages before i are free
\* and start at first, no free run starts before them, and the jump over a
\* full word is only ever taken from the word's first bit.
ScanInv ==
    pc = "scan" =>
        /\ size > 0
        /\ found > 0 => /\ first = i - found
                        /\ i <= PageLimit
                        /\ \A p \in Run(first, found) : ~bitmap[p]
        /\ found <= i
        /\ \A p \in Fits(bitmap, PageLimit, size) : p >= i - found
        /\ i % WordBits # 0 => i < NumBits /\ ~FullWord(i)

\* Until the execution context is cut from the top, the pages in use are the
\* lowest ones, one boot allocation after the other.
BootInv ==
    /\ boot = 0 => pc = "idle"
    /\ ~Booted =>
          /\ end = PoolEnd
          /\ pc = "scan" => size = BootSizes[boot]
          /\ LET done == IF pc = "scan" THEN boot - 1 ELSE boot
             IN  \A p \in Bits : bitmap[p] <=> p < BootTop[done]

\* No page that alloc_page has handed out lies above `end', where alloc()
\* carved the execution context: neither allocator looks at the other's state.
PagesBelowEnd == \A p \in Bits : bitmap[p] => (p + 1) * PageUnits <= end

\* alloc() never runs out of memory at boot, free_page never refuses a page
\* that its caller owns.
NoPanic == ~panicked

\* The search returns the lowest free run and only fails when there is none.
ReturnsFirstFit ==
    [][Return => /\ result' = FirstFit(bitmap, PageLimit, size)
                 /\ result' # NoPage =>
                        bitmap' = MarkRun(bitmap, result', size)]_vars

Promise == INSTANCE Kalloc WITH
    owned   <- {p \in Bits : bitmap[p]},
    limit   <- PageLimit,
    request <- IF pc = "scan" THEN size ELSE 0

\* The search with its two counters and its word jump implements the
\* allocator its callers rely on, and answers every call.
ImplementsKalloc == Promise!Spec
=============================================================================
