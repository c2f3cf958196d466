------------------------------- MODULE Syscall -------------------------------
(***************************************************************************)
(* The kernel's system calls (kern/src/ec_syscall.cc) over its page        *)
(* allocator and its page tables, and the one user program that calls      *)
(* them.  The handler runs with interrupts off on one processor, so it     *)
(* interleaves with nothing; what makes it hard is that sys_break maps and *)
(* unmaps one page after the other, may run out of memory at two places of *)
(* every iteration, and must then undo exactly what it did.  Every         *)
(* iteration of its loops is an action.                                    *)
(*                                                                         *)
(* A frame is a page of the pool.  data holds the bytes of frames mapped   *)
(* for the program, ptab the contents of frames used as page tables; the   *)
(* invariant Ownership says that no frame is both.                         *)
(***************************************************************************)
EXTENDS PageTable

CONSTANTS
    PageSize,       \* bytes of a page
    StackPage,      \* the page below 0xc0000000 that holds the user stack
    Bytes,          \* values of a byte
    KernelFrames,   \* frames init keeps: I/O bitmap, kernel stack and tables
    Layouts,        \* memory as root_invoke may leave it to the program
    BreakArgs,      \* addresses the program passes to sys_break
    WriteAddrs,     \* addresses the program writes to
    SumArgs,        \* arguments of sys_sum
    WordSize        \* 2^32 in the code

Offsets  == 0 .. PageSize - 1
Pages    == 0 .. StackPage
BreakTop == (StackPage + 1) * PageSize          \* 0xc0000000
ZeroPage == [o \in Offsets |-> 0]

TableFrames(pd)      == {pd[s] : s \in Slots} \ {NoPage}
MappedFrames(pd, pt) == {get_mapping(pd, pt, p) : p \in Pages} \cap Frames

\* Every frame has at most one use: it is the kernel's, or the table of one
\* slot, or mapped at one page.
OneUse(pd, pt) ==
    /\ \A s, t \in Slots : pd[s] = pd[t] /\ pd[s] # NoPage => s = t
    /\ \A p, q \in Pages :
          /\ get_mapping(pd, pt, p) \in Frames
          /\ get_mapping(pd, pt, p) = get_mapping(pd, pt, q)
          => p = q
    /\ TableFrames(pd) \cap MappedFrames(pd, pt) = {}
    /\ KernelFrames \cap (TableFrames(pd) \cup MappedFrames(pd, pt)) = {}

InUse(pd, pt) == KernelFrames \cup TableFrames(pd) \cup MappedFrames(pd, pt)

\* The pages between the program's image and bound are mapped to frames,
\* those from bound to the stack to nothing, the stack page to a frame.
HeapIs(pd, pt, low, bound) ==
    /\ bound \in low .. StackPage
    /\ \A p \in low .. bound - 1 : get_mapping(pd, pt, p) \in Frames
    /\ \A p \in bound .. StackPage - 1 : get_mapping(pd, pt, p) = NoPage
    /\ get_mapping(pd, pt, StackPage) \in Frames

\* A layout: the first page after the image, and the tables.  The last pages
\* of the image (.bss) may be frames of the pool.  The pool is too small to
\* fill the address space up to the stack.
LayoutOK(l) ==
    /\ l.low \in 1 .. StackPage - 1
    /\ l.pdir \in [Slots -> Frames \cup {NoPage}]
    /\ l.ptab \in [Frames -> [Indices -> Entries]]
    /\ OneUse(l.pdir, l.ptab)
    /\ HeapIs(l.pdir, l.ptab, l.low, l.low)
    /\ NumBits <= StackPage - l.low

ASSUME SyscallAssumption ==
    /\ PageSize \in Nat \ {0}
    /\ StackPage \in Nat \ {0}
    /\ NumSlots = StackPage \div PtSize + 1
    /\ 0 \in Bytes
    /\ KernelFrames \subseteq Frames
    /\ \A l \in Layouts : LayoutOK(l)
    /\ BreakArgs \subseteq Nat
    /\ WriteAddrs \subseteq 0 .. BreakTop - 1
    /\ SumArgs \subseteq Nat
    /\ WordSize \in Nat \ {0}

VARIABLES
    break_min, break_current,   \* Ec::break_min, Ec::break_current
    bitmap,     \* Kalloc::page_bitmap, one bit per frame
    pdir, ptab, \* the page directory and the tables
    data,       \* bytes of the frames
    eax,        \* result register of the last call
    esi,        \* address passed to the sys_break in progress, or 0
    page,       \* normal_break_for_page as a page number, or 0
    pc          \* "user", or the loop the handler is in, or how it died

memory == <<bitmap, pdir, ptab>>
vars == <<break_min, break_current, memory, data, eax, esi, page, pc>>

CeilPage(a) == (a + PageSize - 1) \div PageSize         \* align_up

Frame(p) == get_mapping(pdir, ptab, p)

Init ==
    \E l \in Layouts :
        /\ break_min = l.low * PageSize
        /\ break_current = l.low * PageSize
        /\ pdir = l.pdir
        /\ ptab = l.ptab
        /\ bitmap = [f \in Frames |-> f \in InUse(l.pdir, l.ptab)]
        /\ data = [f \in Frames |-> ZeroPage]
        /\ eax = 0 /\ esi = 0 /\ page = 0
        /\ pc = "user"
-----------------------------------------------------------------------------
(* The program *)

\* A store: to a frame, to the image, or to an unmapped page, which raises a
\* page fault that handle_exc answers with panic.
UserWrite(a, byte) ==
    LET f == Frame(a \div PageSize)
    IN  /\ pc = "user"
        /\ data' = IF f \in Frames
                   THEN [data EXCEPT ![f][a % PageSize] = byte]
                   ELSE data
        /\ pc' = IF f = NoPage THEN "fault" ELSE pc
        /\ UNCHANGED <<break_min, break_current, memory, eax, esi, page>>

sys_sum(x, y) ==
    /\ pc = "user"
    /\ eax' = (x + y) % WordSize
    /\ UNCHANGED <<break_min, break_current, memory, data, esi, page, pc>>

\* The kernel reads the string where the program says it is, and faults when
\* the program is wrong; otherwise nothing changes.
sys_print(a, len) ==
    /\ pc = "user"
    /\ \E b \in a .. a + len - 1 : Frame(b \div PageSize) = NoPage
    /\ pc' = "fault"
    /\ UNCHANGED <<break_min, break_current, memory, data, eax, esi, page>>
-----------------------------------------------------------------------------
(* sys_break *)

BreakQuery ==
    /\ pc = "user"
    /\ 0 \in BreakArgs
    /\ eax' = break_current
    /\ UNCHANGED <<break_min, break_current, memory, data, esi, page, pc>>

\* Mutant: the lower limit is not checked.
Legal_BelowMin(a) == a <= BreakTop

Legal(a) == break_min <= a /\ a <= BreakTop

BreakIllegal(a) ==
    /\ pc = "user"
    /\ a # 0 /\ ~Legal(a)
    /\ eax' = 0
    /\ UNCHANGED <<break_min, break_current, memory, data, esi, page, pc>>

\* Mutant: the tail of the last page is not cleared.
ZeroTail_Kept == data

\* The rest of the page the break is in is cleared before the loops.
ZeroTail ==
    LET tail == Frame(CeilPage(break_current) - 1)
    IN  IF break_current % PageSize = 0
        THEN data
        ELSE [data EXCEPT ![tail] =
                 [o \in Offsets |-> IF o < break_current % PageSize
                                    THEN data[tail][o] ELSE 0]]

\* Raising the break enters the first loop; lowering it, or asking for the
\* break it has, the last one.
BreakAccept(a) ==
    /\ pc = "user"
    /\ a # 0 /\ Legal(a)
    /\ esi' = a
    /\ page' = CeilPage(break_current)
    /\ data' = ZeroTail
    /\ pc' = IF break_current < a THEN "grow" ELSE "shrink"
    /\ UNCHANGED <<break_min, break_current, memory, eax>>

AtTarget == page = CeilPage(esi)

\* sysexit; the handler's locals are gone.
Return == pc' = "user" /\ esi' = 0 /\ page' = 0

\* Mutant: a frame for which there is no page table is not given back.
GrowPage_Leaks ==
    /\ pc = "grow" /\ ~AtTarget
    /\ LET frame == alloc_page(bitmap)
           taken == mark_page_allocated(bitmap, frame, TRUE)
           after == insert_mapping(taken, pdir, ptab, page, frame)
       IN  IF frame = NoPage
           THEN pc' = "undo" /\ UNCHANGED <<memory, data, page>>
           ELSE /\ data'   = [data EXCEPT ![frame] = ZeroPage]
                /\ bitmap' = after.bitmap
                /\ pdir'   = after.pdir
                /\ ptab'   = after.ptab
                /\ page'   = IF after.ok THEN page + 1 ELSE page
                /\ pc'     = IF after.ok THEN pc ELSE "undo"
    /\ UNCHANGED <<break_min, break_current, eax, esi>>

\* Mutant: an iteration that has no memory is tried again.
GrowPage_Retries ==
    /\ pc = "grow" /\ ~AtTarget
    /\ LET frame == alloc_page(bitmap)
           taken == mark_page_allocated(bitmap, frame, TRUE)
           after == insert_mapping(taken, pdir, ptab, page, frame)
       IN  /\ frame # NoPage /\ after.ok
           /\ data'   = [data EXCEPT ![frame] = ZeroPage]
           /\ bitmap' = after.bitmap
           /\ pdir'   = after.pdir
           /\ ptab'   = after.ptab
           /\ page'   = page + 1
    /\ UNCHANGED <<break_min, break_current, eax, esi, pc>>

\* alloc_page(1, FILL_0) and insert_mapping; if either has no memory the
\* frame is given back and the undo loop starts.
GrowPage ==
    /\ pc = "grow" /\ ~AtTarget
    /\ LET frame == alloc_page(bitmap)
           taken == mark_page_allocated(bitmap, frame, TRUE)
           after == insert_mapping(taken, pdir, ptab, page, frame)
       IN  IF frame = NoPage
           THEN pc' = "undo" /\ UNCHANGED <<memory, data, page>>
           ELSE /\ data'   = [data EXCEPT ![frame] = ZeroPage]
                /\ bitmap' = IF after.ok
                             THEN after.bitmap
                             ELSE mark_page_allocated(taken, frame, FALSE)
                /\ pdir'   = after.pdir
                /\ ptab'   = after.ptab
                /\ page'   = IF after.ok THEN page + 1 ELSE page
                /\ pc'     = IF after.ok THEN pc ELSE "undo"
    /\ UNCHANGED <<break_min, break_current, eax, esi>>

\* free_page of the frame the page below maps to, then unmap that page.
\* free_page panics when that is not an allocated frame.
ReleasePage ==
    LET frame == Frame(page - 1)
        valid == frame \in Frames /\ bitmap[frame]
        freed == mark_page_allocated(bitmap, frame, FALSE)
        after == insert_mapping(freed, pdir, ptab, page - 1, NoPage)
    IN  /\ IF valid
           THEN /\ bitmap' = after.bitmap
                /\ pdir' = after.pdir
                /\ ptab' = after.ptab
                /\ page' = page - 1
                /\ pc' = pc
           ELSE pc' = "panic" /\ UNCHANGED <<memory, page>>
        /\ UNCHANGED <<break_min, break_current, data, eax, esi>>

\* Mutant: the undo loop does not stop at the old break.
UndoPage_Always == pc = "undo" /\ ReleasePage

UndoPage ==
    /\ pc = "undo" /\ page # CeilPage(break_current)
    /\ ReleasePage

\* Mutant: a refused call leaves the pages it has mapped.
BreakRefused_AtOnce ==
    /\ pc = "undo"
    /\ eax' = 0
    /\ Return
    /\ UNCHANGED <<break_min, break_current, memory, data>>

BreakRefused ==
    /\ pc = "undo" /\ page = CeilPage(break_current)
    /\ eax' = 0
    /\ Return
    /\ UNCHANGED <<break_min, break_current, memory, data>>

ShrinkPage ==
    /\ pc = "shrink" /\ ~AtTarget
    /\ ReleasePage

BreakDone ==
    /\ pc \in {"grow", "shrink"} /\ AtTarget
    /\ eax' = break_current
    /\ break_current' = esi
    /\ Return
    /\ UNCHANGED <<break_min, memory, data>>
-----------------------------------------------------------------------------
Handler == GrowPage \/ UndoPage \/ BreakRefused \/ ShrinkPage \/ BreakDone

User ==
    \/ \E a \in WriteAddrs, byte \in Bytes : UserWrite(a, byte)
    \/ \E x, y \in SumArgs : sys_sum(x, y)
    \/ \E a \in WriteAddrs, len \in 1 .. PageSize : sys_print(a, len)
    \/ BreakQuery
    \/ \E a \in BreakArgs : BreakIllegal(a) \/ BreakAccept(a)

Next == User \/ Handler

\* The handler runs with interrupts off and returns to the program only by
\* sysexit, so nothing keeps it from taking its next step.
Spec == Init /\ [][Next]_vars /\ WF_vars(Handler)
-----------------------------------------------------------------------------
(* Properties *)

Loops == {"grow", "undo", "shrink"}

TypeOK ==
    /\ break_min \in Nat /\ break_current \in Nat
    /\ bitmap \in Bitmaps
    /\ pdir \in [Slots -> Frames \cup {NoPage}]
    /\ ptab \in [Frames -> [Indices -> Entries]]
    /\ data \in [Frames -> [Offsets -> Bytes]]
    /\ eax \in Nat /\ esi \in Nat /\ page \in Nat
    /\ pc \in Loops \cup {"user", "fault", "panic"}

\* Every frame in use has one use, and the allocator's bitmap says exactly
\* which frames are in use: no frame is leaked by a refused or interrupted
\* sys_break, shared by two pages, or free while mapped.
Ownership ==
    /\ OneUse(pdir, ptab)
    /\ \A f \in Frames : bitmap[f] <=> f \in InUse(pdir, ptab)

\* The first page that the heap does not reach: the loop's page while the
\* handler maps or unmaps pages, the page after the break otherwise.
HeapBound == IF pc \in Loops THEN page ELSE CeilPage(break_current)

\* The mapped heap is always the pages from break_min to HeapBound, whatever
\* call failed before; it never reaches the stack page, which sys_break's own
\* test (address > 0xc0000000) would allow.
HeapExtent == HeapIs(pdir, ptab, break_min \div PageSize, HeapBound)

\* The loops start and stay on the side of their target they move to (a loop
\* that overshot `!=' would unmap or map everything it can reach).
LoopBounds ==
    /\ break_min % PageSize = 0
    /\ NumBits <= StackPage - break_min \div PageSize
    /\ break_current \in break_min .. BreakTop
    /\ pc \in Loops => Legal(esi)
    /\ pc = "grow"   => /\ break_current < esi
                        /\ page \in CeilPage(break_current) .. CeilPage(esi)
    /\ pc = "undo"   => /\ page \in CeilPage(break_current) .. CeilPage(esi) - 1
    /\ pc = "shrink" => /\ esi <= break_current
                        /\ page \in CeilPage(esi) .. CeilPage(break_current)

\* free_page is never asked to free something that is not allocated.
NoPanic == pc # "panic"

Addrs      == 0 .. BreakTop - 1
StackAddrs == StackPage * PageSize .. BreakTop - 1

\* The break as the program will see it: lowering it cannot fail, so it takes
\* effect when the handler accepts it.
Lowering == pc = "shrink"
BreakSeen == IF Lowering THEN esi ELSE break_current

Byte(a) ==
    LET f == Frame(a \div PageSize)
    IN  IF f \in Frames THEN data[f][a % PageSize] ELSE 0

Promise == INSTANCE Break WITH
    Top  <- BreakTop,
    Sums <- {(x + y) % WordSize : x, y \in SumArgs},
    min  <- break_min,
    brk  <- BreakSeen,
    ask  <- IF pc \in {"grow", "undo"} THEN esi ELSE 0,
    eax  <- IF Lowering THEN break_current ELSE eax,
    cell <- [a \in Addrs |->
                IF a \in break_min .. BreakSeen - 1 \/ a \in StackAddrs
                THEN Byte(a) ELSE 0]

\* Through pages, frames and tables the program gets the heap Break describes:
\* bytes entering the heap are zero, bytes staying in it and the stack keep
\* their values, a refused call changes nothing.
ImplementsBreak == Promise!Spec

\* Every sys_break returns to the program.
BreakReturns == pc \in Loops ~> pc = "user"
=============================================================================
