------------------------------- MODULE Loader --------------------------------
(***************************************************************************)
(* Ec::root_invoke of kern/src/ec.cc: from the boot loader's information   *)
(* to the first instruction of the user program.  It reads an ELF file     *)
(* that lies in physical memory, maps the file's own pages where a segment *)
(* has bytes in the file and fresh pages of the pool where it has not,     *)
(* zeroes .bss through the user's mapping, and sets the break.             *)
(*                                                                         *)
(* Physical memory is the pool's frames 0 .. NumBits - 1 and, above them,  *)
(* the pages the boot loader put the file in.  A mapping is a frame and    *)
(* whether it may be written: the kernel runs with CR0.WP set, so its own  *)
(* memset respects that too.                                               *)
(***************************************************************************)
EXTENDS PageTable, Sequences, FiniteSets

CONSTANTS
    PageSize,       \* bytes of a page
    StackPage,      \* the page below 0xc0000000
    KernelFrames,   \* frames init has allocated
    ModPages,       \* pages of memory the file lies in
    Images          \* what the boot loader may hand over, see ImageOK

Offsets  == 0 .. PageSize - 1
Memory   == 0 .. NumBits + ModPages - 1
ModBase  == NumBits * PageSize

Floor(a) == a \div PageSize                     \* align_dn
Ceil(a)  == (a + PageSize - 1) \div PageSize    \* align_up

\* A physical byte of the file has a number of its own; 0 is the zero byte,
\* Dirty what a frame of the pool held before.
ModByte(a) == a - ModBase + 1
Dirty == ModPages * PageSize + 1

\* modules: a module was passed.  mega: the megabyte of memory the boot
\* loader's data and the file are in.  elf: the header is that of an i386
\* executable.  start: where in its first page the file begins.  headers: the
\* program headers.  Segments lie below the stack, and their bytes in the file.
Header == [load : BOOLEAN, writable : BOOLEAN, addr : Nat, offs : Nat,
           fsize : Nat, msize : Nat]
ImageOK(im) ==
    /\ im.modules \in BOOLEAN /\ im.elf \in BOOLEAN
    /\ im.mega \in Nat
    /\ im.start \in Offsets
    /\ im.headers \in Seq(Header)
    /\ \A k \in DOMAIN im.headers :
          LET h == im.headers[k]
          IN  h.load => /\ Ceil(h.addr + h.msize) <= StackPage
                        /\ Ceil(im.start + h.offs + h.fsize) <= ModPages

ASSUME LoaderAssumption ==
    /\ PageSize \in Nat \ {0} /\ StackPage \in Nat \ {0} /\ ModPages \in Nat
    /\ NumSlots = StackPage \div PtSize + 1
    /\ KernelFrames \subseteq Frames
    /\ NoPage \notin [frame : Nat, writable : BOOLEAN]
    /\ \A im \in Images : ImageOK(im)

VARIABLES
    image,              \* the file, chosen by Init
    pc,                 \* "multiboot", "elf", "headers", "pages", "bss",
                        \* "stack", then "user" or "panic"
    i,                  \* number of the program header
    virt, phys,         \* next page and the file's page for it
    fsize, msize,       \* pages of the segment left, in the file and in all
    bitmap, pdir, ptab, \* allocator and page tables, as in Syscall
    mem,                \* bytes of Memory
    break_min           \* Ec::break_min as a page (0: not set)

locals == <<i, virt, phys, fsize, msize>>
tables == <<bitmap, pdir, ptab>>
vars == <<image, pc, locals, tables, mem, break_min>>

header == image.headers[i]
Panic == pc' = "panic" /\ UNCHANGED <<image, locals, tables, mem, break_min>>

Mapped(page) == get_mapping(pdir, ptab, page)

Init ==
    /\ image \in Images
    /\ pc = "multiboot"
    /\ i = 1 /\ virt = 0 /\ phys = 0 /\ fsize = 0 /\ msize = 0
    /\ bitmap = [f \in Frames |-> f \in KernelFrames]
    /\ pdir = [s \in Slots |-> NoPage]
    /\ ptab = [f \in Frames |-> EmptyTable]
    /\ mem = [f \in Memory |-> [o \in Offsets |->
                IF f < NumBits THEN Dirty ELSE ModByte(f * PageSize + o)]]
    /\ break_min = 0
-----------------------------------------------------------------------------
\* "No multiboot modules".
CheckMultiboot ==
    /\ pc = "multiboot"
    /\ IF image.modules
       THEN pc' = "elf" /\ UNCHANGED <<image, locals, tables, mem, break_min>>
       ELSE Panic

\* The megabyte Ptab::remap shows for an address in megabyte m: bits 20 and 21
\* go into the page-directory entry, where a page of four megabytes has no
\* address bits, and not into the offset.
remap(m) == m - (m % 4)

\* "No ELF": what another megabyte shows is no ELF header.  (A processor that
\* checks the bits remap sets faults instead, which panics too.)
CheckELF ==
    /\ pc = "elf"
    /\ IF remap(image.mega) = image.mega /\ image.elf
       THEN /\ pc' = "headers"
            /\ UNCHANGED <<image, locals, tables, mem, break_min>>
       ELSE Panic

\* Mutant: a header that is not PT_LOAD is met again.
SkipHeader_Stays ==
    /\ pc = "headers" /\ i <= Len(image.headers)
    /\ ~ header.load
    /\ UNCHANGED vars

SkipHeader ==
    /\ pc = "headers" /\ i <= Len(image.headers)
    /\ ~ header.load
    /\ i' = i + 1
    /\ UNCHANGED <<image, pc, virt, phys, fsize, msize, tables, mem, break_min>>

\* Mutant: a segment without .bss is refused.
BadHeader_NoBss(h) ==
    h.fsize >= h.msize \/ h.addr % PageSize # h.offs % PageSize

BadHeader(h) ==
    h.fsize > h.msize \/ h.addr % PageSize # h.offs % PageSize

StartSegment ==
    /\ pc = "headers" /\ i <= Len(image.headers)
    /\ header.load
    /\ IF BadHeader(header)
       THEN Panic
       ELSE /\ virt'  = Floor(header.addr)
            /\ phys'  = Floor(header.offs + ModBase + image.start)
            /\ fsize' = Ceil((header.addr % PageSize) + header.fsize)
            /\ msize' = Ceil((header.addr % PageSize) + header.msize)
            /\ pc' = "pages"
            /\ UNCHANGED <<image, i, tables, mem, break_min>>

\* insert_mapping of one page with memory bm, then on to the next page.
MapPage(bm, frame) ==
    LET entry == [frame |-> frame, writable |-> header.writable]
        after == insert_mapping(bm, pdir, ptab, virt, entry)
    IN  IF ~ after.ok
        THEN Panic
        ELSE /\ bitmap' = after.bitmap
             /\ pdir' = after.pdir
             /\ ptab' = after.ptab
             /\ virt' = virt + 1
             /\ msize' = msize - 1
             /\ fsize' = IF fsize > 0 THEN fsize - 1 ELSE 0
             /\ phys' = frame + 1
             /\ mem' = IF frame < NumBits
                       THEN [mem EXCEPT ![frame] = [o \in Offsets |-> 0]]
                       ELSE mem
             /\ UNCHANGED <<image, pc, i, break_min>>

MapFilePage ==
    /\ pc = "pages" /\ fsize > 0
    /\ MapPage(bitmap, phys)

\* Mutant: the frame is not taken out of the pool.
MapZeroPage_NotMarked ==
    /\ pc = "pages" /\ msize > 0 /\ fsize = 0
    /\ LET frame == alloc_page(bitmap)
       IN  IF frame = NoPage THEN Panic ELSE MapPage(bitmap, frame)

MapZeroPage ==
    /\ pc = "pages" /\ msize > 0 /\ fsize = 0
    /\ LET frame == alloc_page(bitmap)
       IN  IF frame = NoPage
           THEN Panic
           ELSE MapPage(mark_page_allocated(bitmap, frame, TRUE), frame)

\* The bytes memset clears; through a read-only mapping it faults, and
\* handle_exc panics.
BssBytes(h) == h.addr + h.fsize .. h.addr + h.msize - 1

\* Mutant: .bss is taken to be the fresh pages only.
Zeroed_FreshOnly == mem

Zeroed ==
    [f \in Memory |-> [o \in Offsets |->
        IF \E a \in BssBytes(header) :
              Mapped(Floor(a)).frame = f /\ a % PageSize = o
        THEN 0
        ELSE mem[f][o]]]

\* memset of .bss, and the break after the segment.
EndSegment ==
    /\ pc = "pages" /\ msize = 0
    /\ IF BssBytes(header) # {} /\ ~ header.writable
       THEN Panic
       ELSE /\ mem' = Zeroed
            /\ break_min' = virt
            /\ i' = i + 1
            /\ pc' = "headers"
            /\ UNCHANGED <<image, virt, phys, fsize, msize, tables>>

\* The stack's page, and sysexit to the program.
MapStack ==
    /\ pc = "headers" /\ i > Len(image.headers)
    /\ LET frame == alloc_page(bitmap)
           taken == mark_page_allocated(bitmap, frame, TRUE)
           entry == [frame |-> frame, writable |-> TRUE]
           after == insert_mapping(taken, pdir, ptab, StackPage, entry)
       IN  IF frame = NoPage
           THEN Panic
           ELSE IF ~ after.ok
           THEN Panic
           ELSE /\ bitmap' = after.bitmap
                /\ pdir' = after.pdir
                /\ ptab' = after.ptab
                /\ mem' = [mem EXCEPT ![frame] = [o \in Offsets |-> 0]]
                /\ pc' = "user"
                /\ UNCHANGED <<image, locals, break_min>>

Next ==
    \/ CheckMultiboot \/ CheckELF
    \/ SkipHeader \/ StartSegment
    \/ MapFilePage \/ MapZeroPage \/ EndSegment
    \/ MapStack

\* Nothing else runs: interrupts are off until sysexit.
Spec == Init /\ [][Next]_vars /\ WF_vars(Next)
-----------------------------------------------------------------------------
(* Properties *)

Loaded == {k \in DOMAIN image.headers : image.headers[k].load}
H(k) == image.headers[k]
SegBytes(k) == H(k).addr .. H(k).addr + H(k).msize - 1

\* The pages the loop maps for a segment, and those it maps to the file.
PagesTo(k, size) == Floor(H(k).addr) .. Ceil(H(k).addr + size) - 1
SegPages(k)  == PagesTo(k, H(k).msize)
FilePages(k) == PagesTo(k, H(k).fsize)
ZeroPages(k) == SegPages(k) \ FilePages(k)

\* The file bytes that clearing segment k's .bss also clears: those behind
\* its own bytes in its last page.
Wiped(k) == {H(k).offs + (a - H(k).addr) :
                a \in {b \in BssBytes(H(k)) : Floor(b) \in FilePages(k)}}

Unshared(k, page) == \A n \in Loaded \ {k} : page \notin SegPages(n)

\* When the program starts, every byte of every segment is what the file says
\* or zero, and writable as the file says, unless another segment has a part
\* of the same page, or .bss of another segment lies in the same page of the
\* file, or the file does not begin at a page (nothing in the multiboot
\* header asks the boot loader for that).
ImageLoaded ==
    (pc = "user" /\ image.start = 0) =>
    \A k \in Loaded : \A a \in SegBytes(k) :
        LET d == a - H(k).addr
            entry == Mapped(Floor(a))
            byte == mem[entry.frame][a % PageSize]
        IN  Unshared(k, Floor(a)) =>
                /\ entry.writable = H(k).writable
                /\ d >= H(k).fsize => byte = 0
                /\ d < H(k).fsize =>
                       \/ byte = ModByte(ModBase + H(k).offs + d)
                       \/ \E n \in Loaded : H(k).offs + d \in Wiped(n)

\* What the system calls take for granted.
S == INSTANCE Syscall WITH
    Bytes <- {0}, Layouts <- {}, BreakArgs <- {}, WriteAddrs <- {},
    SumArgs <- {}, WordSize <- 1, break_current <- break_min, data <- mem,
    eax <- 0, esi <- 0, page <- 0

Forget(entry) ==
    IF entry = NoPage THEN NoPage
    ELSE IF entry.frame \in Frames THEN entry.frame
    ELSE Image

FrameTables == [f \in Frames |-> [x \in Indices |-> Forget(ptab[f][x])]]

\* The last segment in the file is the highest, and no two share a page.
Ordered ==
    /\ Loaded # {}
    /\ \A k \in Loaded, n \in Loaded : k < n =>
          Ceil(H(k).addr + H(k).msize) <= Floor(H(n).addr)

\* They lie above the first page, and there are at least as many pages between
\* them and the stack as the pool has frames (a few thousand; user space has
\* nearly 786 thousand pages).
RoomBelowStack ==
    \A k \in Loaded :
        /\ H(k).addr >= PageSize
        /\ Ceil(H(k).addr + H(k).msize) <= StackPage - NumBits

\* For a file whose segments are in order on pages of their own, and so low
\* that the heap cannot reach the stack, the program starts in a memory that
\* Syscall begins with: nothing above the break but the stack, no frame with
\* two uses, and allocated exactly what is used.
LeavesLayout ==
    (pc = "user" /\ Ordered /\ RoomBelowStack) =>
    /\ S!LayoutOK([low |-> break_min, pdir |-> pdir, ptab |-> FrameTables])
    /\ \A f \in Frames : bitmap[f] <=> f \in S!InUse(pdir, FrameTables)

\* Frames a file needs: a table for every slot, every page without bytes in
\* the file, and the stack.
Needed ==
    LET pages == UNION {{<<k, p>> : p \in ZeroPages(k)} : k \in Loaded}
        slots == {Slot(p) : p \in {StackPage} \cup UNION {SegPages(k) : k \in Loaded}}
    IN  Cardinality(KernelFrames) + Cardinality(slots) + Cardinality(pages) + 1

WellFormed ==
    /\ image.modules /\ image.elf /\ image.mega % 4 = 0
    /\ \A k \in Loaded :
          /\ H(k).fsize <= H(k).msize
          /\ H(k).addr % PageSize = H(k).offs % PageSize
          /\ H(k).fsize < H(k).msize => H(k).writable

\* The program is started exactly when its file is well formed (and none of
\* its read-only segments has .bss), lies in the megabyte of four that remap
\* shows, and the pool has the frames it needs.
RunsIffFits ==
    /\ pc = "user"  => WellFormed /\ Needed <= NumBits
    /\ pc = "panic" => ~ (WellFormed /\ Needed <= NumBits)

\* The kernel starts the program or says why not.
Decides == <>(pc \in {"user", "panic"})
=============================================================================
