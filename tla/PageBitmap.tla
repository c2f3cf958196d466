----------------------------- MODULE PageBitmap -----------------------------
(***************************************************************************)
(* The page bitmap of the kernel's allocator (kern/include/kalloc.h and    *)
(* kern/src/kalloc.cc): one bit for every 4 KB page of the memory pool.    *)
(* Operators only; KallocSearch runs the bit-by-bit search over it, Kalloc *)
(* and Syscall use its result, FirstFit.                                   *)
(***************************************************************************)
EXTENDS Integers

CONSTANTS
    NumBits,    \* bits of the bitmap (16384 in the code, 64 MB of 4 KB pages)
    NoPage      \* what alloc_page returns when no run is free (NULL)

Bits == 0 .. NumBits - 1

ASSUME BitmapAssumption == NumBits \in Nat \ {0} /\ NoPage \notin Int

Bitmaps == [Bits -> BOOLEAN]

is_page_allocated(bm, idx) == bm[idx]

mark_page_allocated(bm, idx, allocated) == [bm EXCEPT ![idx] = allocated]

Run(first, size) == first .. first + size - 1

\* Every page of the run that starts at first is below limit and free.
FreeRun(bm, limit, size, first) ==
    /\ first + size <= limit
    /\ \A p \in Run(first, size) : ~ is_page_allocated(bm, p)

Fits(bm, limit, size) == {p \in Bits : FreeRun(bm, limit, size, p)}

\* What alloc_page returns: the lowest free run of size pages, or NoPage.
FirstFit(bm, limit, size) ==
    IF Fits(bm, limit, size) = {}
    THEN NoPage
    ELSE CHOOSE p \in Fits(bm, limit, size) :
            \A q \in Fits(bm, limit, size) : p <= q

\* The loop at the end of alloc_page that marks the run it found.
MarkRun(bm, first, size) ==
    [p \in Bits |-> \/ p \in Run(first, size)
                    \/ bm[p]]
=============================================================================
