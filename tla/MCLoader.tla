------------------------------ MODULE MCLoader -------------------------------
(***************************************************************************)
(* Two-byte pages, a pool of seven, page tables of four entries.  A file   *)
(* has one or two segments, anywhere in pages 1 to 4 of the address space  *)
(* and in the first four bytes of the file, in either order, overlapping,  *)
(* on a common page of memory or of the file or apart, with up to five     *)
(* bytes of .bss: enough for the pool to run out at a page, at a table and *)
(* at the stack.                                                           *)
(***************************************************************************)
EXTENDS Loader

MCSegments ==
    {h \in [load : {TRUE}, writable : BOOLEAN, addr : {2, 3, 6}, offs : 1 .. 4,
            fsize : {0, 1, 2}, msize : {0, 1, 2, 3, 5}] :
        \/ h.fsize <= h.msize /\ h.addr % 2 = h.offs % 2
        \/ h.offs = 1 /\ h.fsize = 1}

MCNote == [load |-> FALSE, writable |-> FALSE, addr |-> 0, offs |-> 0,
           fsize |-> 4, msize |-> 0]

\* The second segment of a file of two: with bytes in the file, or with a .bss
\* that takes whole pages.
MCSecond ==
    {h \in MCSegments : \/ h.fsize = 1 /\ h.msize \in {1, 3}
                        \/ h.msize = 5 /\ h.addr # 3 /\ h.writable}

MCFile(hs, start) == [modules |-> TRUE, mega |-> 4, elf |-> TRUE,
                      start |-> start, headers |-> hs]

MCImages ==
    {MCFile(<<h>>, s) : h \in MCSegments, s \in {0, 1}}
    \cup {MCFile(<<h, MCNote, g>>, 0) : h \in MCSegments, g \in MCSecond}
    \cup {[MCFile(<<MCNote>>, 0) EXCEPT !.modules = m, !.mega = a, !.elf = e] :
            m, e \in BOOLEAN, a \in 4 .. 8}
=============================================================================
