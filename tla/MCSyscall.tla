------------------------------ MODULE MCSyscall ------------------------------
(***************************************************************************)
(* A pool of nine 2-byte pages and tables of two entries.  Frame 0 is the  *)
(* kernel's, 1 the table of the image's page, 2 the stack, 3 the stack's   *)
(* table.  The second layout has a page of .bss in frame 4: with five      *)
(* frames left a growing heap runs out at a page table, with four at a     *)
(* page, so the handler fails at both places.                              *)
(***************************************************************************)
EXTENDS Syscall

MCPtab(image) ==
    [f \in Frames |->
        CASE f = 1 -> [k \in Indices |-> IF k = 0 THEN image ELSE NoPage]
          [] f = 3 -> [k \in Indices |-> IF k = Index(StackPage) THEN 2
                                                                ELSE NoPage]
          [] OTHER -> EmptyTable]

MCLayout(image) ==
    [low  |-> 1,
     pdir |-> [s \in Slots |-> CASE s = 0               -> 1
                                 [] s = Slot(StackPage) -> 3
                                 [] OTHER               -> NoPage],
     ptab |-> MCPtab(image)]

MCLayouts == {MCLayout(Image), MCLayout(4)}

\* Below the image's end, every break up to one page more than fits, and the
\* two sides of the upper limit.
MCBreakArgs == (0 .. 9) \cup {BreakTop, BreakTop + 1}

\* Both bytes of the first heap page, one of the next, one of the stack.
MCWriteAddrs == {2, 3, 4, StackPage * PageSize}
=============================================================================
