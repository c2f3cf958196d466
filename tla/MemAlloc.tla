------------------------------- MODULE MemAlloc -------------------------------
(***************************************************************************)
(* The user-space allocator (user/mem_alloc.c): my_malloc searches a       *)
(* linked list of blocks for a free one, gathering consecutive free blocks *)
(* that are too small, and grows the heap with nbrk when there is none;    *)
(* my_free marks a block free.  The list lives in the heap it manages, in  *)
(* the three words before each payload, next to what the program writes,   *)
(* so the model keeps the heap word by word.                               *)
(*                                                                         *)
(* Sizes and addresses are in words.  NULL is 0 and the heap starts above  *)
(* it.  nbrk is the kernel's sys_break (module Syscall), reduced to what   *)
(* the allocator sees of it: the heap grows by what was asked for, with    *)
(* words that read as zero, or the call returns 0.                         *)
(***************************************************************************)
EXTENDS Integers, FiniteSets

CONSTANTS
    Base,       \* the break when the program starts
    MaxBreak,   \* bound on the heap
    Sizes,      \* sizes the program asks for
    Cookies     \* values the program fills its payloads with

HDR   == 3       \* sizeof (block_t): size, free, next
NULL  == 0
Error == -1     \* my_free's other result

ASSUME MemAllocAssumption ==
    /\ Base \in Nat \ {0}
    /\ MaxBreak \in Nat /\ MaxBreak > Base
    /\ Sizes \subseteq Nat
    /\ Cookies \subseteq Nat

VARIABLES
    mem,        \* the heap, word by word
    brk,        \* the program's break
    head, tail, \* the list of blocks
    pc,         \* "idle", "search" inside new_free_memory_chunck, or "astray"
    size, curr, new_block, my_size, \* its argument and locals
    result,     \* what the last call returned
    live,       \* payloads the program holds, with the size it asked for
    filled,     \* what it has filled those with that it has filled
    freed,      \* addresses it has given back
    blocks      \* headers that were written and not gathered into another

search == <<size, curr, new_block, my_size>>
vars == <<mem, brk, head, tail, pc, search, result, live, filled, freed, blocks>>

Words == 0 .. MaxBreak - 1

SizeOf(b) == mem[b]
Free(b)   == mem[b + 1] # 0
NextOf(b) == mem[b + 2]

Payload(p) == p .. p + live[p] - 1

Init ==
    /\ mem = [w \in Words |-> 0]
    /\ brk = Base
    /\ head = NULL /\ tail = NULL
    /\ pc = "idle"
    /\ size = 0 /\ curr = NULL /\ new_block = NULL /\ my_size = 0
    /\ result = NULL
    /\ live = [p \in {} |-> 0]
    /\ filled = live /\ freed = {} /\ blocks = {}
-----------------------------------------------------------------------------
(* my_malloc *)

my_malloc(n) ==
    /\ pc = "idle"
    /\ IF n = 0
       THEN result' = NULL /\ UNCHANGED <<pc, search>>
       ELSE /\ pc' = "search"
            /\ size' = n
            /\ curr' = head /\ new_block' = NULL /\ my_size' = 0
            /\ UNCHANGED result
    /\ UNCHANGED <<mem, brk, head, tail, live, filled, freed, blocks>>

\* my_malloc returns; its locals are gone.
Return(value) ==
    /\ result' = value
    /\ pc' = "idle"
    /\ size' = 0 /\ curr' = NULL /\ new_block' = NULL /\ my_size' = 0

\* The payload of block b goes to the program.
HandOut(b) ==
    LET p == b + HDR
    IN  /\ Return(p)
        /\ live' = [q \in DOMAIN live \cup {p} |-> IF q = p THEN size ELSE live[q]]
        /\ freed' = freed \ {p}
        /\ UNCHANGED filled

InSearch == pc = "search" /\ curr # NULL

\* Mutant: a free block is taken whatever its size.
TakeBlock_AnySize ==
    /\ InSearch
    /\ Free(curr)
    /\ mem' = [mem EXCEPT ![curr + 1] = 0]
    /\ HandOut(curr)
    /\ UNCHANGED <<brk, head, tail, blocks>>

\* A free block that is large enough is taken whole.
TakeBlock ==
    /\ InSearch
    /\ Free(curr) /\ SizeOf(curr) >= size
    /\ mem' = [mem EXCEPT ![curr + 1] = 0]
    /\ HandOut(curr)
    /\ UNCHANGED <<brk, head, tail, blocks>>

\* Mutant: blocks that hold exactly the request are not enough.
Suffices_Strictly(total) == total > size

Suffices(total) == total >= size

\* The blocks from first to curr become one, whose size is the sum of theirs
\* without their headers; my_malloc marks it used.
Join(first, total) ==
    [mem EXCEPT ![first] = total, ![first + 1] = 0, ![first + 2] = NextOf(curr)]

\* A smaller one joins the free blocks right before it, if they suffice.
GatherBlock ==
    LET first == IF new_block = NULL THEN curr ELSE new_block
        total == IF new_block = NULL THEN SizeOf(curr) ELSE my_size + SizeOf(curr)
    IN  /\ InSearch
        /\ Free(curr) /\ SizeOf(curr) < size
        /\ IF Suffices(total)
           THEN /\ mem' = Join(first, total)
                /\ blocks' = {b \in blocks : b <= first \/ b > curr}
                /\ HandOut(first)
           ELSE /\ new_block' = first /\ my_size' = total
                /\ curr' = NextOf(curr)
                /\ UNCHANGED <<mem, pc, size, result, live, filled, freed, blocks>>
        /\ UNCHANGED <<brk, head, tail>>

\* Mutant: the search does not step over a used block.
SkipBlock_Stays ==
    /\ InSearch
    /\ ~Free(curr)
    /\ new_block' = NULL
    /\ UNCHANGED <<mem, brk, head, tail, pc, size, curr, my_size, result, live,
                   filled, freed, blocks>>

SkipBlock ==
    /\ InSearch
    /\ ~Free(curr)
    /\ new_block' = NULL
    /\ curr' = NextOf(curr)
    /\ UNCHANGED <<mem, brk, head, tail, pc, size, my_size, result, live, filled,
                   freed, blocks>>

\* Mutant: the break is raised by the size alone.
NewBreak_NoHeader == brk + size

NewBreak == brk + size + HDR

\* Mutant: the tail stays at the first block.
NewTail_First == IF tail = NULL THEN brk ELSE tail

NewTail == brk

\* No block: the heap grows, and the new block is linked behind the tail.
Grow ==
    LET b == brk
        linked == IF tail = NULL THEN mem ELSE [mem EXCEPT ![tail + 2] = b]
    IN  /\ pc = "search" /\ curr = NULL
        /\ NewBreak <= MaxBreak
        /\ brk' = NewBreak
        /\ mem' = [linked EXCEPT ![b] = size, ![b + 1] = 0, ![b + 2] = NULL]
        /\ head' = IF head = NULL THEN b ELSE head
        /\ tail' = NewTail
        /\ blocks' = blocks \cup {b}
        /\ HandOut(b)

\* nbrk returned 0; the kernel may refuse any growth.
GrowFails ==
    /\ pc = "search" /\ curr = NULL
    /\ Return(NULL)
    /\ UNCHANGED <<mem, brk, head, tail, live, filled, freed, blocks>>
-----------------------------------------------------------------------------
(* my_free, and the program's own stores *)

\* Mutant: a block that is free already can be freed.
Owned_AnyBlock(a) == brk >= a

\* my_free's test of an address.
Owned(a) == brk >= a /\ mem[a - HDR + 1] = 0

my_free(a) ==
    /\ pc = "idle"
    /\ mem' = IF Owned(a) THEN [mem EXCEPT ![a - HDR + 1] = 1] ELSE mem
    /\ result' = IF Owned(a) THEN 0 ELSE Error
    /\ UNCHANGED <<brk, head, tail, search, blocks>>

FreeLive(p) ==
    /\ my_free(p)
    /\ live' = [q \in DOMAIN live \ {p} |-> live[q]]
    /\ filled' = [q \in DOMAIN filled \ {p} |-> filled[q]]
    /\ freed' = freed \cup {p}
    /\ UNCHANGED pc

\* The program frees an address a second time.
FreeAgain(a) ==
    /\ my_free(a)
    /\ UNCHANGED <<pc, live, filled, freed>>

\* It frees an address it never got, on the heap or above it.  If my_free takes
\* that, the model follows the program no further: it may have no list any more.
FreeStray(a) ==
    /\ a \notin DOMAIN live \cup freed
    /\ my_free(a)
    /\ pc' = IF Owned(a) THEN "astray" ELSE pc
    /\ UNCHANGED <<live, filled, freed>>

Astray == pc = "astray" /\ UNCHANGED vars

\* The addresses whose mark would be on the heap, and one above the break.
Addresses == Base + HDR - 1 .. brk + 1

Fill(p, cookie) ==
    /\ pc = "idle"
    /\ p \notin DOMAIN filled
    /\ mem' = [w \in Words |-> IF w \in Payload(p) THEN cookie ELSE mem[w]]
    /\ filled' = [q \in DOMAIN filled \cup {p} |-> IF q = p THEN cookie ELSE filled[q]]
    /\ UNCHANGED <<brk, head, tail, pc, search, result, live, freed, blocks>>

Next ==
    \/ \E n \in Sizes : my_malloc(n)
    \/ TakeBlock \/ GatherBlock \/ SkipBlock \/ Grow \/ GrowFails
    \/ \E p \in DOMAIN live : FreeLive(p) \/ \E cookie \in Cookies : Fill(p, cookie)
    \/ \E a \in freed : FreeAgain(a)
    \/ \E a \in Addresses : FreeStray(a)
    \/ Astray

Search == TakeBlock \/ GatherBlock \/ SkipBlock \/ Grow \/ GrowFails

Spec == Init /\ [][Next]_vars /\ WF_vars(Search)
-----------------------------------------------------------------------------
(* Properties *)

\* The blocks do not overlap, the payload of each one ends below the next
\* header and the break, and a payload the program holds is that of a block
\* marked used, at least as large as it asked for: nothing the program may
\* write belongs to another block or to the list.
BlocksDisjoint ==
    /\ \A b \in blocks :
          /\ b + HDR + SizeOf(b) <= brk
          /\ \A c \in blocks : b < c => b + HDR + SizeOf(b) <= c
    /\ \A b \in blocks : ~Free(b) <=> b + HDR \in DOMAIN live
    /\ \A p \in DOMAIN live : p - HDR \in blocks /\ live[p] <= SizeOf(p - HDR)

\* The list only ever leads from a block to the one after it, so a search
\* ends; it starts at the first block.
ListOrdered ==
    pc # "astray" =>
    /\ head = NULL <=> blocks = {}
    /\ \A b \in blocks :
          /\ head <= b
          /\ NextOf(b) # NULL =>
                /\ NextOf(b) \in blocks /\ NextOf(b) > b
                /\ \A c \in blocks : c <= b \/ NextOf(b) <= c

\* The blocks a search that starts at head comes to.
Reachable == {b \in blocks : \A c \in blocks : c < b => NextOf(c) # NULL}

\* The words of some blocks' payloads.
Room(run) == UNION {b + HDR .. b + HDR + SizeOf(b) - 1 : b \in run}

\* The heap only grows, or the request fails, when no run of free neighbours
\* on the list has room for the request.
ReusesFreeBlocks ==
    [][Grow \/ GrowFails =>
          \A first, last \in Reachable :
             LET run == {b \in Reachable : first <= b /\ b <= last}
             IN  (\A b \in run : Free(b)) => Cardinality(Room(run)) < size
      ]_vars

\* my_free takes back every payload the program holds, and whatever else it is
\* given, it never writes a block's size or its mark: it refuses the address, or
\* the mark it sets is a word of no header, or (if the program never got that
\* address from my_malloc) the `next' of the last block.
FreeMarksNoOther ==
    [][\A a \in Addresses : my_free(a) =>
          LET mark == a - HDR + 1
          IN  \/ a \in DOMAIN live /\ result' = 0
              \/ a \notin DOMAIN live /\ result' = Error /\ mem' = mem
              \/ /\ a \notin DOMAIN live /\ result' = 0
                 /\ \A b \in blocks :
                       /\ mark \notin {b, b + 1}
                       /\ mark = b + 2 => NextOf(b) = NULL /\ a \notin freed
      ]_vars

\* What the allocator changes of a payload the program holds is at most one
\* word, the `next' field of a tail that was gathered into it.
DamageIsTailNext ==
    [][Search =>
          \A p \in DOMAIN live : \A w \in Payload(p) :
             mem'[w] # mem[w] => /\ Grow
                                 /\ tail \notin blocks /\ w = tail + 2]_vars

\* A search ends.
MallocReturns == pc = "search" ~> pc = "idle"

\* What the repository's malloc tests check of every byte they have written
\* (user/malloc-*.o: "Error: Byte at address %p should be %#x, not %#x").
PayloadIntact == \A p \in DOMAIN filled : \A w \in Payload(p) : mem[w] = filled[p]
=============================================================================
