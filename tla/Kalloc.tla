------------------------------- MODULE Kalloc -------------------------------
(***************************************************************************)
(* What the page allocator promises its callers (init, root_invoke,        *)
(* insert_mapping, sys_break), with no bitmap and no search: a request for *)
(* size consecutive pages is answered with the lowest run of pages nobody  *)
(* owns, or with NoPage exactly when there is no such run; a page freed by *)
(* its owner is free again; every request is answered.                     *)
(***************************************************************************)
EXTENDS Integers

CONSTANTS NumBits, NoPage, MaxRun

VARIABLES
    owned,      \* pages handed out and not freed
    limit,      \* pages below the bump-allocated top of the pool
    request,    \* size being asked for, 0 when nothing is
    result      \* the last answer

vars == <<owned, limit, request, result>>

Pages == 0 .. NumBits - 1

Unowned(size) ==
    {p \in Pages : /\ p + size <= limit
                   /\ \A k \in p .. p + size - 1 : k \notin owned}

Init ==
    /\ owned = {}
    /\ limit \in 1 .. NumBits
    /\ request = 0
    /\ result = NoPage

Request(size) ==
    /\ request = 0
    /\ request' = size
    /\ UNCHANGED <<owned, limit, result>>

Grant ==
    \E p \in Unowned(request) :
        /\ \A q \in Unowned(request) : p <= q
        /\ result' = p
        /\ owned' = owned \cup (p .. p + request - 1)

Refuse ==
    /\ Unowned(request) = {}
    /\ result' = NoPage
    /\ owned' = owned

Answer ==
    /\ request # 0
    /\ request' = 0
    /\ Grant \/ Refuse
    /\ limit' = limit

Free(p) ==
    /\ request = 0
    /\ p \in owned
    /\ owned' = owned \ {p}
    /\ UNCHANGED <<limit, request, result>>

\* Memory is cut from the top of the pool: never a page somebody owns.
CutTop ==
    /\ request = 0
    /\ limit' \in 0 .. limit
    /\ \A p \in owned : p < limit'
    /\ UNCHANGED <<owned, request, result>>

Next ==
    \/ \E size \in 1 .. MaxRun : Request(size)
    \/ Answer
    \/ \E p \in owned : Free(p)
    \/ CutTop

Safety == Init /\ [][Next]_vars

Spec == Safety /\ WF_vars(Answer)
=============================================================================
