-------------------------------- MODULE Places --------------------------------
(***************************************************************************)
(* The LinkedList of hw6/factory.cpp: one per product, with a node for     *)
(* each phase that a place standing in the factory can do.                 *)
(*                                                                         *)
(* A list is the sequence of its nodes from the tail to the head, because  *)
(* insert adds at the head: a node keeps its index when others are added,  *)
(* and the next node is the one at the index below.  Index 0 is NULL.      *)
(***************************************************************************)
EXTENDS Integers, SequencesExt

Products == {"A", "B", "C"}

PlaceNames == {"nuzky", "vrtacka", "ohybacka", "svarecka", "lakovna", "sroubovak",
               "freza"}

\* The phases of a product that a place can do.
Phases(x) ==
    CASE x = "nuzky"     -> [A |-> <<1>>,    B |-> <<2>>,    C |-> <<>>]
      [] x = "vrtacka"   -> [A |-> <<2, 5>>, B |-> <<1, 4>>, C |-> <<2, 4>>]
      [] x = "ohybacka"  -> [A |-> <<3>>,    B |-> <<>>,     C |-> <<>>]
      [] x = "svarecka"  -> [A |-> <<4>>,    B |-> <<>>,     C |-> <<>>]
      [] x = "lakovna"   -> [A |-> <<6>>,    B |-> <<5>>,    C |-> <<6>>]
      [] x = "sroubovak" -> [A |-> <<>>,     B |-> <<6>>,    C |-> <<3>>]
      [] x = "freza"     -> [A |-> <<>>,     B |-> <<3>>,    C |-> <<1, 5>>]

\* The positions `remove' deletes in each product's list, in its order: for
\* every place the numbers of its phases.
Positions(x) ==
    LET Of(p) == [i \in DOMAIN Phases(x)[p] |-> <<p, Phases(x)[p][i]>>]
    IN  Of("A") \o Of("B") \o Of("C")

\* The nodes `add' inserts, in its order, which lakovna's branch begins with B.
Insertions(x) ==
    IF x = "lakovna" THEN << <<"B", 5>>, <<"A", 6>>, <<"C", 6>> >> ELSE Positions(x)

\* Place x can do phase n of product p.
CanDo(x, p, n) == \E i \in DOMAIN Phases(x)[p] : Phases(x)[p][i] = n

Node(n, x) == [priority |-> n, work |-> x]

\* One write, of head, puts the node in the list, after all its fields are set.
insert(list, n, x) == Append(list, Node(n, x))

\* Index of the k-th node from the head, the one deleteNodeIndex(k) deletes.
NodeFromHead(list, k) == Len(list) + 1 - k

\* deleteNodeIndex(k) follows next once for every node before the k-th: it
\* stops at NULL only when NULL is the k-th.
WalksPastEnd(list, k) == list # <<>> /\ k # 1 /\ NodeFromHead(list, k) < 0

deleteNodeIndex(list, k) ==
    IF NodeFromHead(list, k) \in DOMAIN list
    THEN RemoveAt(list, NodeFromHead(list, k))
    ELSE list
=============================================================================
