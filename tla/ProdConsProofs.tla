---------------------------- MODULE ProdConsProofs -----------------------------
(***************************************************************************)
(* Producer and consumers of hw5/prod-cons.c, for any number of consumers  *)
(* and any input: the semaphore never lets a consumer pop an empty list,   *)
(* the lines are popped in order and handled once, and main's exit status  *)
(* is that of the lines handled.                                           *)
(***************************************************************************)
EXTENDS ProdCons, FiniteSetTheorems, SequenceTheorems, TLAPS

ProducerPlaces == {"new", "scan", "push", "pushing", "post", "setend", "setting",
                   "finish", "done"}
ConsumerPlaces == {"new", "check", "checking", "test", "wait", "pop", "popping",
                   "moving", "negative", "print", "printing", "done", "crashed"}
MainPlaces == {"create", "join", "clean", "cleaning", "returned", "crashed"}

\* The types of the data.  The flags and owner need none: no step of the
\* argument depends on what else they could be.
DataTypes ==
    /\ list \in [head : Nat, tail : Nat, count : Nat] /\ next \in Seq(Nat)
    /\ popped \in Seq(Nat)
    /\ sem \in Nat /\ sent \in Nat
    /\ element \in [Consumers -> Nat]
    /\ negatives \subseteq Nat \ {0}
    /\ input \in {"line", "eof", "bad"}
    /\ DOMAIN late = Consumers

\* Each thread is at a place of its own code.
PlacesOK ==
    /\ pc = [t \in Threads |-> pc[t]]
    /\ pc[Producer] \in ProducerPlaces /\ pc[Main] \in MainPlaces
    /\ \A c \in Consumers : pc[c] \in ConsumerPlaces

\* Entries are numbered from 1 in the order they are pushed, and popped in it;
\* the pointers of the list lead through those that are left.
Numbered ==
    /\ sent = Len(popped) + list.count /\ Len(next) = sent
    /\ \A k \in 1 .. Len(popped) : popped[k] = k
    /\ list.count # 0 => list.head = Len(popped) + 1 /\ list.tail = sent
    /\ \A k \in Len(popped) + 1 .. sent - 1 : next[k] = k + 1

\* One thread at a time is in a critical section on the list.
LLPlaces == {"pushing", "setting", "checking", "popping", "moving", "cleaning"}

Exclusive ==
    /\ DOMAIN owner = {"LL", "print"}
    /\ \A t \in Threads : pc[t] \in LLPlaces => owner["LL"] = t

\* A consumer's element is an entry it has popped and not yet handled, and its
\* own; its place shows which kind of number the entry holds.
Hands ==
    /\ \A c \in Consumers :
          /\ element[c] # 0 <=> pc[c] \in {"moving", "negative", "print", "printing"}
          /\ pc[c] # "moving" => element[c] <= Len(popped)
          /\ pc[c] = "moving" => element[c] = Len(popped) + 1
          /\ pc[c] = "negative" => element[c] \in negatives
          /\ pc[c] \in {"print", "printing"} => element[c] \notin negatives
    /\ \A c, d \in Consumers : element[c] = element[d] /\ element[c] # 0 => c = d

\* The entries popped that are in nobody's hands any more.
Handled == {k \in 1 .. Len(popped) : \A c \in Consumers : element[c] # k}

\* Those without a negative number are the ones printed; a negative one among
\* them has set the flag.
Outcome ==
    /\ printed = Handled \ negatives
    /\ negativ <=> Handled \cap negatives # {}

\* After `end' nothing is pushed, so a list seen empty then stays empty.
EndIsFinal ==
    /\ end <=> pc[Producer] \in {"finish", "done"}
    /\ \A c \in Consumers : late[c] => end /\ list.count = 0

\* What the producer tells main, and what main has waited for.
Ending ==
    /\ input # "line" <=> pc[Producer] \in {"setend", "setting", "finish", "done"}
    /\ pc[Producer] = "done" => prod_terminate = (input # "eof")
    /\ pc[Main] \in {"clean", "cleaning", "returned", "crashed"} =>
          \A t \in Threads \ {Main} : pc[t] = "done"

Inv ==
    /\ DataTypes /\ PlacesOK
    /\ Exclusive /\ SemAccounting /\ Numbered /\ Hands
    /\ Outcome /\ EndIsFinal /\ Ending
-----------------------------------------------------------------------------
LEMMA Distinct ==
    /\ Producer \notin Consumers /\ Main \notin Consumers /\ Main # Producer
    /\ Consumers \subseteq Threads /\ Producer \in Threads /\ Main \in Threads
    /\ Threads = Consumers \cup {Producer, Main}
BY ProdConsAssumption DEF Threads

\* Popping is finite, so its members can be counted.
LEMMA PoppingFinite ==
    /\ IsFiniteSet(Popping) /\ Cardinality(Popping) \in Nat
    /\ Popping # {} => Cardinality(Popping) > 0
<1>1. Popping \subseteq Consumers /\ IsFiniteSet(Consumers)
  BY ProdConsAssumption DEF Popping
<1>2. IsFiniteSet(Popping)
  BY <1>1, FS_Subset
<1>3. QED
  BY <1>2, FS_CardinalityType, FS_EmptySet

LEMMA InitInv == Init => Inv
<1> SUFFICES ASSUME Init PROVE Inv
  OBVIOUS
<1> USE Distinct DEF Init, NULL
<1>1. DataTypes /\ PlacesOK
  BY DEF DataTypes, PlacesOK, ProducerPlaces, ConsumerPlaces, MainPlaces
<1>2. SemAccounting
  <2>1. Popping = {}
    BY DEF Popping
  <2>2. QED
    BY <2>1, FS_EmptySet DEF SemAccounting
<1>3. Numbered /\ Exclusive /\ Hands
  BY DEF Numbered, Exclusive, LLPlaces, Hands
<1>4. Outcome /\ EndIsFinal /\ Ending
  BY DEF Outcome, Handled, EndIsFinal, Ending
<1>5. QED
  BY <1>1, <1>2, <1>3, <1>4 DEF Inv
-----------------------------------------------------------------------------
\* The mutexes' part in a step: who takes one, or leaves its section, moves.
LEMMA AcquireMoves ==
    ASSUME PlacesOK, NEW t \in Threads, Acquire(t)
    PROVE  /\ t = Producer => \/ pc[t] = "push" /\ pc' = [pc EXCEPT ![t] = "pushing"]
                              \/ pc[t] = "setend" /\ pc' = [pc EXCEPT ![t] = "setting"]
           /\ t = Main => pc[t] = "clean" /\ pc' = [pc EXCEPT ![t] = "cleaning"]
           /\ t \in Consumers =>
                  \/ pc[t] = "check" /\ pc' = [pc EXCEPT ![t] = "checking"]
                  \/ pc[t] = "pop" /\ pc' = [pc EXCEPT ![t] = "popping"]
                  \/ pc[t] = "print" /\ pc' = [pc EXCEPT ![t] = "printing"]
<1>1. pc[t] \in {"push", "setend", "check", "pop", "print", "clean"}
  BY DEF Acquire, Entry
<1>2. pc' = [pc EXCEPT ![t] = Entry[pc[t]]]
  BY DEF Acquire, Goto
<1>3. /\ Entry["push"] = "pushing" /\ Entry["setend"] = "setting"
      /\ Entry["check"] = "checking" /\ Entry["pop"] = "popping"
      /\ Entry["print"] = "printing" /\ Entry["clean"] = "cleaning"
  BY DEF Entry
<1>4. QED
  BY <1>1, <1>2, <1>3, Distinct DEF PlacesOK, ProducerPlaces, ConsumerPlaces, MainPlaces

\* main starts a thread, and waits for all when there is none left to start.
LEMMA CreateMoves ==
    ASSUME PlacesOK, NEW t \in Threads, Create(t)
    PROVE  /\ t # Main /\ pc[t] = "new" /\ pc[Main] = "create"
           /\ \E m \in {"create", "join"} :
                 pc' = [pc EXCEPT ![t] = IF t = Producer THEN "scan" ELSE "check",
                                  ![Main] = m]
<1>1. t # Main /\ pc[t] = "new" /\ pc[Main] = "create"
  BY DEF Create, PlacesOK, MainPlaces
<1>2. CASE \E u \in Threads \ {t} : pc[u] = "new"
  BY <1>1, <1>2 DEF Create
<1>3. CASE ~ \E u \in Threads \ {t} : pc[u] = "new"
  BY <1>1, <1>3 DEF Create
<1>4. QED
  BY <1>1, <1>2, <1>3

\* A consumer in pop finds the entry that the semaphore counted for it, and it
\* is the next number.
LEMMA PopFinds ==
    ASSUME Inv, NEW c \in Consumers, pc[c] \in {"popping", "moving"}
    PROVE  /\ list.count \in Nat \ {0} /\ list.head = Len(popped) + 1
           /\ Len(popped) + 1 <= sent
<1>1. c \in Popping
  BY DEF Popping
<1>2. Cardinality(Popping) \in Nat \ {0}
  BY <1>1, PoppingFinite
<1>3. list.count \in Nat \ {0}
  BY <1>2 DEF Inv, DataTypes, SemAccounting
<1>4. Len(popped) \in Nat /\ sent = Len(popped) + list.count
  BY DEF Inv, DataTypes, Numbered
<1>5. QED
  BY <1>3, <1>4 DEF Inv, Numbered

LEMMA ReadHeadFinds ==
    ASSUME Inv, NEW c \in Consumers, ReadHead(c)
    PROVE  /\ pc[c] = "popping" /\ pc' = [pc EXCEPT ![c] = "moving"]
           /\ element' = [element EXCEPT ![c] = Len(popped) + 1]
           /\ owner' = owner
<1>1. pc[c] = "popping"
  BY DEF ReadHead, Leave
<1>2. list.head = Len(popped) + 1 /\ Len(popped) \in Nat
  BY <1>1, PopFinds DEF Inv, DataTypes
<1>3. list.head # NULL
  BY <1>2 DEF NULL
<1>4. QED
  BY <1>1, <1>2, <1>3 DEF ReadHead, Goto

LEMMA MoveHeadTakes ==
    ASSUME Inv, NEW c \in Consumers, MoveHead(c)
    PROVE  /\ pc[c] = "moving" /\ element[c] = Len(popped) + 1
           /\ list' = [list EXCEPT !.head = next[Len(popped) + 1], !.count = @ - 1]
           /\ popped' = Append(popped, Len(popped) + 1)
           /\ pc' = [pc EXCEPT ![c] = IF Len(popped) + 1 \in negatives
                                      THEN "negative" ELSE "print"]
<1>1. pc[c] = "moving"
  BY DEF MoveHead, Leave
<1>2. element[c] = Len(popped) + 1
  BY <1>1 DEF Inv, Hands
<1>3. QED
  BY <1>1, <1>2 DEF MoveHead, Leave, Goto

\* Setting a field of an entry leaves the others.
LEMMA SetNext ==
    ASSUME NEW s \in Seq(Nat), NEW i, NEW v \in Nat
    PROVE  LET t == [s EXCEPT ![i] = v]
           IN  t \in Seq(Nat) /\ Len(t) = Len(s)
<1> DEFINE t == [s EXCEPT ![i] = v]
<1>1. DOMAIN t = 1 .. Len(s) /\ Len(s) \in Nat
  OBVIOUS
<1>2. \A k \in 1 .. Len(s) : t[k] \in Nat
  OBVIOUS
<1>3. t = [k \in 1 .. Len(s) |-> t[k]]
  BY <1>1
<1> HIDE DEF t
<1>4. t \in Seq(Nat)
  BY <1>1, <1>2, <1>3, IsASeq
<1>5. Len(t) = Len(s)
  BY <1>1, <1>4
<1>6. QED
  BY <1>4, <1>5 DEF t

\* What PushEnd does to the list in its two branches.
LEMMA PushEndLinks ==
    ASSUME DataTypes, PushEnd
    PROVE  /\ list' \in [head : Nat, tail : Nat, count : Nat] /\ list'.count = list.count + 1
           /\ next' \in Seq(Nat)
<1>1. CASE list.count = 0
  <2>1. /\ list' = [head |-> sent + 1, tail |-> sent + 1, count |-> 1]
        /\ next' = Append(next, 0)
    BY <1>1 DEF PushEnd, NULL
  <2>2. sent + 1 \in Nat /\ next \in Seq(Nat)
    BY DEF DataTypes
  <2>3. next' \in Seq(Nat)
    BY <2>1, <2>2
  <2>4. QED
    BY <1>1, <2>1, <2>2, <2>3
<1>2. CASE list.count # 0
  <2>1. /\ list' = [list EXCEPT !.tail = sent + 1, !.count = @ + 1]
        /\ next' = Append([next EXCEPT ![list.tail] = sent + 1], 0)
    BY <1>2 DEF PushEnd, NULL
  <2>2. [next EXCEPT ![list.tail] = sent + 1] \in Seq(Nat)
    <3>1. next \in Seq(Nat) /\ sent + 1 \in Nat
      BY DEF DataTypes
    <3>2. QED
      BY <3>1, SetNext
  <2>3. next' \in Seq(Nat)
    BY <2>1, <2>2
  <2>4. list \in [head : Nat, tail : Nat, count : Nat] /\ sent + 1 \in Nat /\ list.count + 1 \in Nat
    BY DEF DataTypes
  <2>5. QED
    BY <2>1, <2>3, <2>4
<1>3. QED
  BY <1>1, <1>2

\* The data keep their types.
LEMMA DataStep ==
    ASSUME Inv, Next
    PROVE  DataTypes'
<1> USE DEF DataTypes, flags, history
<1>0. DataTypes /\ PlacesOK
  BY DEF Inv
<1>1. CASE ScanLine
  <2>1. negatives' \subseteq Nat \ {0}
    BY <1>0, <1>1 DEF ScanLine
  <2>2. QED
    BY <1>0, <1>1, <2>1 DEF ScanLine
<1>2. CASE PushEnd
  <2>1. next' \in Seq(Nat) /\ list' \in [head : Nat, tail : Nat, count : Nat]
    BY <1>0, <1>2, PushEndLinks
  <2>2. sent' = sent + 1 /\ UNCHANGED <<popped, sem, element, negatives, input, late>>
    BY <1>2 DEF PushEnd
  <2>3. QED
    BY <1>0, <2>1, <2>2
<1>3. CASE Post
  BY <1>0, <1>3 DEF Post
<1>4. CASE ScanEnd \/ SetEnd \/ ProducerEnds
  <2>1. UNCHANGED <<list, next, popped, sent, element, negatives, late>>
    BY <1>4 DEF ScanEnd, SetEnd, ProducerEnds
  <2>2. sem' = sem /\ input' \in {input, "eof", "bad"}
    BY <1>4 DEF ScanEnd, SetEnd, ProducerEnds
  <2>3. QED
    BY <1>0, <2>1, <2>2
<1>5. CASE Join \/ removeALL
  BY <1>0, <1>5 DEF Join, removeALL
<1>6. ASSUME NEW t \in Threads, Create(t) \/ Acquire(t)
      PROVE  DataTypes'
  BY <1>0, <1>6 DEF Create, Acquire
<1>7. ASSUME NEW c \in Consumers, ReadHead(c) \/ MoveHead(c)
      PROVE  DataTypes'
  <2>1. CASE ReadHead(c)
    <3>1. element' = [element EXCEPT ![c] = Len(popped) + 1]
      BY <2>1, ReadHeadFinds
    <3>2. UNCHANGED <<list, next, popped, sem, sent, negatives, input, late>>
      BY <2>1 DEF ReadHead
    <3>3. QED
      BY <1>0, <3>1, <3>2
  <2>2. CASE MoveHead(c)
    <3>1. /\ pc[c] = "moving" /\ popped' = Append(popped, Len(popped) + 1)
          /\ list' = [list EXCEPT !.head = next[Len(popped) + 1], !.count = @ - 1]
      BY <2>2, MoveHeadTakes
    <3>2. list.count \in Nat \ {0} /\ Len(popped) + 1 \in 1 .. Len(next)
      BY <1>0, <3>1, PopFinds DEF Inv, Numbered
    <3>3. next[Len(popped) + 1] \in Nat
      BY <1>0, <3>2
    <3>4. UNCHANGED <<next, element, sem, sent, negatives, input, late>>
      BY <2>2 DEF MoveHead
    <3>5. list.count - 1 \in Nat /\ list \in [head : Nat, tail : Nat, count : Nat]
      BY <1>0, <3>2
    <3>6. list' \in [head : Nat, tail : Nat, count : Nat]
      BY <3>1, <3>3, <3>5
    <3>7. popped' \in Seq(Nat)
      BY <1>0, <3>1
    <3>8. QED
      BY <1>0, <3>4, <3>6, <3>7
  <2>3. QED
    BY <1>7, <2>1, <2>2
<1>8. ASSUME NEW c \in Consumers, isEmpty(c) \/ TestEnd(c) \/ TimedWaitFails(c)
      PROVE  DataTypes'
  BY <1>0, <1>8 DEF isEmpty, TestEnd, TimedWaitFails
<1>9. ASSUME NEW c \in Consumers, TimedWait(c)
      PROVE  DataTypes'
  BY <1>0, <1>9 DEF TimedWait
<1>10. ASSUME NEW c \in Consumers, Printed(c) \/ Negative(c)
      PROVE  DataTypes'
  <2>1. element' = [element EXCEPT ![c] = 0] /\ next' = [next EXCEPT ![element[c]] = 0]
    BY <1>10 DEF Printed, Negative, Free, NULL
  <2>2. UNCHANGED <<list, popped, sem, sent, negatives, input, late>>
    BY <1>10 DEF Printed, Negative
  <2>3. next' \in Seq(Nat)
    BY <1>0, <2>1, SetNext
  <2>4. QED
    BY <1>0, <2>1, <2>2, <2>3
<1>11. QED
  BY <1>1, <1>2, <1>3, <1>4, <1>5, <1>6, <1>7, <1>8, <1>9, <1>10
     DEF Next, Produce, Manage, Consume

\* Every thread stays in its own code.
LEMMA PlacesStep ==
    ASSUME Inv, Next
    PROVE  PlacesOK'
<1> USE Distinct DEF PlacesOK, ProducerPlaces, ConsumerPlaces, MainPlaces, Goto, Leave
<1>0. PlacesOK
  BY DEF Inv
<1>1. CASE ScanLine \/ ScanEnd \/ PushEnd \/ Post \/ SetEnd \/ ProducerEnds
  <2>1. \E there \in ProducerPlaces : pc' = [pc EXCEPT ![Producer] = there]
    BY <1>1 DEF ScanLine, ScanEnd, PushEnd, Post, SetEnd, ProducerEnds
  <2>2. QED
    BY <1>0, <2>1
<1>2. CASE Join \/ removeALL
  <2>1. \E there \in MainPlaces : pc' = [pc EXCEPT ![Main] = there]
    BY <1>2 DEF Join, removeALL
  <2>2. QED
    BY <1>0, <2>1
<1>3. ASSUME NEW t \in Threads, Create(t)
      PROVE  PlacesOK'
  BY <1>0, <1>3, CreateMoves
<1>4. ASSUME NEW t \in Threads, Acquire(t)
      PROVE  PlacesOK'
  BY <1>0, <1>4, AcquireMoves
<1>5. ASSUME NEW c \in Consumers, Consume(c) \/ TimedWait(c)
      PROVE  PlacesOK'
  <2>1. \E there \in ConsumerPlaces : pc' = [pc EXCEPT ![c] = there]
    BY <1>5 DEF Consume, isEmpty, TestEnd, TimedWaitFails, TimedWait, ReadHead,
                MoveHead, Printed, Negative
  <2>2. QED
    BY <1>0, <2>1
<1>6. QED
  BY <1>1, <1>2, <1>3, <1>4, <1>5 DEF Next, Produce, Manage

\* The semaphore counts what is on the list and not about to be popped: one
\* thread at a time moves, and with it at most one entry.
LEMMA SemStep ==
    ASSUME Inv, Next
    PROVE  SemAccounting'
<1> USE Distinct, PoppingFinite
<1>0. DataTypes /\ PlacesOK /\ SemAccounting
  BY DEF Inv
<1> DEFINE Posting == IF pc[Producer] = "post" THEN 1 ELSE 0
           Same == UNCHANGED <<list, sem, Popping, Posting>>
<1>1. ASSUME Same, \A c \in Consumers : pc'[c] = "crashed" => pc[c] = "crashed"
      PROVE  SemAccounting'
  BY <1>0, <1>1 DEF SemAccounting
<1> HIDE DEF Posting
<1>2. CASE ScanLine \/ ScanEnd \/ SetEnd \/ ProducerEnds
  <2>1. \E there \in {"push", "setend", "finish", "done"} :
           pc' = [pc EXCEPT ![Producer] = there]
    BY <1>2 DEF ScanLine, ScanEnd, SetEnd, ProducerEnds, Goto, Leave
  <2>2. pc[Producer] # "post" /\ UNCHANGED <<list, sem>>
    BY <1>2 DEF ScanLine, ScanEnd, SetEnd, ProducerEnds, Goto, Leave
  <2>3. \A c \in Consumers : pc'[c] = pc[c]
    BY <1>0, <2>1 DEF PlacesOK
  <2>4. UNCHANGED <<Popping, Posting>>
    BY <1>0, <2>1, <2>2, <2>3 DEF Popping, Posting, PlacesOK
  <2>5. QED
    BY <1>1, <2>2, <2>3, <2>4
<1>3. CASE PushEnd
  <2>1. /\ pc[Producer] = "pushing" /\ pc' = [pc EXCEPT ![Producer] = "post"]
        /\ list'.count = list.count + 1 /\ sem' = sem
    BY <1>0, <1>3, PushEndLinks DEF PushEnd, Goto, Leave
  <2>2. \A c \in Consumers : pc'[c] = pc[c]
    BY <1>0, <2>1 DEF PlacesOK
  <2>3. Popping' = Popping /\ pc'[Producer] = "post"
    BY <1>0, <2>1, <2>2 DEF Popping, DataTypes, PlacesOK
  <2>4. pc[Producer] # "post" /\ list.count \in Nat /\ sem \in Nat
    BY <1>0, <2>1 DEF DataTypes
  <2>5. QED
    BY <1>0, <2>1, <2>2, <2>3, <2>4 DEF SemAccounting, PlacesOK
<1>4. CASE Post
  <2>1. /\ pc[Producer] = "post" /\ pc' = [pc EXCEPT ![Producer] = "scan"]
        /\ list' = list /\ sem' = sem + 1
    BY <1>4 DEF Post, Goto
  <2>2. \A c \in Consumers : pc'[c] = pc[c]
    BY <1>0, <2>1 DEF PlacesOK
  <2>3. Popping' = Popping /\ pc'[Producer] = "scan"
    BY <1>0, <2>1, <2>2 DEF Popping, PlacesOK
  <2>4. QED
    BY <1>0, <2>1, <2>2, <2>3 DEF SemAccounting, DataTypes
<1>5. CASE Join \/ removeALL
  <2>1. \A t \in Threads \ {Main} : pc'[t] = pc[t]
    BY <1>0, <1>5 DEF Join, removeALL, Goto, Leave, PlacesOK
  <2>2. UNCHANGED <<list, sem>>
    BY <1>5 DEF Join, removeALL
  <2>3. UNCHANGED <<Popping, Posting>>
    BY <2>1 DEF Popping, Posting
  <2>4. QED
    BY <1>1, <2>1, <2>2, <2>3
<1>6. ASSUME NEW t \in Threads, Create(t)
      PROVE  SemAccounting'
  <2>1. /\ pc[Producer] = "post" <=> pc'[Producer] = "post"
        /\ \A c \in Consumers : \/ pc'[c] = pc[c]
                                \/ pc[c] = "new" /\ pc'[c] = "check"
    BY <1>0, <1>6, CreateMoves DEF PlacesOK
  <2>2. UNCHANGED <<list, sem>>
    BY <1>6 DEF Create
  <2>3. UNCHANGED <<Popping, Posting>>
    BY <2>1 DEF Popping, Posting
  <2>4. QED
    BY <1>1, <2>1, <2>2, <2>3
<1>7. ASSUME NEW t \in Threads, Acquire(t)
      PROVE  SemAccounting'
  <2>1. /\ pc[Producer] = "post" <=> pc'[Producer] = "post"
        /\ \A c \in Consumers :
              \/ pc'[c] = pc[c]
              \/ pc[c] = "check" /\ pc'[c] = "checking"
              \/ pc[c] = "pop" /\ pc'[c] = "popping"
              \/ pc[c] = "print" /\ pc'[c] = "printing"
    <3>1. CASE t \in Consumers
      BY <1>0, <1>7, <3>1, AcquireMoves DEF PlacesOK
    <3>2. CASE t = Producer
      BY <1>0, <1>7, <3>2, AcquireMoves DEF PlacesOK
    <3>3. CASE t = Main
      BY <1>0, <1>7, <3>3, AcquireMoves DEF PlacesOK
    <3>4. QED
      BY <3>1, <3>2, <3>3
  <2>2. UNCHANGED <<list, sem>>
    BY <1>7 DEF Acquire
  <2>3. UNCHANGED <<Popping, Posting>>
    BY <2>1 DEF Popping, Posting
  <2>4. QED
    BY <1>1, <2>1, <2>2, <2>3
<1>8. ASSUME NEW c \in Consumers, MoveHead(c)
      PROVE  SemAccounting'
  <2>1. /\ pc[c] = "moving" /\ pc'[c] \in {"negative", "print"}
        /\ \A t \in Threads \ {c} : pc'[t] = pc[t]
    BY <1>0, <1>8, MoveHeadTakes DEF PlacesOK
  <2>2. c \in Popping /\ Popping' = Popping \ {c}
    BY <2>1 DEF Popping
  <2>3. Cardinality(Popping') = Cardinality(Popping) - 1
    BY <2>2, FS_RemoveElement
  <2>4. list'.count = list.count - 1 /\ sem' = sem
    BY <1>0, <1>8, MoveHeadTakes DEF MoveHead, DataTypes
  <2>5. pc'[Producer] = pc[Producer] /\ \A d \in Consumers : pc'[d] # "crashed"
    BY <1>0, <2>1 DEF SemAccounting
  <2>6. list.count \in Nat /\ sem \in Nat /\ list'.count \in Int
    BY <1>0, <2>4 DEF DataTypes
  <2>7. QED
    BY <1>0, <2>3, <2>4, <2>5, <2>6 DEF SemAccounting
<1>9. ASSUME NEW c \in Consumers, TimedWait(c)
      PROVE  SemAccounting'
  <2>1. /\ pc[c] = "wait" /\ pc'[c] = "pop" /\ sem > 0 /\ sem' = sem - 1 /\ list' = list
        /\ \A t \in Threads \ {c} : pc'[t] = pc[t]
    BY <1>0, <1>9 DEF TimedWait, Goto, PlacesOK
  <2>2. c \notin Popping /\ Popping' = Popping \cup {c}
    BY <2>1 DEF Popping
  <2>3. Cardinality(Popping') = Cardinality(Popping) + 1
    BY <2>2, FS_AddElement
  <2>4. pc'[Producer] = pc[Producer] /\ \A d \in Consumers : pc'[d] # "crashed"
    BY <1>0, <2>1 DEF SemAccounting
  <2>5. list.count \in Nat /\ sem \in Nat
    BY <1>0 DEF DataTypes
  <2>6. QED
    BY <1>0, <2>1, <2>3, <2>4, <2>5 DEF SemAccounting
<1>10. ASSUME NEW c \in Consumers,
              \/ isEmpty(c) \/ TestEnd(c) \/ TimedWaitFails(c)
              \/ Printed(c) \/ Negative(c)
       PROVE  SemAccounting'
  <2>1. /\ pc[c] \in {"checking", "test", "wait", "printing", "negative"}
        /\ pc'[c] \in {"test", "wait", "done", "check"}
        /\ \A t \in Threads \ {c} : pc'[t] = pc[t]
    BY <1>0, <1>10 DEF isEmpty, TestEnd, TimedWaitFails, Printed, Negative, Leave, Goto,
                      PlacesOK
  <2>2. UNCHANGED <<list, sem>>
    BY <1>10 DEF isEmpty, TestEnd, TimedWaitFails, Printed, Negative
  <2>3. UNCHANGED <<Popping, Posting>>
    BY <2>1 DEF Popping, Posting
  <2>4. QED
    BY <1>1, <2>1, <2>2, <2>3
<1>11. ASSUME NEW c \in Consumers, ReadHead(c)
       PROVE  SemAccounting'
  <2>1. pc[c] = "popping" /\ pc' = [pc EXCEPT ![c] = "moving"]
    BY <1>11, ReadHeadFinds
  <2>2. pc'[c] = "moving" /\ \A t \in Threads \ {c} : pc'[t] = pc[t]
    BY <1>0, <2>1 DEF PlacesOK
  <2>3. UNCHANGED <<list, sem>>
    BY <1>11 DEF ReadHead
  <2>4. UNCHANGED <<Popping, Posting>>
    BY <2>1, <2>2 DEF Popping, Posting
  <2>5. QED
    BY <1>1, <2>2, <2>3, <2>4
<1>12. QED
  BY <1>2, <1>3, <1>4, <1>5, <1>6, <1>7, <1>8, <1>9, <1>10, <1>11
     DEF Next, Produce, Manage, Consume

\* Who enters a critical section on the list takes the mutex, which is free
\* only when nobody is in one.
LEMMA ExclusiveStep ==
    ASSUME Inv, Next
    PROVE  Exclusive'
<1> USE Distinct
<1>0. PlacesOK /\ Exclusive /\ DOMAIN owner = {"LL", "print"}
  BY DEF Inv, Exclusive
<1>1. ASSUME UNCHANGED owner, \A t \in Threads : pc'[t] \in LLPlaces => pc[t] \in LLPlaces
      PROVE  Exclusive'
  BY <1>0, <1>1 DEF Exclusive
<1>2. ASSUME NEW t \in Threads, NEW there, there \notin LLPlaces,
             UNCHANGED owner, pc' = [pc EXCEPT ![t] = there]
      PROVE  Exclusive'
  BY <1>0, <1>1, <1>2 DEF PlacesOK
<1>3. ASSUME NEW t \in Threads, NEW place, NEW there, Leave(t, place, there),
             there \notin LLPlaces, place \in LLPlaces \cup {"printing"}
      PROVE  Exclusive'
  <2>1. /\ pc[t] = place /\ owner' = [owner EXCEPT ![Mutex(place)] = Nobody]
        /\ pc' = [pc EXCEPT ![t] = there]
    BY <1>3 DEF Leave, Goto
  <2>2. \A u \in Threads : pc'[u] = IF u = t THEN there ELSE pc[u]
    BY <1>0, <2>1 DEF PlacesOK
  <2>3. CASE place = "printing"
    <3>1. owner'["LL"] = owner["LL"] /\ DOMAIN owner' = DOMAIN owner
      BY <1>0, <2>1, <2>3 DEF Mutex
    <3>2. QED
      BY <1>0, <1>3, <2>2, <3>1 DEF Exclusive
  <2>4. CASE place \in LLPlaces
    <3>1. owner["LL"] = t /\ DOMAIN owner' = DOMAIN owner
      BY <1>0, <2>1, <2>4 DEF Exclusive
    <3>2. \A u \in Threads \ {t} : pc[u] \notin LLPlaces
      BY <1>0, <3>1 DEF Exclusive
    <3>3. QED
      BY <1>0, <1>3, <2>2, <3>1, <3>2 DEF Exclusive
  <2>5. QED
    BY <1>3, <2>3, <2>4
<1>4. ASSUME NEW t \in Threads, Acquire(t)
      PROVE  Exclusive'
  <2>1. /\ pc[t] \in DOMAIN Entry /\ owner[Mutex(pc[t])] = Nobody
        /\ owner' = [owner EXCEPT ![Mutex(pc[t])] = t]
        /\ pc' = [pc EXCEPT ![t] = Entry[pc[t]]]
    BY <1>4 DEF Acquire, Goto
  <2>2. \A u \in Threads : pc'[u] = IF u = t THEN Entry[pc[t]] ELSE pc[u]
    BY <1>0, <2>1 DEF PlacesOK
  <2>3. CASE pc[t] = "print"
    <3>1. Mutex(pc[t]) = "print" /\ Entry[pc[t]] = "printing"
      BY <2>3 DEF Mutex, Entry
    <3>2. owner'["LL"] = owner["LL"] /\ DOMAIN owner' = DOMAIN owner
      BY <1>0, <2>1, <3>1
    <3>3. QED
      BY <1>0, <2>2, <3>1, <3>2 DEF Exclusive, LLPlaces
  <2>4. CASE pc[t] # "print"
    <3>1. Mutex(pc[t]) = "LL"
      BY <2>1, <2>4 DEF Mutex, Entry
    <3>2. owner'["LL"] = t /\ owner["LL"] = Nobody /\ DOMAIN owner' = DOMAIN owner
      BY <1>0, <2>1, <3>1
    <3>3. \A u \in Threads : pc[u] \notin LLPlaces
      BY <1>0, <3>2, ProdConsAssumption DEF Exclusive, Threads
    <3>4. QED
      BY <1>0, <2>2, <3>2, <3>3 DEF Exclusive
  <2>5. QED
    BY <2>3, <2>4
<1>5. CASE ScanLine \/ ScanEnd \/ Post \/ ProducerEnds
  <2>1. \E there \in {"push", "setend", "scan", "done"} :
           pc' = [pc EXCEPT ![Producer] = there]
    BY <1>5 DEF ScanLine, ScanEnd, Post, ProducerEnds, Goto
  <2>2. UNCHANGED owner
    BY <1>5 DEF ScanLine, ScanEnd, Post, ProducerEnds
  <2>3. QED
    BY <1>2, <2>1, <2>2 DEF LLPlaces
<1>6. CASE PushEnd \/ SetEnd
  <2>1. \E place \in {"pushing", "setting"}, there \in {"post", "finish"} :
           Leave(Producer, place, there)
    BY <1>6 DEF PushEnd, SetEnd
  <2>2. QED
    BY <1>3, <2>1 DEF LLPlaces
<1>7. CASE Manage
  <2>1. ASSUME NEW t \in Threads, Create(t)
        PROVE  Exclusive'
    <3>1. \A u \in Threads : pc'[u] \in {pc[u], "scan", "check", "create", "join"}
      BY <1>0, <2>1, CreateMoves DEF PlacesOK
    <3>2. UNCHANGED owner
      BY <2>1 DEF Create
    <3>3. QED
      BY <1>1, <3>1, <3>2 DEF LLPlaces
  <2>2. CASE Join
    BY <1>2, <2>2 DEF Join, Goto, LLPlaces
  <2>3. CASE removeALL
    <3>1. \E there \in {"returned", "crashed"} : Leave(Main, "cleaning", there)
      BY <2>3 DEF removeALL
    <3>2. QED
      BY <1>3, <3>1 DEF LLPlaces
  <2>4. QED
    BY <1>7, <2>1, <2>2, <2>3 DEF Manage
<1>8. ASSUME NEW c \in Consumers, TestEnd(c) \/ TimedWait(c) \/ TimedWaitFails(c) \/ Negative(c)
      PROVE  Exclusive'
  <2>1. \E there \in {"done", "wait", "pop", "check"} : pc' = [pc EXCEPT ![c] = there]
    BY <1>8 DEF TestEnd, TimedWait, TimedWaitFails, Negative, Goto
  <2>2. UNCHANGED owner
    BY <1>8 DEF TestEnd, TimedWait, TimedWaitFails, Negative
  <2>3. QED
    BY <1>2, <2>1, <2>2 DEF LLPlaces
<1>9. ASSUME NEW c \in Consumers, isEmpty(c) \/ MoveHead(c) \/ Printed(c)
      PROVE  Exclusive'
  <2>1. \E place \in {"checking", "moving", "printing"},
           there \in {"test", "wait", "negative", "print", "check"} : Leave(c, place, there)
    BY <1>9 DEF isEmpty, MoveHead, Printed
  <2>2. QED
    BY <1>3, <2>1 DEF LLPlaces
<1>10. ASSUME NEW c \in Consumers, ReadHead(c)
       PROVE  Exclusive'
  <2>1. pc[c] = "popping" /\ pc' = [pc EXCEPT ![c] = "moving"] /\ owner' = owner
    BY <1>10, ReadHeadFinds
  <2>2. QED
    BY <1>0, <1>1, <2>1 DEF LLPlaces, PlacesOK
<1>11. QED
  BY <1>4, <1>5, <1>6, <1>7, <1>8, <1>9, <1>10 DEF Next, Produce, Consume

\* Most steps touch neither the list nor what was popped from it.
LEMMA NumberedStep ==
    ASSUME Inv, Next
    PROVE  Numbered'
<1>0. DataTypes /\ PlacesOK /\ Numbered
  BY DEF Inv
<1>1. CASE UNCHANGED <<list, next, popped, sent>>
  BY <1>0, <1>1 DEF Numbered
<1>2. CASE PushEnd
  <2>1. sent' = sent + 1 /\ popped' = popped
    BY <1>2 DEF PushEnd, history
  <2> DEFINE n == Len(popped)
  <2>2. /\ n \in Nat /\ list.count \in Nat /\ sent \in Nat /\ sent = n + list.count
        /\ next \in Seq(Nat) /\ Len(next) = sent
    BY <1>0 DEF DataTypes, Numbered
  <2>3. CASE list.count = 0
    <3>1. list' = [head |-> sent + 1, tail |-> sent + 1, count |-> 1] /\ next' = Append(next, 0)
      BY <1>2, <2>3 DEF PushEnd, NULL
    <3>2. sent = n /\ Len(next') = sent + 1
      BY <2>2, <2>3, <3>1
    <3>3. QED
      BY <1>0, <2>1, <2>2, <3>1, <3>2 DEF Numbered
  <2>4. CASE list.count # 0
    <3>1. /\ list' = [list EXCEPT !.tail = sent + 1, !.count = @ + 1]
          /\ next' = Append([next EXCEPT ![list.tail] = sent + 1], 0)
      BY <1>2, <2>4 DEF PushEnd, NULL
    <3>2. list.tail = sent /\ list.head = n + 1 /\ sent \in 1 .. Len(next)
      BY <1>0, <2>2, <2>4 DEF Numbered
    <3>3. /\ Len(next') = sent + 1 /\ next'[sent] = sent + 1
          /\ \A k \in 1 .. sent - 1 : next'[k] = next[k]
      BY <2>2, <3>1, <3>2
    <3>4. /\ list'.head = n + 1 /\ list'.tail = sent + 1
          /\ list'.count = list.count + 1
      BY <1>0, <3>1, <3>2 DEF DataTypes
    <3>5. \A k \in n + 1 .. sent : next'[k] = k + 1
      <4> SUFFICES ASSUME NEW k \in n + 1 .. sent PROVE next'[k] = k + 1
        OBVIOUS
      <4>1. CASE k = sent
        BY <3>3, <4>1
      <4>2. CASE k # sent
        <5>1. k \in n + 1 .. sent - 1 /\ k \in 1 .. sent - 1
          BY <2>2, <4>2
        <5>2. QED
          BY <1>0, <3>3, <5>1 DEF Numbered
      <4>3. QED
        BY <4>1, <4>2
    <3>6. QED
      BY <1>0, <2>1, <2>2, <3>3, <3>4, <3>5 DEF Numbered
  <2>5. QED
    BY <2>3, <2>4
<1>3. ASSUME NEW c \in Consumers, MoveHead(c)
      PROVE  Numbered'
  <2> DEFINE n == Len(popped)
  <2>1. /\ list' = [list EXCEPT !.head = next[n + 1], !.count = @ - 1]
        /\ pc[c] = "moving" /\ popped' = Append(popped, n + 1)
    BY <1>3, MoveHeadTakes
  <2>2. UNCHANGED <<next, sent>>
    BY <1>3 DEF MoveHead
  <2>3. n \in Nat /\ sent \in Nat /\ list.count \in Nat \ {0} /\ sent = n + list.count
    BY <1>0, <2>1, PopFinds DEF DataTypes, Numbered
  <2>4. /\ list'.head = next[n + 1] /\ list'.tail = list.tail
        /\ list'.count = list.count - 1
    BY <1>0, <2>1 DEF DataTypes
  <2>5. Len(popped') = n + 1 /\ \A k \in 1 .. n + 1 : popped'[k] = k
    BY <1>0, <2>1, <2>3 DEF DataTypes, Numbered
  <2>6. list'.count # 0 => list'.head = n + 2 /\ list'.tail = sent
    <3>1. SUFFICES ASSUME list'.count # 0 PROVE list'.head = n + 2 /\ list'.tail = sent
      OBVIOUS
    <3>2. n + 1 \in n + 1 .. sent - 1
      BY <2>3, <2>4, <3>1
    <3>3. next[n + 1] = n + 2
      BY <1>0, <2>3, <3>2 DEF Numbered
    <3>4. QED
      BY <1>0, <2>3, <2>4, <3>3 DEF Numbered
  <2>7. \A k \in n + 2 .. sent - 1 : next[k] = k + 1
    BY <1>0, <2>3 DEF Numbered
  <2>8. Len(next') = sent' /\ sent' = n + 1 + list'.count
    BY <1>0, <2>2, <2>3, <2>4 DEF Numbered
  <2>9. QED
    BY <2>2, <2>3, <2>5, <2>6, <2>7, <2>8 DEF Numbered
<1>4. ASSUME NEW c \in Consumers, Printed(c) \/ Negative(c)
      PROVE  Numbered'
  <2>1. element[c] \in Nat /\ element[c] <= Len(popped) /\ Len(popped) \in Nat /\ sent \in Nat
    <3>1. pc[c] \in {"printing", "negative"}
      BY <1>4 DEF Printed, Negative, Leave
    <3>2. QED
      BY <1>0, <3>1 DEF Inv, Hands, DataTypes
  <2>2. next' = [next EXCEPT ![element[c]] = 0]
    BY <1>4 DEF Printed, Negative, Free, NULL
  <2>3. Len(next') = Len(next) /\ \A k \in Len(popped) + 1 .. sent - 1 : next'[k] = next[k]
    BY <1>0, <2>1, <2>2 DEF DataTypes, Numbered
  <2>4. UNCHANGED <<list, popped, sent>>
    BY <1>4 DEF Printed, Negative, history
  <2>5. QED
    BY <1>0, <2>3, <2>4 DEF Numbered
<1>5. QED
  <2>1. CASE ScanLine \/ ScanEnd \/ Post \/ SetEnd \/ ProducerEnds
    BY <1>1, <2>1 DEF ScanLine, ScanEnd, Post, SetEnd, ProducerEnds, history
  <2>2. CASE Manage
    BY <1>1, <2>2 DEF Manage, Create, Join, removeALL, history
  <2>3. ASSUME NEW t \in Threads, Acquire(t)
        PROVE  Numbered'
    BY <1>1, <2>3 DEF Acquire, history
  <2>4. ASSUME NEW c \in Consumers, Consume(c) \/ TimedWait(c)
        PROVE  Numbered'
    BY <1>1, <1>3, <1>4, <2>4 DEF Consume, isEmpty, TestEnd, TimedWaitFails, TimedWait,
                                  ReadHead, history
  <2>5. QED
    BY <1>2, <2>1, <2>2, <2>3, <2>4 DEF Next, Produce

\* A step in which no consumer gets or leaves its element.
KeepsHands ==
    /\ UNCHANGED <<element, popped>>
    /\ \A c \in Consumers : \/ pc'[c] = pc[c]
                            \/ /\ pc[c] \notin {"moving", "negative", "print", "printing"}
                               /\ pc'[c] \notin {"moving", "negative", "print", "printing"}
                            \/ pc[c] = "print" /\ pc'[c] = "printing"

\* All steps but a pop and what is done with the entry keep the hands.
LEMMA OthersKeepHands ==
    ASSUME Inv, Next
    PROVE  \/ KeepsHands
           \/ \E c \in Consumers : ReadHead(c) \/ MoveHead(c) \/ Printed(c) \/ Negative(c)
<1> USE Distinct
<1>0. PlacesOK
  BY DEF Inv
<1>1. CASE ScanLine \/ ScanEnd \/ Produce
  <2>1. \E there \in ProducerPlaces : pc' = [pc EXCEPT ![Producer] = there]
    BY <1>1 DEF ScanLine, ScanEnd, Produce, PushEnd, Post, SetEnd, ProducerEnds, Goto,
                Leave, ProducerPlaces
  <2>2. UNCHANGED <<element, popped>>
    BY <1>1 DEF ScanLine, ScanEnd, Produce, PushEnd, Post, SetEnd, ProducerEnds, history
  <2>3. QED
    BY <1>0, <2>1, <2>2 DEF KeepsHands, PlacesOK
<1>2. CASE Join \/ removeALL
  <2>1. \E there \in MainPlaces : pc' = [pc EXCEPT ![Main] = there]
    BY <1>2 DEF Join, removeALL, Goto, Leave, MainPlaces
  <2>2. UNCHANGED <<element, popped>>
    BY <1>2 DEF Join, removeALL, history
  <2>3. QED
    BY <1>0, <2>1, <2>2 DEF KeepsHands, PlacesOK
<1>3. ASSUME NEW t \in Threads, Create(t)
      PROVE  KeepsHands
  <2>1. UNCHANGED <<element, popped>>
    BY <1>3 DEF Create, history
  <2>2. QED
    BY <1>0, <1>3, <2>1, CreateMoves DEF KeepsHands, PlacesOK
<1>4. ASSUME NEW t \in Threads, Acquire(t)
      PROVE  KeepsHands
  <2>1. UNCHANGED <<element, popped>>
    BY <1>4 DEF Acquire, history
  <2>2. CASE t \in Consumers
    BY <1>0, <1>4, <2>1, <2>2, AcquireMoves DEF KeepsHands, PlacesOK
  <2>3. CASE t \in {Producer, Main}
    <3>1. \A c \in Consumers : pc'[c] = pc[c]
      BY <1>0, <1>4, <2>3, AcquireMoves DEF PlacesOK
    <3>2. QED
      BY <2>1, <3>1 DEF KeepsHands
  <2>4. QED
    BY <2>2, <2>3
<1>5. ASSUME NEW c \in Consumers,
             isEmpty(c) \/ TestEnd(c) \/ TimedWaitFails(c) \/ TimedWait(c)
      PROVE  KeepsHands
  <2>1. /\ pc[c] \in {"checking", "test", "wait"}
        /\ \E there \in {"test", "wait", "done", "check", "pop"} :
              pc' = [pc EXCEPT ![c] = there]
    BY <1>5 DEF isEmpty, TestEnd, TimedWaitFails, TimedWait, Goto, Leave
  <2>2. UNCHANGED <<element, popped>>
    BY <1>5 DEF isEmpty, TestEnd, TimedWaitFails, TimedWait, history
  <2>3. QED
    BY <1>0, <2>1, <2>2 DEF KeepsHands, PlacesOK
<1>6. QED
  BY <1>1, <1>2, <1>3, <1>4, <1>5 DEF Next, Manage, Consume

\* Only a scan changes which numbers are negative, and only for a later entry.
LEMMA NegativesOfPopped ==
    ASSUME Inv, Next
    PROVE  \A k \in 1 .. Len(popped) : k \in negatives' <=> k \in negatives
<1>0. DataTypes /\ Numbered
  BY DEF Inv
<1>1. CASE ScanLine
  <2>1. \A k \in 1 .. Len(popped) : k # sent + 1
    BY <1>0 DEF DataTypes, Numbered
  <2>2. negatives' \in {negatives, negatives \cup {sent + 1}}
    BY <1>1 DEF ScanLine
  <2>3. QED
    BY <2>1, <2>2
<1>2. CASE ~ ScanLine
  <2>1. negatives' = negatives
    BY <1>2 DEF Next, Produce, Manage, Consume, ScanEnd, PushEnd, Post, SetEnd,
                ProducerEnds, Create, Join, removeALL, Acquire, isEmpty, TestEnd,
                TimedWaitFails, TimedWait, ReadHead, MoveHead, Printed, Negative
  <2>2. QED
    BY <2>1
<1>3. QED
  BY <1>1, <1>2

\* What a consumer does with its element: it gives it up for good.
LEMMA ElementGiven ==
    ASSUME Inv, NEW c \in Consumers, Printed(c) \/ Negative(c)
    PROVE  /\ element[c] \in 1 .. Len(popped)
           /\ element' = [element EXCEPT ![c] = 0]
           /\ UNCHANGED <<popped, negatives>>
           /\ pc' = [pc EXCEPT ![c] = "check"]
<1>1. pc[c] \in {"printing", "negative"}
  BY DEF Printed, Negative, Leave
<1>2. element[c] # 0 /\ element[c] \in Nat /\ Len(popped) \in Nat /\ element[c] <= Len(popped)
  BY <1>1 DEF Inv, Hands, DataTypes
<1>3. QED
  BY <1>2 DEF Printed, Negative, Free, NULL, Leave, Goto, history

LEMMA HandsStep ==
    ASSUME Inv, Next
    PROVE  Hands'
<1>0. DataTypes /\ PlacesOK /\ Hands /\ Len(popped) \in Nat
  BY DEF Inv, DataTypes
<1>1. CASE KeepsHands
  <2>1. \A c \in Consumers : element[c] # 0 /\ pc[c] # "moving" => element[c] \in 1 .. Len(popped)
    BY <1>0 DEF DataTypes, Hands
  <2>2. \A c \in Consumers : element[c] # 0 /\ pc[c] # "moving" =>
           (element[c] \in negatives' <=> element[c] \in negatives)
    BY <2>1, NegativesOfPopped
  <2>3. QED
    BY <1>0, <1>1, <2>2 DEF Hands, KeepsHands
<1>2. ASSUME NEW c \in Consumers, ReadHead(c)
      PROVE  Hands'
  <2>1. /\ pc[c] = "popping" /\ pc' = [pc EXCEPT ![c] = "moving"]
        /\ element' = [element EXCEPT ![c] = Len(popped) + 1]
    BY <1>2, ReadHeadFinds
  <2>2. UNCHANGED <<popped, negatives>>
    BY <1>2 DEF ReadHead, history
  <2>3. /\ element'[c] = Len(popped) + 1 /\ pc'[c] = "moving"
        /\ \A d \in Consumers \ {c} : element'[d] = element[d] /\ pc'[d] = pc[d]
    BY <1>0, <2>1, Distinct DEF DataTypes, PlacesOK
  <2>4. \A d \in Consumers \ {c} : pc[d] # "moving"
    BY <2>1, Distinct DEF Inv, Exclusive, LLPlaces
  <2>5. \A d \in Consumers \ {c} : element[d] \in Nat /\ element[d] <= Len(popped)
    BY <1>0, <2>4 DEF DataTypes, Hands
  <2>6. QED
    BY <1>0, <2>2, <2>3, <2>4, <2>5 DEF Hands
<1>3. ASSUME NEW c \in Consumers, MoveHead(c)
      PROVE  Hands'
  <2>1. /\ popped' = Append(popped, Len(popped) + 1) /\ UNCHANGED <<negatives, element>>
        /\ pc[c] = "moving" /\ element[c] = Len(popped) + 1
        /\ pc' = [pc EXCEPT ![c] = IF Len(popped) + 1 \in negatives
                                   THEN "negative" ELSE "print"]
    BY <1>3, MoveHeadTakes DEF MoveHead
  <2>2. Len(popped') = Len(popped) + 1
    BY <1>0, <2>1 DEF DataTypes
  <2>3. /\ \A d \in Consumers \ {c} : pc'[d] = pc[d]
        /\ pc'[c] = IF Len(popped) + 1 \in negatives THEN "negative" ELSE "print"
    BY <1>0, <2>1, Distinct DEF PlacesOK
  <2>4. \A d \in Consumers \ {c} : pc[d] # "moving"
    BY <2>1, Distinct DEF Inv, Exclusive, LLPlaces
  <2>5. \A d \in Consumers : element[d] \in Nat
    BY <1>0 DEF DataTypes
  <2>6. QED
    BY <1>0, <2>1, <2>2, <2>3, <2>4, <2>5 DEF Hands
<1>4. ASSUME NEW c \in Consumers, Printed(c) \/ Negative(c)
      PROVE  Hands'
  <2>1. /\ element' = [element EXCEPT ![c] = 0]
        /\ UNCHANGED <<popped, negatives>>
        /\ pc' = [pc EXCEPT ![c] = "check"]
    BY <1>4, ElementGiven
  <2>2. /\ element'[c] = 0 /\ pc'[c] = "check"
        /\ \A d \in Consumers \ {c} : element'[d] = element[d] /\ pc'[d] = pc[d]
    BY <1>0, <2>1, Distinct DEF DataTypes, PlacesOK
  <2>3. QED
    BY <1>0, <2>1, <2>2 DEF Hands
<1>5. QED
  BY <1>1, <1>2, <1>3, <1>4, OthersKeepHands

\* An entry is handled exactly when its consumer prints it or finds it negative.
LEMMA OutcomeStep ==
    ASSUME Inv, Next
    PROVE  Outcome'
<1>0. DataTypes /\ PlacesOK /\ Hands /\ Outcome /\ Len(popped) \in Nat
  BY DEF Inv, DataTypes
<1>1. CASE KeepsHands
  <2>1. Handled' = Handled
    BY <1>1 DEF Handled, KeepsHands
  <2>2. \A k \in Handled : k \in negatives' <=> k \in negatives
    BY NegativesOfPopped DEF Handled
  <2>3. UNCHANGED <<printed, negativ>>
    <3>1. CASE \E c \in Consumers : Consume(c)
      <4>1. PICK c \in Consumers : Consume(c)
        BY <3>1
      <4>2. ~ Printed(c) /\ ~ Negative(c)
        <5>1. pc[c] \notin {"printing", "negative"} \/ pc'[c] # "check"
          BY <1>1 DEF KeepsHands
        <5>2. Printed(c) \/ Negative(c) => pc[c] \in {"printing", "negative"} /\ pc'[c] = "check"
          BY <1>0, Distinct DEF Printed, Negative, Leave, Goto, PlacesOK
        <5>3. QED
          BY <5>1, <5>2
      <4>3. QED
        BY <4>1, <4>2 DEF Consume, isEmpty, TestEnd, TimedWaitFails, ReadHead, MoveHead,
                          flags, history
    <3>2. CASE ~ \E c \in Consumers : Consume(c)
      BY <3>2 DEF Next, ScanLine, ScanEnd, Produce, PushEnd, Post, SetEnd, ProducerEnds,
                  Manage, Create, Join, removeALL, Acquire, TimedWait, flags, history
    <3>3. QED
      BY <3>1, <3>2
  <2>4. QED
    BY <1>0, <2>1, <2>2, <2>3 DEF Outcome
<1>2. ASSUME NEW c \in Consumers, ReadHead(c) \/ MoveHead(c)
      PROVE  Outcome'
  <2>1. UNCHANGED <<printed, negativ, negatives>>
    BY <1>2 DEF ReadHead, MoveHead, flags, history
  <2>2. CASE ReadHead(c)
    <3>1. pc[c] = "popping" /\ element' = [element EXCEPT ![c] = Len(popped) + 1]
      BY <2>2, ReadHeadFinds
    <3>2. popped' = popped /\ element[c] = 0
      BY <1>0, <2>2, <3>1 DEF ReadHead, history, Hands
    <3>3. \A d \in Consumers : element'[d] = IF d = c THEN Len(popped) + 1 ELSE element[d]
      BY <1>0, <3>1 DEF DataTypes
    <3>4. Handled' = Handled
      BY <1>0, <3>2, <3>3 DEF Handled
    <3>5. QED
      BY <1>0, <2>1, <3>4 DEF Outcome
  <2>3. CASE MoveHead(c)
    <3>1. popped' = Append(popped, Len(popped) + 1) /\ element[c] = Len(popped) + 1
      BY <2>3, MoveHeadTakes
    <3>2. element' = element /\ Len(popped') = Len(popped) + 1
      BY <1>0, <2>3, <3>1 DEF MoveHead, DataTypes
    <3>3. Handled' = Handled
      BY <1>0, <3>1, <3>2 DEF Handled
    <3>4. QED
      BY <1>0, <2>1, <3>3 DEF Outcome
  <2>4. QED
    BY <1>2, <2>2, <2>3
<1>3. ASSUME NEW c \in Consumers, Printed(c) \/ Negative(c)
      PROVE  Outcome'
  <2>1. /\ element[c] \in 1 .. Len(popped)
        /\ element' = [element EXCEPT ![c] = 0]
        /\ UNCHANGED <<popped, negatives>>
    BY <1>3, ElementGiven
  <2>2. element'[c] = 0 /\ \A d \in Consumers \ {c} : element'[d] = element[d]
    BY <1>0, <2>1 DEF DataTypes
  <2>3. \A d \in Consumers \ {c} : element[d] # element[c]
    BY <1>0, <2>1 DEF Hands
  <2>4. Handled' = Handled \cup {element[c]}
    BY <1>0, <2>1, <2>2, <2>3 DEF Handled
  <2>5. CASE Printed(c)
    <3>1. element[c] \notin negatives
      BY <1>0, <2>5 DEF Hands, Printed, Leave
    <3>2. printed' = printed \cup {element[c]} /\ negativ' = negativ
      BY <2>5 DEF Printed, flags
    <3>3. QED
      BY <1>0, <2>1, <2>4, <3>1, <3>2 DEF Outcome
  <2>6. CASE Negative(c)
    <3>1. element[c] \in negatives
      BY <1>0, <2>6 DEF Hands, Negative
    <3>2. printed' = printed /\ negativ' = TRUE
      BY <2>6 DEF Negative, history
    <3>3. QED
      BY <1>0, <2>1, <2>4, <3>1, <3>2 DEF Outcome
  <2>7. QED
    BY <1>3, <2>5, <2>6
<1>4. QED
  BY <1>1, <1>2, <1>3, OthersKeepHands

\* Who has been told that the input ended finds a list that only gets shorter.
LEMMA EndIsFinalStep ==
    ASSUME Inv, Next
    PROVE  EndIsFinal'
<1> USE Distinct
<1>0. DataTypes /\ PlacesOK /\ EndIsFinal
  BY DEF Inv
<1>1. end' <=> pc'[Producer] \in {"finish", "done"}
  <2>1. CASE ScanLine \/ ScanEnd \/ PushEnd \/ Post
    BY <1>0, <2>1 DEF ScanLine, ScanEnd, PushEnd, Post, Goto, Leave, flags, EndIsFinal,
                      PlacesOK
  <2>2. CASE SetEnd \/ ProducerEnds
    BY <1>0, <2>2 DEF SetEnd, ProducerEnds, Goto, Leave, EndIsFinal, PlacesOK
  <2>3. CASE Join \/ removeALL
    <3>1. end' = end /\ \E there : pc' = [pc EXCEPT ![Main] = there]
      BY <2>3 DEF Join, removeALL, Goto, Leave, flags
    <3>2. QED
      BY <1>0, <3>1 DEF EndIsFinal, PlacesOK
  <2>4. ASSUME NEW t \in Threads, Create(t)
        PROVE  end' <=> pc'[Producer] \in {"finish", "done"}
    <3>1. end' = end
      BY <2>4 DEF Create, flags
    <3>2. \/ pc'[Producer] = pc[Producer]
          \/ pc[Producer] = "new" /\ pc'[Producer] = "scan"
      <4>1. CASE t = Producer
        BY <1>0, <2>4, <4>1, CreateMoves DEF PlacesOK
      <4>2. CASE t # Producer
        BY <1>0, <2>4, <4>2, CreateMoves DEF PlacesOK
      <4>3. QED
        BY <4>1, <4>2
    <3>3. QED
      BY <1>0, <3>1, <3>2 DEF EndIsFinal
  <2>5. ASSUME NEW t \in Threads, Acquire(t)
        PROVE  end' <=> pc'[Producer] \in {"finish", "done"}
    <3>1. end' = end
      BY <2>5 DEF Acquire, flags
    <3>2. CASE t = Producer
      BY <1>0, <2>5, <3>1, <3>2, AcquireMoves DEF EndIsFinal, PlacesOK
    <3>3. CASE t # Producer
      BY <1>0, <2>5, <3>1, <3>3 DEF Acquire, Goto, EndIsFinal, PlacesOK
    <3>4. QED
      BY <3>2, <3>3
  <2>6. ASSUME NEW c \in Consumers, Consume(c) \/ TimedWait(c)
        PROVE  end' <=> pc'[Producer] \in {"finish", "done"}
    <3>1. end' = end
      BY <2>6 DEF Consume, isEmpty, TestEnd, TimedWaitFails, TimedWait, ReadHead, MoveHead, Printed,
                  Negative, flags
    <3>2. \E there : pc' = [pc EXCEPT ![c] = there]
      BY <2>6 DEF Consume, isEmpty, TestEnd, TimedWaitFails, TimedWait, ReadHead, MoveHead, Printed,
                  Negative, Goto, Leave
    <3>3. QED
      BY <1>0, <3>1, <3>2 DEF EndIsFinal, PlacesOK
  <2>7. QED
    BY <2>1, <2>2, <2>3, <2>4, <2>5, <2>6 DEF Next, Produce, Manage
<1>2. end => end'
  BY <1>0 DEF Next, ScanLine, ScanEnd, Produce, PushEnd, Post, SetEnd, ProducerEnds,
              Manage, Create, Join, removeALL, Acquire, Consume, isEmpty, TestEnd,
              TimedWaitFails, TimedWait, ReadHead, MoveHead, Printed, Negative, flags
<1>3. end /\ list.count = 0 => list'.count = 0
  <2>1. SUFFICES ASSUME end, list.count = 0 PROVE list' = list
    OBVIOUS
  <2>2. ~ PushEnd
    BY <1>0, <2>1 DEF EndIsFinal, PushEnd, Leave
  <2>3. ASSUME NEW c \in Consumers PROVE ~ MoveHead(c)
    BY <2>1, MoveHeadTakes, PopFinds
  <2>4. QED
    BY <2>2, <2>3 DEF Next, ScanLine, ScanEnd, Produce, Post, SetEnd, ProducerEnds,
              Manage, Create, Join, removeALL, Acquire, Consume, isEmpty, TestEnd,
              TimedWaitFails, TimedWait, ReadHead, Printed, Negative
<1>4. ASSUME NEW c \in Consumers, late'[c]
      PROVE  end' /\ list'.count = 0
  <2>1. CASE late' = late
    BY <1>0, <1>2, <1>3, <1>4, <2>1 DEF EndIsFinal
  <2>2. ASSUME NEW d \in Consumers, isEmpty(d)
        PROVE  end' /\ list'.count = 0
    <3>1. CASE d = c
      BY <1>0, <1>4, <2>2, <3>1 DEF isEmpty, DataTypes, flags
    <3>2. CASE d # c
      BY <1>0, <1>2, <1>3, <1>4, <2>2, <3>2 DEF isEmpty, DataTypes, EndIsFinal
    <3>3. QED
      BY <3>1, <3>2
  <2>3. QED
    BY <2>1, <2>2 DEF Next, ScanLine, ScanEnd, Produce, PushEnd, Post, SetEnd, ProducerEnds,
              Manage, Create, Join, removeALL, Acquire, Consume, TestEnd,
              TimedWaitFails, TimedWait, ReadHead, MoveHead, Printed, Negative, history
<1>5. QED
  BY <1>1, <1>4 DEF EndIsFinal

\* The flag main reads was written before the producer was done.
LEMMA EndingStep ==
    ASSUME Inv, Next
    PROVE  Ending'
<1> USE Distinct
<1>0. DataTypes /\ PlacesOK /\ Ending
  BY DEF Inv
<1> DEFINE Told == /\ input # "line" <=> pc[Producer] \in {"setend", "setting", "finish", "done"}
                   /\ pc[Producer] = "done" => prod_terminate = (input # "eof")
           Waited == pc[Main] \in {"clean", "cleaning", "returned", "crashed"}
           AllDone == \A t \in Threads \ {Main} : pc[t] = "done"
<1>1. Told /\ (Waited => AllDone)
  BY <1>0 DEF Ending
<1>2. ASSUME Waited, AllDone
      PROVE  Ending'
  <2>1. /\ UNCHANGED <<input, prod_terminate>>
        /\ \E there : pc' = [pc EXCEPT ![Main] = there]
    <3>1. CASE Manage
      <4>1. ~ \E t \in Threads : Create(t)
        BY <1>2 DEF Create
      <4>2. QED
        BY <3>1, <4>1 DEF Manage, Join, removeALL, Goto, Leave, flags
    <3>2. ASSUME NEW t \in Threads, Acquire(t)
          PROVE  t = Main
      BY <1>2, <3>2 DEF Acquire, Entry
    <3>3. ~ (ScanLine \/ ScanEnd \/ Produce)
      BY <1>2 DEF ScanLine, ScanEnd, Produce, PushEnd, Post, SetEnd, ProducerEnds, Leave
    <3>4. ASSUME NEW c \in Consumers
          PROVE  ~ Consume(c) /\ ~ TimedWait(c)
      BY <1>2 DEF Consume, isEmpty, TestEnd, TimedWaitFails, TimedWait, ReadHead, MoveHead, Printed,
                  Negative, Leave
    <3>5. CASE Acquire(Main)
      BY <3>5 DEF Acquire, Goto, flags
    <3>6. QED
      BY <3>1, <3>2, <3>3, <3>4, <3>5 DEF Next
  <2>2. \A t \in Threads \ {Main} : pc'[t] = pc[t]
    BY <1>0, <2>1 DEF PlacesOK
  <2>3. QED
    BY <1>1, <1>2, <2>1, <2>2 DEF Ending
<1>3. ASSUME ~ Waited
      PROVE  Waited' => AllDone'
  <2>1. ASSUME Join
        PROVE  AllDone'
    BY <1>0, <2>1 DEF Join, Goto, PlacesOK
  <2>2. ASSUME NEW t \in Threads, Create(t)
        PROVE  ~ Waited'
    BY <1>0, <2>2, CreateMoves DEF PlacesOK
  <2>3. ~ removeALL /\ ~ Acquire(Main)
    BY <1>0, <1>3, AcquireMoves DEF removeALL, Leave
  <2>4. ASSUME NEW t \in Threads \ {Main}, \E there : pc' = [pc EXCEPT ![t] = there]
        PROVE  ~ Waited'
    BY <1>0, <1>3, <2>4 DEF PlacesOK
  <2>5. CASE ScanLine \/ ScanEnd \/ Produce
    <3>1. \E there : pc' = [pc EXCEPT ![Producer] = there]
      BY <2>5 DEF ScanLine, ScanEnd, Produce, PushEnd, Post, SetEnd, ProducerEnds, Goto,
                  Leave
    <3>2. QED
      BY <2>4, <3>1
  <2>6. ASSUME NEW t \in Threads \ {Main}, Acquire(t)
        PROVE  ~ Waited'
    BY <2>4, <2>6 DEF Acquire, Goto
  <2>7. ASSUME NEW c \in Consumers, Consume(c) \/ TimedWait(c)
        PROVE  ~ Waited'
    <3>1. \E there : pc' = [pc EXCEPT ![c] = there]
      BY <2>7 DEF Consume, isEmpty, TestEnd, TimedWaitFails, TimedWait, ReadHead, MoveHead, Printed,
                  Negative, Goto, Leave
    <3>2. QED
      BY <2>4, <3>1
  <2>8. QED
    BY <2>1, <2>2, <2>3, <2>5, <2>6, <2>7 DEF Next, Manage
<1>4. ASSUME ~ Waited
      PROVE  Told'
  <2>1. CASE ScanLine \/ PushEnd \/ Post
    BY <1>0, <1>1, <2>1 DEF ScanLine, PushEnd, Post, Goto, Leave, PlacesOK, flags
  <2>2. CASE ScanEnd
    BY <1>0, <1>1, <2>2 DEF ScanEnd, Goto, PlacesOK, DataTypes
  <2>3. CASE SetEnd
    BY <1>0, <1>1, <2>3 DEF SetEnd, Goto, Leave, PlacesOK
  <2>4. CASE ProducerEnds
    BY <1>0, <1>1, <2>4 DEF ProducerEnds, Goto, PlacesOK
  <2>5. ASSUME UNCHANGED <<input, prod_terminate>>, pc'[Producer] = pc[Producer]
        PROVE  Told'
    BY <1>1, <2>5
  <2>6. ASSUME NEW t \in Threads \ {Producer}, \E there : pc' = [pc EXCEPT ![t] = there]
        PROVE  pc'[Producer] = pc[Producer]
    BY <1>0, <2>6 DEF PlacesOK
  <2>7. CASE Join \/ removeALL
    <3>1. \E there : pc' = [pc EXCEPT ![Main] = there]
      BY <2>7 DEF Join, removeALL, Goto, Leave
    <3>2. QED
      BY <2>5, <2>6, <2>7, <3>1 DEF Join, removeALL, flags
  <2>8. ASSUME NEW t \in Threads, Create(t)
        PROVE  Told'
    <3>1. UNCHANGED <<input, prod_terminate>>
      BY <2>8 DEF Create, flags
    <3>2. CASE t = Producer
      BY <1>0, <1>1, <2>8, <3>1, <3>2, CreateMoves DEF PlacesOK
    <3>3. CASE t # Producer
      BY <1>0, <2>5, <2>8, <3>1, <3>3, CreateMoves DEF PlacesOK
    <3>4. QED
      BY <3>2, <3>3
  <2>9. ASSUME NEW t \in Threads, Acquire(t)
        PROVE  Told'
    <3>1. UNCHANGED <<input, prod_terminate>>
      BY <2>9 DEF Acquire, flags
    <3>2. CASE t = Producer
      BY <1>0, <1>1, <2>9, <3>1, <3>2, AcquireMoves DEF PlacesOK
    <3>3. CASE t # Producer
      BY <2>5, <2>6, <2>9, <3>1, <3>3 DEF Acquire, Goto
    <3>4. QED
      BY <3>2, <3>3
  <2>10. ASSUME NEW c \in Consumers, Consume(c) \/ TimedWait(c)
         PROVE  Told'
    <3>1. UNCHANGED <<input, prod_terminate>>
      BY <2>10 DEF Consume, isEmpty, TestEnd, TimedWaitFails, TimedWait, ReadHead, MoveHead, Printed,
                   Negative, flags
    <3>2. \E there : pc' = [pc EXCEPT ![c] = there]
      BY <2>10 DEF Consume, isEmpty, TestEnd, TimedWaitFails, TimedWait, ReadHead, MoveHead, Printed,
                   Negative, Goto, Leave
    <3>3. QED
      BY <2>5, <2>6, <3>1, <3>2
  <2>11. QED
    BY <2>1, <2>2, <2>3, <2>4, <2>7, <2>8, <2>9, <2>10 DEF Next, Produce, Manage
<1>5. QED
  BY <1>1, <1>2, <1>3, <1>4 DEF Ending
-----------------------------------------------------------------------------
LEMMA StepInv == Inv /\ [Next]_vars => Inv'
<1> SUFFICES ASSUME Inv, [Next]_vars PROVE Inv'
  OBVIOUS
<1>1. CASE Next
  BY <1>1, DataStep, PlacesStep, ExclusiveStep, SemStep, NumberedStep, HandsStep, OutcomeStep,
     EndIsFinalStep, EndingStep DEF Inv
<1>2. CASE UNCHANGED vars
  <2>1. UNCHANGED <<list, next, sem, end, negativ, prod_terminate, owner, pc, element, sent, negatives,
                    input, popped, printed, late>>
    BY <1>2 DEF vars, flags, history
  <2>2. Popping' = Popping /\ Handled' = Handled
    BY <2>1 DEF Popping, Handled
  <2>3. DataTypes' /\ PlacesOK' /\ SemAccounting'
    BY <2>1, <2>2 DEF Inv, DataTypes, PlacesOK, SemAccounting
  <2>4. Numbered' /\ Exclusive' /\ Hands'
    BY <2>1 DEF Inv, Numbered, Exclusive, Hands
  <2>5. Outcome' /\ EndIsFinal' /\ Ending'
    BY <2>1, <2>2 DEF Inv, Outcome, EndIsFinal, Ending
  <2>6. QED
    BY <2>3, <2>4, <2>5 DEF Inv
<1>3. QED
  BY <1>1, <1>2

\* The invariant, for any number of consumers and lines.
THEOREM Invariant == Spec => []Inv
BY InitInv, StepInv, PTL DEF Spec

\* pop is called without a second test of the list, and never finds it empty:
\* sem_post and sem_timedwait count the entries for it.
THEOREM SemaphoreCounts == Spec => []SemAccounting
<1>1. Inv => SemAccounting
  BY DEF Inv
<1>2. QED
  BY <1>1, Invariant, PTL

\* The pointers of the list make a queue: whichever way PushEnd's two branches
\* and the pops of the consumers alternate, nothing is lost and the order kept.
THEOREM QueueIsFifo == Spec => []Fifo
<1>1. Inv => Fifo
  <2> SUFFICES ASSUME Inv PROVE Fifo
    OBVIOUS
  <2>1. popped \in Seq(Nat) /\ list.count \in Nat /\ Numbered /\ sent \in Nat
    BY DEF Inv, DataTypes
  <2> DEFINE n == Len(popped)
  <2>2. n \in Nat /\ sent = n + list.count
    BY <2>1 DEF Numbered
  <2>3. sent - list.count + 1 = n + 1 /\ (n + 1) - 1 = n
    BY <2>1, <2>2
  <2>4. popped = [k \in 1 .. n |-> k]
    <3>1. DOMAIN popped = 1 .. n /\ popped = [k \in DOMAIN popped |-> popped[k]]
      BY <2>1
    <3>2. QED
      BY <2>1, <3>1 DEF Numbered
  <2>5. QED
    BY <2>1, <2>3, <2>4 DEF Fifo, Numbered
<1>2. QED
  BY <1>1, Invariant, PTL

\* The entries popped are the numbers up to their count.
LEMMA PoppedNumbers ==
    ASSUME Inv
    PROVE  ToSet(popped) = 1 .. Len(popped)
<1>1. popped \in Seq(Nat) /\ \A k \in 1 .. Len(popped) : popped[k] = k
  BY DEF Inv, DataTypes, Numbered
<1>2. DOMAIN popped = 1 .. Len(popped)
  BY <1>1
<1>3. QED
  BY <1>1, <1>2 DEF ToSet

\* No line is handled twice or forgotten: what a consumer popped is in its
\* hands, printed, or negative.
THEOREM LinesHandledOnce == Spec => []EachHandledOnce
<1>1. Inv => EachHandledOnce
  <2> SUFFICES ASSUME Inv PROVE EachHandledOnce
    OBVIOUS
  <2> DEFINE hands == {element[c] : c \in {d \in Consumers : pc[d] # "moving"}} \ {NULL}
  <2>1. ToSet(popped) = 1 .. Len(popped)
    BY PoppedNumbers
  <2>2. hands \subseteq 1 .. Len(popped)
    BY DEF Inv, Hands, DataTypes, NULL
  <2>3. Handled = (1 .. Len(popped)) \ hands
    <3>1. Len(popped) \in Nat /\ \A c \in Consumers : pc[c] = "moving" => element[c] = Len(popped) + 1
      BY DEF Inv, DataTypes, Hands
    <3>2. QED
      BY <3>1 DEF Handled, NULL
  <2>4. printed = ToSet(popped) \ (hands \cup negatives)
    BY <2>1, <2>3 DEF Inv, Outcome
  <2>5. QED
    BY <2>1, <2>2, <2>4 DEF EachHandledOnce, Inv, Hands, NULL
<1>2. QED
  BY <1>1, Invariant, PTL

\* The flag `end' is read after the mutex is released, but a consumer that
\* looked at the list after it was set leaves nothing behind.
THEOREM LateLookLeavesNothing == Spec => []LeftOnlyByStaleCheck
<1>1. Inv => LeftOnlyByStaleCheck
  BY DEF Inv, EndIsFinal, LeftOnlyByStaleCheck
<1>2. QED
  BY <1>1, Invariant, PTL

\* main's status is right though it takes no lock to read negativ and
\* prod_terminate: all who write them have been joined.
THEOREM StatusIsRight == Spec => []ExitStatus
<1>1. Inv => ExitStatus
  <2> SUFFICES ASSUME Inv, pc[Main] = "returned"
               PROVE  Status = 1 <=> input = "bad" \/ negatives \cap ToSet(popped) # {}
    BY DEF ExitStatus
  <2> USE Distinct
  <2>1. \A t \in Threads \ {Main} : pc[t] = "done"
    BY DEF Inv, Ending
  <2>2. \A c \in Consumers : element[c] = 0
    BY <2>1 DEF Inv, Hands
  <2>3. Handled = 1 .. Len(popped)
    BY <2>2 DEF Handled
  <2>4. negativ <=> negatives \cap ToSet(popped) # {}
    BY <2>3, PoppedNumbers DEF Inv, Outcome
  <2>5. prod_terminate = (input # "eof") /\ input # "line"
    BY <2>1 DEF Inv, Ending
  <2>6. prod_terminate <=> input = "bad"
    BY <2>5 DEF Inv, DataTypes
  <2>7. QED
    BY <2>4, <2>6 DEF Status
<1>2. QED
  BY <1>1, Invariant, PTL
=============================================================================
