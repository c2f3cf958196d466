---------------------------- MODULE FactoryProofs -----------------------------
(***************************************************************************)
(* The mutex of hw6/factory.cpp does exclude, for any number of workers    *)
(* and any input: a thread that is where the code holds it owns it.  So a  *)
(* thread that locks it a second time shuts out every other for good, and  *)
(* the phases of a product are done one after the other.  What the mutex   *)
(* does not cover, the lookups that meet main's additions, changes and   *)
(* sorting, can give a worker a phase of another place only by a swap.     *)
(***************************************************************************)
EXTENDS Factory, SequenceTheorems, TLAPS

\* Where a thread has the mutex.
Inside == {"locked", "starting", "making", "ending", "adding", "removing",
           "unreached", "again", "checking", "working", "unlock"}

Outside == {"read", "start", "make", "end", "add", "remove", "sorting", "join",
            "exited", "new", "startup", "lock"}

Sites == Inside \cup Outside

\* Where main and the workers are is known, and what main will read.
WhereOK ==
    /\ pc \in [Threads -> Sites]
    /\ toRead \in Seq(Commands)

\* A thread between a lock and its unlock owns the mutex.
HoldsMutex == \A t \in Threads : pc[t] \in Inside => owner = t

Inv == WhereOK /\ HoldsMutex

\* The commands' names are places outside the mutex.
LEMMA CommandNames ==
    ASSUME NEW c \in Commands
    PROVE  c[1] \in {"add", "remove", "make", "start", "end"}
BY DEF Commands

LEMMA EntryPlaces ==
    ASSUME NEW x \in DOMAIN Entry
    PROVE  Entry[x] \in Inside
<1>1. x \in {"lock", "start", "make", "end", "add", "remove", "again"}
  BY DEF Entry
<1>2. /\ Entry["lock"] \in Inside /\ Entry["start"] \in Inside
      /\ Entry["make"] \in Inside /\ Entry["end"] \in Inside
      /\ Entry["add"] \in Inside /\ Entry["remove"] \in Inside
      /\ Entry["again"] \in Inside
  BY DEF Entry, Inside
<1>3. QED
  BY <1>1, <1>2

LEMMA MainIsThread == Main \in Threads /\ Main \notin Workers /\ Nobody \notin Threads
BY FactoryAssumption DEF Threads

\* At the start nobody holds the mutex.
LEMMA InitInv == Init => Inv
<1> SUFFICES ASSUME Init PROVE Inv
  OBVIOUS
<1>1. WhereOK
  <2>1. pc \in [Threads -> Sites]
    BY DEF Init, Sites, Outside
  <2>2. toRead \in Seq(Commands)
    BY FactoryAssumption DEF Init
  <2>3. QED
    BY <2>1, <2>2 DEF WhereOK
<1>2. HoldsMutex
  BY DEF Init, HoldsMutex, Inside
<1>3. QED
  BY <1>1, <1>2 DEF Inv

\* A thread that moves without touching the mutex stays on its side of it.
LEMMA StaysOnItsSide ==
    ASSUME Inv, NEW t \in Threads, NEW x \in Sites,
           pc' = [pc EXCEPT ![t] = x], owner' = owner,
           x \in Inside => pc[t] \in Inside,
           toRead' \in Seq(Commands)
    PROVE  Inv'
BY DEF Inv, WhereOK, HoldsMutex

\* An owner that gives the mutex back goes where it is not needed.
LEMMA GivesBack ==
    ASSUME Inv, NEW t \in Threads, pc[t] \in Inside,
           NEW x \in Outside,
           pc' = [pc EXCEPT ![t] = x],
           toRead' \in Seq(Commands)
    PROVE  Inv'
BY DEF Inv, WhereOK, HoldsMutex, Sites, Inside, Outside

\* Taking the mutex: nobody had it.
LEMMA AcquireInv ==
    ASSUME Inv, NEW t \in Threads, Acquire(t)
    PROVE  Inv'
<1>1. \A s \in Threads : pc[s] \notin Inside
  BY MainIsThread DEF Inv, HoldsMutex, Acquire
<1>2. Entry[pc[t]] \in Sites
  BY EntryPlaces DEF Acquire, Sites
<1>3. QED
  BY <1>1, <1>2 DEF Inv, WhereOK, HoldsMutex, Acquire, Goto, input

\* A worker's lookup ends on the side of the mutex where it began.
LEMMA FoundInv ==
    ASSUME Inv, NEW w \in Workers, NEW n, InLookup(w), Found(w, n)
    PROVE  Inv'
<1> DEFINE there == IF pc[w] = "startup"
                    THEN IF look[w].list = "C" THEN "lock" ELSE "startup"
                    ELSE IF n # 0 /\ curr[look[w].list] = num[w][look[w].list]
                         THEN "working" ELSE "unlock"
<1>1. pc' = [pc EXCEPT ![w] = there] /\ owner' = owner /\ toRead' = toRead
  BY DEF Found, Goto, input
<1>2. there \in Sites
  BY DEF Sites, Inside, Outside
<1>3. there \in Inside => pc[w] \in Inside
  BY DEF InLookup, Inside
<1>4. w \in Threads /\ toRead' \in Seq(Commands)
  BY <1>1 DEF Threads, Inv, WhereOK
<1> HIDE DEF there
<1>5. QED
  BY <1>1, <1>2, <1>3, <1>4, StaysOnItsSide

LEMMA CrashInv ==
    ASSUME Inv, Crash
    PROVE  Inv'
BY DEF Inv, WhereOK, HoldsMutex, Crash, input

LEMMA LookupInv ==
    ASSUME Inv, NEW w \in Workers, Lookup(w)
    PROVE  Inv'
<1>1. CASE UNCHANGED <<pc, owner, toRead>>
  BY <1>1 DEF Inv, WhereOK, HoldsMutex
<1>2. CASE FindStart(w)
  BY <1>1, <1>2, FoundInv DEF FindStart, input
<1>3. CASE FindNode(w)
  BY <1>1, <1>3, FoundInv DEF FindNode, input
<1>4. CASE FindPriority(w)
  BY <1>4, FoundInv DEF FindPriority
<1>5. CASE FindFreed(w)
  BY <1>5, FoundInv, CrashInv DEF FindFreed
<1>6. QED
  BY <1>2, <1>3, <1>4, <1>5 DEF Lookup

\* Choose, Idle and the phase keep the mutex; Unlock gives it back.
LEMMA RoutineInv ==
    ASSUME Inv, NEW w \in Workers, Routine(w)
    PROVE  Inv'
<1>1. w \in Threads
  BY DEF Threads
<1>2. CASE Lookup(w)
  BY <1>2, LookupInv
<1>3. CASE Choose(w)
  <2>1. toRead' = toRead /\ owner' = owner /\ pc[w] = "locked"
    BY <1>3 DEF Choose, input
  <2>2. \/ pc' = [pc EXCEPT ![w] = "checking"]
        \/ pc' = [pc EXCEPT ![w] = "unlock"]
    BY <1>3 DEF Choose, Goto
  <2>3. QED
    BY <1>1, <2>1, <2>2, StaysOnItsSide DEF Sites, Inside, Outside, Inv, WhereOK
<1>4. CASE Idle(w)
  <2>1. pc[w] = "locked" /\ pc' = [pc EXCEPT ![w] = "again"]
        /\ toRead' = toRead /\ owner' = owner
    BY <1>4 DEF Idle, Goto, input
  <2>2. QED
    BY <1>1, <2>1, StaysOnItsSide DEF Sites, Inside, Outside, Inv, WhereOK
<1>5. CASE find_time(w)
  <2>1. pc[w] = "working" /\ pc' = [pc EXCEPT ![w] = "unlock"]
        /\ toRead' = toRead /\ owner' = owner
    BY <1>5 DEF find_time, Goto, input
  <2>2. QED
    BY <1>1, <2>1, StaysOnItsSide DEF Sites, Inside, Outside, Inv, WhereOK
<1>6. CASE Unlock(w)
  <2>1. pc[w] = "unlock" /\ pc' = [pc EXCEPT ![w] = "lock"] /\ toRead' = toRead
    BY <1>6 DEF Unlock, Release, Goto, input
  <2>2. QED
    BY <1>1, <2>1, GivesBack DEF Inside, Outside, Inv, WhereOK
<1>7. QED
  BY <1>2, <1>3, <1>4, <1>5, <1>6 DEF Routine

\* main reads a command and goes to the lock of its handler, or frees the lists.
LEMMA ReadInv ==
    ASSUME Inv, Read \/ deleteLinkedLists
    PROVE  Inv'
<1>1. CASE Read /\ ~ReadsNullArg(Head(toRead))
  <2> DEFINE c == Head(toRead)
  <2>1. c \in Commands /\ Tail(toRead) \in Seq(Commands)
    BY <1>1 DEF Read, Inv, WhereOK
  <2>2. Handler(c) \in {"read", "add", "remove", "make", "start", "end"}
    BY <2>1, CommandNames DEF Handler
  <2>3. Handler(c) \in Outside
    BY <2>2 DEF Outside
  <2>4. /\ pc' = [pc EXCEPT ![Main] = Handler(c)]
        /\ owner' = owner /\ toRead' = Tail(toRead)
    BY <1>1 DEF Read, Goto
  <2> HIDE DEF c
  <2>5. QED
    BY <2>1, <2>3, <2>4, MainIsThread, StaysOnItsSide DEF Sites, Inside, Outside
<1>4. CASE Read /\ ReadsNullArg(Head(toRead))
  BY <1>4, CrashInv DEF Read
<1>2. CASE deleteLinkedLists
  <2>1. pc' = [pc EXCEPT ![Main] = "join"] /\ owner' = owner /\ toRead' = toRead
    BY <1>2 DEF deleteLinkedLists, Goto, input
  <2>2. QED
    BY <2>1, MainIsThread, StaysOnItsSide DEF Sites, Inside, Outside, Inv, WhereOK
<1>3. QED
  BY <1>1, <1>2, <1>4

\* The sorting never touches the mutex.
LEMMA SortInv ==
    ASSUME Inv, Sort
    PROVE  Inv'
<1>1. owner' = owner /\ toRead' = toRead
  BY DEF Sort, SwapFirst, SwapSecond, PassEnd, input
<1>2. pc' = pc \/ pc' = [pc EXCEPT ![Main] = "read"]
  BY DEF Sort, SwapFirst, SwapSecond, PassEnd, Goto
<1>3. QED
  BY <1>1, <1>2, MainIsThread, StaysOnItsSide
     DEF Sites, Inside, Outside, Inv, WhereOK, HoldsMutex

LEMMA ManageInv ==
    ASSUME Inv, Manage
    PROVE  Inv'
<1> USE MainIsThread
<1>1. CASE StartWorker
  <2> DEFINE v == cmd[2][1]
  <2>1. pc[Main] = "starting" /\ toRead' = toRead
        /\ pc' = [pc EXCEPT ![Main] = "read", ![v] = "startup"]
    BY <1>1 DEF StartWorker, input
  <2>2. owner = Main
    BY <2>1 DEF Inv, HoldsMutex, Inside
  <2>3. \A s \in Threads : s # Main => pc[s] \notin Inside
    BY <2>2 DEF Inv, HoldsMutex
  <2>4. \A s \in Threads : pc'[s] \notin Inside
    BY <2>1, <2>3 DEF Inside, Inv, WhereOK
  <2>5. pc' \in [Threads -> Sites]
    BY <2>1 DEF Inv, WhereOK, Sites, Outside
  <2>6. QED
    BY <2>1, <2>4, <2>5 DEF Inv, WhereOK, HoldsMutex
<1>2. CASE Make
  <2>1. pc[Main] = "making" /\ pc' = [pc EXCEPT ![Main] = "read"] /\ toRead' = toRead
    BY <1>2 DEF Make, Release, Goto, input
  <2>2. QED
    BY <2>1, GivesBack DEF Inside, Outside, Inv, WhereOK
<1>3. CASE End
  <2>1. pc[Main] = "ending" /\ pc' = [pc EXCEPT ![Main] = "again"]
        /\ toRead' = toRead /\ owner' = owner
    BY <1>3 DEF End, Goto, input
  <2>2. QED
    BY <2>1, StaysOnItsSide DEF Sites, Inside, Outside, Inv, WhereOK
<1>4. CASE EndAdd
  <2>1. pc[Main] = "adding" /\ pc' = [pc EXCEPT ![Main] = "sorting"]
        /\ toRead' = toRead
    BY <1>4 DEF EndAdd, Release, Goto, input
  <2>2. QED
    BY <2>1, GivesBack DEF Inside, Outside, Inv, WhereOK
<1>5. CASE InsertNode
  BY <1>5 DEF InsertNode, input, Inv, WhereOK, HoldsMutex
<1>6. CASE DeleteNode
  BY <1>6 DEF DeleteNode, input, Inv, WhereOK, HoldsMutex
<1>7. CASE EndRemove
  <2>1. pc[Main] = "removing" /\ pc' = [pc EXCEPT ![Main] = "read"]
        /\ toRead' = toRead
    BY <1>7 DEF EndRemove, Release, Goto, input
  <2>2. QED
    BY <2>1, GivesBack DEF Inside, Outside, Inv, WhereOK
<1>8. CASE Join
  <2>1. pc' = [pc EXCEPT ![Main] = "exited"] /\ toRead' = toRead /\ owner' = owner
    BY <1>8 DEF Join, Goto, input
  <2>2. QED
    BY <2>1, StaysOnItsSide DEF Sites, Inside, Outside, Inv, WhereOK
<1>9. CASE Sort
  BY <1>9, SortInv
<1>10. QED
  BY <1>1, <1>2, <1>3, <1>4, <1>5, <1>6, <1>7, <1>8, <1>9 DEF Manage

LEMMA StepInv == Inv /\ [Next]_vars => Inv'
<1> SUFFICES ASSUME Inv, [Next]_vars PROVE Inv'
  OBVIOUS
<1>1. CASE Read \/ deleteLinkedLists
  BY <1>1, ReadInv
<1>2. CASE Manage
  BY <1>2, ManageInv
<1>3. ASSUME NEW t \in Threads, Acquire(t) PROVE Inv'
  BY <1>3, AcquireInv
<1>4. ASSUME NEW w \in Workers, Routine(w) PROVE Inv'
  BY <1>4, RoutineInv
<1>5. ASSUME NEW w \in Workers, ReadsMovedArray(w) PROVE Inv'
  BY <1>5, CrashInv DEF ReadsMovedArray
<1>6. CASE UNCHANGED vars
  BY <1>6 DEF vars, input, Inv, WhereOK, HoldsMutex
<1>7. QED
  BY <1>1, <1>2, <1>3, <1>4, <1>5, <1>6 DEF Next

\* Mutual exclusion: wherever routine and main's handlers stand between a
\* pthread_mutex_lock and its unlock, the thread there owns the mutex; hence
\* never two threads do.
THEOREM MutualExclusion == Spec => []HoldsMutex
<1>1. Inv => HoldsMutex
  BY DEF Inv
<1>2. QED
  BY <1>1, InitInv, StepInv, PTL DEF Spec
-----------------------------------------------------------------------------
(* The turn: which phase is due and who does it. *)

\* Every lookup is in the list of a product.
LookShape ==
    /\ look = [w \in Workers |-> look[w]]
    /\ \A w \in Workers :
          /\ look[w] = [list |-> look[w].list, at |-> look[w].at, hit |-> look[w].hit]
          /\ look[w].list \in Products

\* The phases done are counted by curr.
Counted ==
    /\ curr \in [Products -> Nat \ {0}]
    /\ done \in [Products -> Seq(Nat \X Workers)]
    /\ \A p \in Products :
          /\ Len(done[p]) = curr[p] - 1
          /\ \A k \in 1 .. Len(done[p]) : done[p][k][1] = k
          /\ p # "A" => done[p] = <<>>

\* The words of parts that the branches for B and C test stay zero, so the
\* mutex is only ever used to look for a phase of A.
OnlyA ==
    /\ parts \in [Products -> [0 .. 2 -> Nat]]
    /\ parts["A"][1] = 0 /\ parts["A"][2] = 0
    /\ \A w \in Workers : pc[w] \in {"checking", "working"} => look[w].list = "A"

\* Whoever does a phase has the one that is due.
Turn ==
    /\ num = [w \in Workers |-> num[w]]
    /\ \A w \in Workers : pc[w] = "working" => num[w]["A"] = curr["A"]

TurnInv == LookShape /\ Counted /\ OnlyA /\ Turn

LEMMA WorkerIsThread == \A w \in Workers : w \in Threads /\ w # Main
  BY MainIsThread DEF Threads

LEMMA InitTurn == Init => TurnInv
<1> SUFFICES ASSUME Init PROVE TurnInv
  OBVIOUS
<1>1. LookShape
  BY DEF Init, LookShape, NoLook, Products
<1>2. Counted
  BY DEF Init, Counted
<1>3. OnlyA
  BY WorkerIsThread DEF Init, OnlyA, Products, Threads
<1>4. Turn
  BY WorkerIsThread DEF Init, Turn, Threads
<1> QED
  BY <1>1, <1>2, <1>3, <1>4 DEF TurnInv

\* A step that moves no worker into a lookup with the mutex or into a phase,
\* and leaves the turn and the order alone.
LEMMA TurnKept ==
    ASSUME TurnInv, UNCHANGED <<curr, done, num>>,
           parts' = parts,
           LookShape',
           \A w \in Workers : pc'[w] \in {"checking", "working"} =>
              pc'[w] = pc[w] /\ look'[w].list = look[w].list
    PROVE  TurnInv'
<1>1. Counted'
  BY DEF TurnInv, Counted
<1>2. OnlyA' /\ Turn'
  BY DEF TurnInv, OnlyA, Turn
<1> QED
  BY <1>1, <1>2 DEF TurnInv

LEMMA LookMoved ==
    ASSUME LookShape, NEW w \in Workers, NEW l, look' = [look EXCEPT ![w] = l],
           l = [list |-> l.list, at |-> l.at, hit |-> l.hit], l.list \in Products
    PROVE  LookShape' /\ \A v \in Workers : look'[v] = IF v = w THEN l ELSE look[v]
<1>1. \A v \in Workers : look'[v] = IF v = w THEN l ELSE look[v]
  BY DEF LookShape
<1>2. look' = [v \in Workers |-> look'[v]]
  BY DEF LookShape
<1> QED
  BY <1>1, <1>2 DEF LookShape

\* The end of a lookup: the first ones only set the worker's own numbers, a
\* later one leads to a phase only if it is this worker's turn.
LEMMA FoundTurn ==
    ASSUME Inv, TurnInv, NEW w \in Workers, NEW n, InLookup(w), Found(w, n)
    PROVE  TurnInv'
<1> DEFINE p == look[w].list
           first == pc[w] = "startup"
           l == IF first /\ p # "C" THEN [NoLook EXCEPT !.list = NextProduct(p)]
                                    ELSE [NoLook EXCEPT !.list = p]
           there == IF first THEN IF p = "C" THEN "lock" ELSE "startup"
                    ELSE IF n # 0 /\ curr[p] = num[w][p] THEN "working"
                    ELSE "unlock"
<1>1. /\ num' = IF first THEN [num EXCEPT ![w][p] = n] ELSE num
      /\ look' = [look EXCEPT ![w] = l] /\ pc' = [pc EXCEPT ![w] = there]
      /\ UNCHANGED <<parts, curr, done>>
  BY DEF Found, Goto
<1>2. p \in Products
  BY DEF TurnInv, LookShape
<1>3. l = [list |-> l.list, at |-> l.at, hit |-> l.hit] /\ l.list \in Products
      /\ (~first => l.list = p)
  BY <1>2 DEF NoLook, NextProduct, Products
<1>4. \A v \in Threads : pc'[v] = IF v = w THEN there ELSE pc[v]
  BY <1>1, WorkerIsThread DEF Inv, WhereOK
<1>5. \A v \in Workers : v # w => num'[v] = num[v]
  BY <1>1 DEF TurnInv, Turn
<1>6. num' = [v \in Workers |-> num'[v]]
  BY <1>1 DEF TurnInv, Turn
<1>7. first \/ pc[w] = "checking"
  BY DEF InLookup
<1>8. there = "working" => ~first /\ num[w][p] = curr[p]
  OBVIOUS
<1>9. there # "checking"
  OBVIOUS
<1> HIDE DEF l, there
<1>10. LookShape' /\ \A v \in Workers : look'[v] = IF v = w THEN l ELSE look[v]
  BY <1>1, <1>3, LookMoved DEF TurnInv
<1>11. ~first => p = "A" /\ num' = num
  BY <1>1, <1>7 DEF TurnInv, OnlyA
<1>12. Counted'
  BY <1>1 DEF TurnInv, Counted
<1>13. OnlyA'
  <2>1. ASSUME NEW v \in Workers, pc'[v] \in {"checking", "working"}
        PROVE  look'[v].list = "A"
    <3>1. v # w => look'[v] = look[v] /\ pc'[v] = pc[v]
      BY <1>4, <1>10, WorkerIsThread
    <3>2. v = w => pc'[v] = there /\ look'[v] = l
      BY <1>4, <1>10, WorkerIsThread
    <3>3. v = w => look'[v].list = "A"
      BY <1>3, <1>8, <1>9, <1>11, <2>1, <3>2
    <3> QED
      BY <2>1, <3>1, <3>3 DEF TurnInv, OnlyA
  <2> QED
    BY <1>1, <2>1 DEF TurnInv, OnlyA
<1>14. Turn'
  <2>1. ASSUME NEW v \in Workers, pc'[v] = "working"
        PROVE  num'[v]["A"] = curr["A"]
    <3>1. v # w => pc'[v] = pc[v] /\ num'[v] = num[v]
      BY <1>4, <1>5, WorkerIsThread
    <3>2. v = w => there = "working"
      BY <1>4, <2>1, WorkerIsThread
    <3>3. v = w => num'[v]["A"] = curr["A"]
      BY <1>8, <1>11, <3>2
    <3> QED
      BY <2>1, <3>1, <3>3 DEF TurnInv, Turn
  <2> QED
    BY <1>1, <1>6, <2>1 DEF Turn
<1> QED
  BY <1>10, <1>12, <1>13, <1>14 DEF TurnInv

LEMMA CrashTurn ==
    ASSUME TurnInv, Crash
    PROVE  TurnInv'
  BY TurnKept DEF Crash, TurnInv, LookShape, work

LEMMA LookupTurn ==
    ASSUME Inv, TurnInv, NEW w \in Workers, Lookup(w)
    PROVE  TurnInv'
<1>1. ASSUME NEW l, look' = [look EXCEPT ![w] = l],
             l = [list |-> look[w].list, at |-> l.at, hit |-> l.hit],
             UNCHANGED <<work, pc, done>>
      PROVE  TurnInv'
  <2>1. l.list = look[w].list /\ l.list \in Products
    BY <1>1 DEF TurnInv, LookShape
  <2>2. LookShape' /\ \A v \in Workers : look'[v] = IF v = w THEN l ELSE look[v]
    BY <1>1, <2>1, LookMoved DEF TurnInv
  <2> QED
    BY <1>1, <2>1, <2>2, TurnKept DEF work
<1>2. \A i : /\ [look EXCEPT ![w].at = i] =
                   [look EXCEPT ![w] = [look[w] EXCEPT !.at = i]]
             /\ [look EXCEPT ![w].hit = i] =
                   [look EXCEPT ![w] = [look[w] EXCEPT !.hit = i]]
  OBVIOUS
<1>3. \A i : LET a == [look[w] EXCEPT !.at = i]
                 h == [look[w] EXCEPT !.hit = i]
             IN  /\ a = [list |-> look[w].list, at |-> a.at, hit |-> a.hit]
                 /\ h = [list |-> look[w].list, at |-> h.at, hit |-> h.hit]
  BY DEF TurnInv, LookShape
<1>4. ASSUME NEW i, look' = [look EXCEPT ![w].at = i], UNCHANGED <<work, pc, done>>
      PROVE  TurnInv'
  BY <1>1, <1>2, <1>3, <1>4
<1>5. ASSUME NEW i, look' = [look EXCEPT ![w].hit = i], UNCHANGED <<work, pc, done>>
      PROVE  TurnInv'
  BY <1>1, <1>2, <1>3, <1>5
<1>6. CASE FindStart(w)
  BY <1>4, <1>6, FoundTurn DEF FindStart
<1>7. CASE FindNode(w)
  BY <1>4, <1>5, <1>7, FoundTurn DEF FindNode
<1>8. CASE FindPriority(w)
  BY <1>8, FoundTurn DEF FindPriority
<1>9. CASE FindFreed(w)
  BY <1>9, FoundTurn, CrashTurn DEF FindFreed
<1> QED
  BY <1>6, <1>7, <1>8, <1>9 DEF Lookup

\* Only the branch for A is ever taken.
LEMMA ChooseTurn ==
    ASSUME Inv, TurnInv, NEW w \in Workers, Choose(w)
    PROVE  TurnInv'
<1>1. PICK p \in ChosenProducts :
         IF num[w][p] # 0
         THEN /\ look' = [look EXCEPT ![w] = [NoLook EXCEPT !.list = p]]
              /\ Goto(w, "checking")
         ELSE Goto(w, "unlock") /\ UNCHANGED look
  BY DEF Choose
<1>2. p = "A"
  BY DEF ChosenProducts, Waiting, TurnInv, OnlyA, Products
<1>3. UNCHANGED <<parts, curr, num, done>>
  BY DEF Choose, work
<1>4. CASE pc' = [pc EXCEPT ![w] = "unlock"] /\ look' = look
  <2>1. \A v \in Workers : pc'[v] = IF v = w THEN "unlock" ELSE pc[v]
    BY <1>4, WorkerIsThread DEF Inv, WhereOK
  <2>2. LookShape'
    BY <1>4 DEF TurnInv, LookShape
  <2> QED
    BY <1>3, <1>4, <2>1, <2>2, TurnKept
<1>5. CASE /\ pc' = [pc EXCEPT ![w] = "checking"]
           /\ look' = [look EXCEPT ![w] = [NoLook EXCEPT !.list = "A"]]
  <2> DEFINE l == [NoLook EXCEPT !.list = "A"]
  <2>1. \A v \in Workers : pc'[v] = IF v = w THEN "checking" ELSE pc[v]
    BY <1>5, WorkerIsThread DEF Inv, WhereOK
  <2>2. l = [list |-> l.list, at |-> l.at, hit |-> l.hit] /\ l.list = "A"
        /\ l.list \in Products /\ look' = [look EXCEPT ![w] = l]
    BY <1>5 DEF NoLook, Products
  <2> HIDE DEF l
  <2>3. LookShape' /\ \A v \in Workers : look'[v] = IF v = w THEN l ELSE look[v]
    BY <2>2, LookMoved DEF TurnInv
  <2>4. OnlyA'
    BY <1>3, <2>1, <2>2, <2>3 DEF TurnInv, OnlyA
  <2>5. Counted' /\ Turn'
    BY <1>3, <2>1 DEF TurnInv, Counted, Turn
  <2> QED
    BY <2>3, <2>4, <2>5 DEF TurnInv
<1> QED
  BY <1>1, <1>2, <1>4, <1>5 DEF Goto

\* A phase done: it was due, the next one is, and nobody else is at work.
LEMMA PhaseTurn ==
    ASSUME Inv, TurnInv, NEW w \in Workers, find_time(w)
    PROVE  TurnInv'
<1>1. /\ pc[w] = "working" /\ look' = look /\ num' = num /\ parts' = parts
      /\ pc' = [pc EXCEPT ![w] = "unlock"]
  BY DEF find_time, Goto
<1>2. look[w].list = "A" /\ num[w]["A"] = curr["A"]
  BY <1>1 DEF TurnInv, OnlyA, Turn
<1>3. /\ curr' = [curr EXCEPT !["A"] = @ + 1]
      /\ done' = [done EXCEPT !["A"] = Append(@, <<curr["A"], w>>)]
  BY <1>2 DEF find_time, NextPhase
<1>4. \A v \in Workers : pc'[v] # "working"
  <2>1. \A v \in Workers : v # w => pc[v] # "working"
    BY <1>1, WorkerIsThread DEF Inv, HoldsMutex, Inside
  <2> QED
    BY <1>1, <2>1, WorkerIsThread DEF Inv, WhereOK
<1>5. \A v \in Workers : pc'[v] = "checking" => pc[v] = "checking"
  BY <1>1, WorkerIsThread DEF Inv, WhereOK
<1> DEFINE old == done["A"]
           e == <<curr["A"], w>>
<1>6. /\ old \in Seq(Nat \X Workers) /\ e \in Nat \X Workers /\ curr["A"] \in Nat \ {0}
      /\ Len(old) = curr["A"] - 1 /\ \A k \in 1 .. Len(old) : old[k][1] = k
      /\ e[1] = curr["A"]
  BY DEF TurnInv, Counted, Products
<1>7. /\ done'["A"] = Append(old, e) /\ curr'["A"] = curr["A"] + 1
      /\ \A p \in Products : p # "A" => done'[p] = done[p] /\ curr'[p] = curr[p]
  BY <1>3 DEF TurnInv, Counted, Products
<1>8. /\ curr' \in [Products -> Nat \ {0}]
      /\ done' \in [Products -> Seq(Nat \X Workers)]
  <2>1. Append(old, e) \in Seq(Nat \X Workers) /\ curr["A"] + 1 \in Nat \ {0}
    BY <1>6
  <2> HIDE DEF old, e
  <2> QED
    BY <1>3, <2>1 DEF TurnInv, Counted, old, e
<1> HIDE DEF old, e
<1>9. /\ Len(Append(old, e)) = curr["A"]
      /\ \A k \in 1 .. Len(Append(old, e)) : Append(old, e)[k][1] = k
  <2>1. /\ Len(Append(old, e)) = Len(old) + 1
        /\ \A k \in 1 .. Len(old) + 1 :
              Append(old, e)[k] = IF k = Len(old) + 1 THEN e ELSE old[k]
    BY <1>6
  <2> QED
    BY <1>6, <2>1
<1>10. Counted'
  <2>1. ASSUME NEW p \in Products
        PROVE  /\ Len(done'[p]) = curr'[p] - 1
               /\ \A k \in 1 .. Len(done'[p]) : done'[p][k][1] = k
               /\ p # "A" => done'[p] = <<>>
    <3>1. CASE p = "A"
      <4> DEFINE new == Append(old, e)
      <4>1. done'[p] = new /\ curr'[p] = curr["A"] + 1
        BY <1>7, <3>1
      <4>2. Len(new) = curr["A"] /\ \A k \in 1 .. Len(new) : new[k][1] = k
        BY <1>9
      <4> HIDE DEF new
      <4> QED
        BY <1>6, <3>1, <4>1, <4>2
    <3>2. CASE p # "A"
      BY <1>7, <3>2 DEF TurnInv, Counted
    <3> QED
      BY <3>1, <3>2
  <2> QED
    BY <1>8, <2>1 DEF Counted
<1>11. OnlyA' /\ LookShape'
  BY <1>1, <1>4, <1>5 DEF TurnInv, OnlyA, LookShape
<1>12. Turn'
  BY <1>1, <1>4 DEF TurnInv, Turn
<1> QED
  BY <1>10, <1>11, <1>12 DEF TurnInv

\* A thread goes where nobody looks for a phase with the mutex.
LEMMA ElsewhereTurn ==
    ASSUME Inv, TurnInv, UNCHANGED <<parts, curr, num, done, look>>,
           NEW t \in Threads, NEW x, x \notin {"checking", "working"},
           pc' = [pc EXCEPT ![t] = x]
    PROVE  TurnInv'
<1>1. \A v \in Workers : pc'[v] = IF v = t THEN x ELSE pc[v]
  BY WorkerIsThread DEF Inv, WhereOK
<1>2. LookShape'
  BY DEF TurnInv, LookShape
<1> QED
  BY <1>1, <1>2, TurnKept

LEMMA ManageTurn ==
    ASSUME Inv, TurnInv, Manage
    PROVE  TurnInv'
<1> USE MainIsThread
<1>1. CASE StartWorker
  <2>1. UNCHANGED <<parts, curr, num, done, look>>
        /\ pc' = [pc EXCEPT ![Main] = "read", ![cmd[2][1]] = "startup"]
    BY <1>1 DEF StartWorker
  <2>2. \A v \in Workers : pc'[v] \in {"checking", "working"} => pc'[v] = pc[v]
    BY <2>1, WorkerIsThread DEF Inv, WhereOK
  <2>3. LookShape'
    BY <2>1 DEF TurnInv, LookShape
  <2> QED
    BY <2>1, <2>2, <2>3, TurnKept
<1>2. CASE Make
  <2>1. /\ parts' = [parts EXCEPT ![cmd[2]][0] = @ + 1]
        /\ pc' = [pc EXCEPT ![Main] = "read"]
        /\ UNCHANGED <<curr, num, done, look>>
    BY <1>2 DEF Make, Release, Goto
  <2>2. \A v \in Workers : pc'[v] = pc[v]
    BY <2>1, WorkerIsThread DEF Inv, WhereOK
  <2>3. /\ parts' \in [Products -> [0 .. 2 -> Nat]]
        /\ parts'["A"][1] = 0 /\ parts'["A"][2] = 0
    <3>1. "A" \in Products
      BY DEF Products
    <3>2. CASE cmd[2] \in Products
      <4> DEFINE c == cmd[2]
                 row == [parts[c] EXCEPT ![0] = @ + 1]
      <4>1. parts[c] \in [0 .. 2 -> Nat]
        BY <3>2 DEF TurnInv, OnlyA
      <4>2. row \in [0 .. 2 -> Nat] /\ row[1] = parts[c][1] /\ row[2] = parts[c][2]
        BY <4>1
      <4>3. parts' = [parts EXCEPT ![c] = row]
        BY <2>1
      <4> HIDE DEF c, row
      <4> QED
        BY <3>1, <4>2, <4>3 DEF TurnInv, OnlyA
    <3>3. CASE cmd[2] \notin Products
      BY <2>1, <3>3 DEF TurnInv, OnlyA
    <3> QED
      BY <3>2, <3>3
  <2>4. OnlyA' /\ LookShape'
    BY <2>1, <2>2, <2>3 DEF TurnInv, OnlyA, LookShape
  <2>5. Counted' /\ Turn'
    BY <2>1, <2>2 DEF TurnInv, Counted, Turn
  <2> QED
    BY <2>4, <2>5 DEF TurnInv
<1>3. CASE End
  <2>1. pc' = [pc EXCEPT ![Main] = "again"] /\ UNCHANGED <<parts, curr, num, done, look>>
    BY <1>3 DEF End, Goto
  <2> QED
    BY <2>1, ElsewhereTurn
<1>4. CASE EndAdd
  <2>1. pc' = [pc EXCEPT ![Main] = "sorting"] /\ UNCHANGED <<parts, curr, num, done, look>>
    BY <1>4 DEF EndAdd, Release, Goto, work
  <2> QED
    BY <2>1, ElsewhereTurn
<1>5. CASE InsertNode
  <2>1. UNCHANGED <<parts, curr, num, done, look, pc>>
    BY <1>5 DEF InsertNode, work
  <2> QED
    BY <2>1, TurnKept DEF TurnInv, LookShape
<1>6. CASE DeleteNode
  <2>1. UNCHANGED <<parts, curr, num, done, pc>>
    BY <1>6 DEF DeleteNode, work
  <2>2. PICK at : look' = [w \in Workers |-> [look[w] EXCEPT !.at = at[w]]]
    <3>1. \E at : look' = [w \in Workers |-> [look[w] EXCEPT !.at = at[w]]]
      <4> DEFINE q == Head(changes)[1]
                 i == NodeFromHead(places[q], Head(changes)[2])
                 Moved(l) == IF l.list # q \/ l.at < i \/ i < 1 THEN l.at
                             ELSE IF l.at = i THEN Freed
                             ELSE l.at - 1
                 at == [w \in Workers |-> Moved(look[w])]
      <4>1. look' = [w \in Workers |-> [look[w] EXCEPT !.at = Moved(look[w])]]
        BY <1>6 DEF DeleteNode
      <4> HIDE DEF Moved
      <4>2. \A w \in Workers : at[w] = Moved(look[w])
        OBVIOUS
      <4> HIDE DEF at
      <4> QED
        BY <4>1, <4>2
    <3> QED
      BY <3>1
  <2>3. LookShape' /\ \A w \in Workers : look'[w].list = look[w].list
    BY <2>2 DEF TurnInv, LookShape
  <2> QED
    BY <2>1, <2>3, TurnKept
<1>7. CASE EndRemove
  <2>1. pc' = [pc EXCEPT ![Main] = "read"] /\ UNCHANGED <<parts, curr, num, done, look>>
    BY <1>7 DEF EndRemove, Release, Goto, work
  <2> QED
    BY <2>1, ElsewhereTurn
<1>8. CASE Join
  <2>1. pc' = [pc EXCEPT ![Main] = "exited"] /\ UNCHANGED <<parts, curr, num, done, look>>
    BY <1>8 DEF Join, Goto, work
  <2> QED
    BY <2>1, ElsewhereTurn
<1>9. CASE Sort
  <2>1. UNCHANGED <<parts, curr, num, done, look>>
    BY <1>9 DEF Sort, SwapFirst, SwapSecond, PassEnd, work
  <2>2. pc' = pc \/ pc' = [pc EXCEPT ![Main] = "read"]
    BY <1>9 DEF Sort, SwapFirst, SwapSecond, PassEnd, Goto
  <2>3. CASE pc' = pc
    BY <2>1, <2>3, TurnKept DEF TurnInv, LookShape
  <2> QED
    BY <2>1, <2>2, <2>3, ElsewhereTurn
<1> QED
  BY <1>1, <1>2, <1>3, <1>4, <1>5, <1>6, <1>7, <1>8, <1>9 DEF Manage

LEMMA StepTurn == Inv /\ TurnInv /\ [Next]_vars => TurnInv'
<1> SUFFICES ASSUME Inv, TurnInv, [Next]_vars PROVE TurnInv'
  OBVIOUS
<1>8. CASE Read /\ ReadsNullArg(Head(toRead))
  BY <1>8, CrashTurn DEF Read
<1>1. CASE Read /\ ~ReadsNullArg(Head(toRead))
  <2>1. pc' = [pc EXCEPT ![Main] = Handler(Head(toRead))]
        /\ UNCHANGED <<parts, curr, num, done, look>>
    BY <1>1 DEF Read, Goto, work
  <2>2. Head(toRead) \in Commands
    BY <1>1 DEF Read, Inv, WhereOK
  <2>3. Handler(Head(toRead)) \notin {"checking", "working"}
    BY <2>2, CommandNames DEF Handler
  <2> QED
    BY <2>1, <2>3, MainIsThread, ElsewhereTurn
<1>2. CASE deleteLinkedLists
  <2>1. UNCHANGED <<parts, curr, num, done>> /\ pc' = [pc EXCEPT ![Main] = "join"]
        /\ look' = [w \in Workers |-> IF look[w].at > 0 THEN [look[w] EXCEPT !.at = Freed]
                                                        ELSE look[w]]
    BY <1>2 DEF deleteLinkedLists, Goto, work
  <2>2. LookShape' /\ \A w \in Workers : look'[w].list = look[w].list
    BY <2>1 DEF TurnInv, LookShape
  <2>3. \A w \in Workers : pc'[w] = pc[w]
    BY <2>1, WorkerIsThread DEF Inv, WhereOK
  <2> QED
    BY <2>1, <2>2, <2>3, TurnKept
<1>3. CASE Manage
  BY <1>3, ManageTurn
<1>4. ASSUME NEW t \in Threads, Acquire(t) PROVE TurnInv'
  <2>1. pc' = [pc EXCEPT ![t] = Entry[pc[t]]] /\ pc[t] \in DOMAIN Entry
        /\ UNCHANGED <<parts, curr, num, done, look>>
    BY <1>4 DEF Acquire, Goto, work
  <2>2. Entry[pc[t]] \notin {"checking", "working"}
    BY <2>1 DEF Entry
  <2> QED
    BY <2>1, <2>2, ElsewhereTurn
<1>5. ASSUME NEW w \in Workers, Routine(w) PROVE TurnInv'
  <2>1. CASE Idle(w) \/ Unlock(w)
    <3>1. UNCHANGED <<parts, curr, num, done, look>>
          /\ (pc' = [pc EXCEPT ![w] = "again"] \/ pc' = [pc EXCEPT ![w] = "lock"])
      BY <2>1 DEF Idle, Unlock, Release, Goto, work
    <3> QED
      BY <3>1, WorkerIsThread, ElsewhereTurn
  <2> QED
    BY <1>5, <2>1, LookupTurn, ChooseTurn, PhaseTurn DEF Routine
<1>6. ASSUME NEW w \in Workers, ReadsMovedArray(w) PROVE TurnInv'
  BY <1>6, CrashTurn DEF ReadsMovedArray
<1>7. CASE UNCHANGED vars
  BY <1>7, TurnKept DEF vars, work, TurnInv, LookShape
<1> QED
  BY <1>1, <1>2, <1>3, <1>4, <1>5, <1>6, <1>7, <1>8 DEF Next

\* The phases of a product are done one after the other, each once, and none of
\* B or C ever, for any number of workers, any input and any race between the
\* lookups, the sorting and the clean-up.
THEOREM PhasesOneByOne == Spec => []PhasesInOrder
<1>1. TurnInv => PhasesInOrder
  <2> SUFFICES ASSUME TurnInv, NEW p \in Products
               PROVE  /\ [k \in DOMAIN done[p] |-> done[p][k][1]] = [k \in 1 .. curr[p] - 1 |-> k]
                      /\ p # "A" => done[p] = <<>>
    BY DEF PhasesInOrder
  <2>1. DOMAIN done[p] = 1 .. curr[p] - 1
        /\ \A k \in 1 .. curr[p] - 1 : done[p][k][1] = k
    BY DEF TurnInv, Counted
  <2>2. p # "A" => done[p] = <<>>
    BY DEF TurnInv, Counted
  <2> QED
    BY <2>1, <2>2
<1> QED
  BY <1>1, InitInv, StepInv, InitTurn, StepTurn, PTL DEF Spec
-----------------------------------------------------------------------------
(* The lists, and what a worker may have read from them. *)

Nodes == [priority : Nat, work : PlaceNames]

RightNode(p, n) == n \in Nodes /\ CanDo(n.work, p, n.priority)

RightList(p, list) ==
    /\ list \in Seq(Nodes)
    /\ \A i \in 1 .. Len(list) : RightNode(p, list[i])

\* The nodes that place x may have.
Doable(x) == {c \in Products \X (Nat \ {0}) : CanDo(x, c[1], c[2])}

\* Every node names a phase its place can do, and those that main will still
\* insert will too.
ListsRight ==
    /\ places = [p \in Products |-> places[p]]
    /\ \A p \in Products : RightList(p, places[p])
    /\ changes \in Seq(Products \X (Nat \ {0}))
    /\ pc[Main] \in {"add", "adding"} => arg \in PlaceNames /\ changes \in Seq(Doable(arg))

\* The sort stays inside its list, and the node it has saved is a right one.
Sorting ==
    /\ sort = [list |-> sort.list, at |-> sort.at, lptr |-> sort.lptr,
               swapped |-> sort.swapped, saved |-> sort.saved]
    /\ sort.list \in Products
    /\ sort.saved # <<>> => RightNode(sort.list, sort.saved[1])
    /\ pc[Main] # "sorting" => sort.saved = <<>>
    /\ pc[Main] = "sorting" =>
          LET n == Len(places[sort.list])
          IN  /\ sort.at \in Nat /\ sort.lptr \in Nat
              /\ n = 0 => sort.at = 0 /\ sort.lptr = 0 /\ ~sort.swapped
              /\ n # 0 => sort.lptr < sort.at /\ sort.at <= n
              /\ sort.swapped => sort.lptr + 2 <= n
              /\ sort.saved # <<>> => sort.at - 1 > sort.lptr

LEMMA PhasesType ==
    ASSUME NEW x \in PlaceNames, NEW p \in Products
    PROVE  Phases(x)[p] \in Seq(Nat \ {0})
<1> DEFINE S == Nat \ {0}
<1>1. p = "A" \/ p = "B" \/ p = "C"
  BY DEF Products
<1>2. /\ 1 \in S /\ 2 \in S /\ 3 \in S /\ 4 \in S /\ 5 \in S /\ 6 \in S
  OBVIOUS
<1> SUFFICES Phases(x)[p] \in Seq(S)
  OBVIOUS
<1> HIDE DEF S
<1>3. ASSUME NEW a \in Seq(S), NEW b \in Seq(S), NEW c \in Seq(S),
             Phases(x) = [A |-> a, B |-> b, C |-> c]
      PROVE  Phases(x)[p] \in Seq(S)
  BY <1>1, <1>3
<1>4. CASE x = "nuzky"
  <2>1. Phases(x) = [A |-> <<1>>, B |-> <<2>>, C |-> <<>>]
    BY <1>4 DEF Phases
  <2>2. <<1>> \in Seq(S) /\ <<2>> \in Seq(S) /\ <<>> \in Seq(S)
    BY <1>2
  <2> QED
    BY <1>3, <2>1, <2>2, Zenon
<1>5. CASE x = "vrtacka"
  <2>1. Phases(x) = [A |-> <<2, 5>>, B |-> <<1, 4>>, C |-> <<2, 4>>]
    BY <1>5 DEF Phases
  <2>2. <<2, 5>> \in Seq(S) /\ <<1, 4>> \in Seq(S) /\ <<2, 4>> \in Seq(S)
    BY <1>2
  <2> QED
    BY <1>3, <2>1, <2>2, Zenon
<1>6. CASE x = "ohybacka"
  <2>1. Phases(x) = [A |-> <<3>>, B |-> <<>>, C |-> <<>>]
    BY <1>6 DEF Phases
  <2>2. <<3>> \in Seq(S) /\ <<>> \in Seq(S) /\ <<>> \in Seq(S)
    BY <1>2
  <2> QED
    BY <1>3, <2>1, <2>2, Zenon
<1>7. CASE x = "svarecka"
  <2>1. Phases(x) = [A |-> <<4>>, B |-> <<>>, C |-> <<>>]
    BY <1>7 DEF Phases
  <2>2. <<4>> \in Seq(S) /\ <<>> \in Seq(S) /\ <<>> \in Seq(S)
    BY <1>2
  <2> QED
    BY <1>3, <2>1, <2>2, Zenon
<1>8. CASE x = "lakovna"
  <2>1. Phases(x) = [A |-> <<6>>, B |-> <<5>>, C |-> <<6>>]
    BY <1>8 DEF Phases
  <2>2. <<6>> \in Seq(S) /\ <<5>> \in Seq(S) /\ <<6>> \in Seq(S)
    BY <1>2
  <2> QED
    BY <1>3, <2>1, <2>2, Zenon
<1>9. CASE x = "sroubovak"
  <2>1. Phases(x) = [A |-> <<>>, B |-> <<6>>, C |-> <<3>>]
    BY <1>9 DEF Phases
  <2>2. <<>> \in Seq(S) /\ <<6>> \in Seq(S) /\ <<3>> \in Seq(S)
    BY <1>2
  <2> QED
    BY <1>3, <2>1, <2>2, Zenon
<1>10. CASE x = "freza"
  <2>1. Phases(x) = [A |-> <<>>, B |-> <<3>>, C |-> <<1, 5>>]
    BY <1>10 DEF Phases
  <2>2. <<>> \in Seq(S) /\ <<3>> \in Seq(S) /\ <<1, 5>> \in Seq(S)
    BY <1>2
  <2> QED
    BY <1>3, <2>1, <2>2, Zenon
<1> QED
  BY <1>4, <1>5, <1>6, <1>7, <1>8, <1>9, <1>10 DEF PlaceNames

\* What `add' inserts and `remove' counts to are phases of the place.
LEMMA PositionsType ==
    ASSUME NEW x \in PlaceNames
    PROVE  Positions(x) \in Seq(Doable(x)) /\ Insertions(x) \in Seq(Doable(x))
<1> DEFINE Of(p) == [i \in DOMAIN Phases(x)[p] |-> <<p, Phases(x)[p][i]>>]
<1>1. ASSUME NEW p \in Products PROVE Of(p) \in Seq(Doable(x))
  <2> DEFINE s == Phases(x)[p]
  <2>1. s \in Seq(Nat \ {0})
    BY PhasesType
  <2>4. \A i \in DOMAIN s : CanDo(x, p, s[i])
    BY DEF CanDo
  <2> HIDE DEF s
  <2>2. DOMAIN s = 1 .. Len(s) /\ Len(s) \in Nat /\ \A i \in 1 .. Len(s) : s[i] \in Nat \ {0}
    BY <2>1
  <2>5. \A i \in 1 .. Len(s) : <<p, s[i]>> \in Doable(x)
    BY <2>2, <2>4 DEF Doable
  <2>3. [i \in 1 .. Len(s) |-> <<p, s[i]>>] \in Seq(Doable(x))
    BY <2>2, <2>5
  <2> QED
    BY <2>2, <2>3 DEF s
<1>2. Of("A") \in Seq(Doable(x)) /\ Of("B") \in Seq(Doable(x)) /\ Of("C") \in Seq(Doable(x))
  BY <1>1 DEF Products
<1>3. Positions(x) = Of("A") \o Of("B") \o Of("C")
  BY DEF Positions
<1> HIDE DEF Of
<1>4. Positions(x) \in Seq(Doable(x))
  BY <1>2, <1>3
<1>5. CASE x = "lakovna"
  <2>1. Phases(x) = [A |-> <<6>>, B |-> <<5>>, C |-> <<6>>]
    BY <1>5 DEF Phases
  <2>2. CanDo(x, "A", 6) /\ CanDo(x, "B", 5) /\ CanDo(x, "C", 6)
    BY <2>1 DEF CanDo
  <2>3. <<"B", 5>> \in Doable(x) /\ <<"A", 6>> \in Doable(x) /\ <<"C", 6>> \in Doable(x)
    BY <2>2 DEF Doable, Products
  <2>4. << <<"B", 5>>, <<"A", 6>>, <<"C", 6>> >> \in Seq(Doable(x))
    BY <2>3
  <2> QED
    BY <1>4, <1>5, <2>4 DEF Insertions
<1>6. CASE x # "lakovna"
  BY <1>4, <1>6 DEF Insertions
<1> QED
  BY <1>4, <1>5, <1>6

\* insert keeps the nodes of the list where they are.
LEMMA InsertRight ==
    ASSUME NEW x \in PlaceNames, NEW p \in Products, NEW list, RightList(p, list),
           NEW n, <<p, n>> \in Doable(x), NEW new, new = insert(list, n, x)
    PROVE  /\ RightList(p, new)
           /\ Len(list) <= Len(new)
           /\ \A i \in 1 .. Len(list) : new[i] = list[i]
<1> PICK added : added = Node(n, x)
  OBVIOUS
<1>1. added \in Nodes /\ RightNode(p, added)
  BY DEF Doable, Node, Nodes, RightNode
<1>2. list \in Seq(Nodes) /\ Len(list) \in Nat /\ \A i \in 1 .. Len(list) : RightNode(p, list[i])
  BY DEF RightList
<1>3. new = Append(list, added)
  BY DEF insert
<1>4. /\ new \in Seq(Nodes) /\ Len(new) = Len(list) + 1
      /\ \A i \in 1 .. Len(list) + 1 : new[i] = IF i = Len(list) + 1 THEN added ELSE list[i]
  BY <1>1, <1>2, <1>3
<1> QED
  BY <1>1, <1>2, <1>4 DEF RightList

\* A list without its i-th node, or all of it when it has none.
TakenOut(list, i, new) ==
    /\ i \in Int /\ i <= Len(list)
    /\ i < 1 => new = list
    /\ i >= 1 => /\ Len(new) = Len(list) - 1
                 /\ \A j \in 1 .. i - 1 : new[j] = list[j]
                 /\ \A j \in i + 1 .. Len(list) : new[j - 1] = list[j]

\* deleteNodeIndex takes one node out, or none.
LEMMA DeleteRight ==
    ASSUME NEW p \in Products, NEW list, RightList(p, list), NEW k \in Nat \ {0},
           NEW i, i = NodeFromHead(list, k), NEW new, new = deleteNodeIndex(list, k)
    PROVE  RightList(p, new) /\ TakenOut(list, i, new)
<1> DEFINE n == Len(list)
<1>1. list \in Seq(Nodes) /\ n \in Nat /\ i = n + 1 - k /\ DOMAIN list = 1 .. n
  BY DEF RightList, NodeFromHead
<1>2. i \in Int /\ i <= n
  BY <1>1
<1>3. CASE i < 1
  <2>1. new = list
    BY <1>1, <1>3 DEF deleteNodeIndex
  <2> QED
    BY <1>2, <1>3, <2>1 DEF TakenOut
<1>4. CASE i >= 1
  <2>1. i \in 1 .. n
    BY <1>1, <1>2, <1>4
  <2>2. new = SubSeq(list, 1, i - 1) \o SubSeq(list, i + 1, n)
    BY <1>1, <2>1 DEF deleteNodeIndex, RemoveAt
  <2> HIDE DEF n
  <2> DEFINE a == SubSeq(list, 1, i - 1)
             b == SubSeq(list, i + 1, n)
  <2>3. /\ a \in Seq(Nodes) /\ Len(a) = i - 1 /\ \A j \in 1 .. i - 1 : a[j] = list[j]
        /\ b \in Seq(Nodes) /\ Len(b) = n - i /\ \A j \in 1 .. n - i : b[j] = list[j + i]
    <3>1. \A j \in 1 .. n : list[j] \in Nodes
      BY <1>1 DEF n
    <3>2. /\ 1 \in Int /\ i - 1 \in Int /\ i + 1 \in Int /\ n \in Int
          /\ \A j \in 1 .. i - 1 : list[j] \in Nodes
          /\ \A j \in i + 1 .. n : list[j] \in Nodes
      BY <1>1, <2>1, <3>1
    <3>3. /\ a \in Seq(Nodes) /\ Len(a) = IF 1 <= i - 1 THEN (i - 1) - 1 + 1 ELSE 0
          /\ \A j \in 1 .. (i - 1) - 1 + 1 : a[j] = list[1 + j - 1]
      BY <3>2, SubSeqProperties
    <3>4. /\ b \in Seq(Nodes) /\ Len(b) = IF i + 1 <= n THEN n - (i + 1) + 1 ELSE 0
          /\ \A j \in 1 .. n - (i + 1) + 1 : b[j] = list[(i + 1) + j - 1]
      BY <3>2, SubSeqProperties
    <3> HIDE DEF a, b
    <3>5. Len(a) = i - 1 /\ Len(b) = n - i
      BY <1>1, <2>1, <3>3, <3>4
    <3>6. \A j \in 1 .. i - 1 : j \in 1 .. (i - 1) - 1 + 1 /\ 1 + j - 1 = j
      BY <1>1, <2>1
    <3>7. \A j \in 1 .. n - i : j \in 1 .. n - (i + 1) + 1 /\ (i + 1) + j - 1 = j + i
      BY <1>1, <2>1
    <3> QED
      BY <3>3, <3>4, <3>5, <3>6, <3>7
  <2> HIDE DEF a, b
  <2>4. /\ new \in Seq(Nodes) /\ Len(new) = n - 1
        /\ \A j \in 1 .. n - 1 : new[j] = IF j <= i - 1 THEN a[j] ELSE b[j - (i - 1)]
    <3>1. new = a \o b
      BY <2>2 DEF a, b
    <3>2. Len(a) + Len(b) = n - 1
      BY <1>1, <2>1, <2>3
    <3>3. /\ a \o b \in Seq(Nodes) /\ Len(a \o b) = Len(a) + Len(b)
          /\ \A j \in 1 .. Len(a) + Len(b) :
                (a \o b)[j] = IF j <= Len(a) THEN a[j] ELSE b[j - Len(a)]
      BY <2>3, ConcatProperties
    <3> QED
      BY <2>3, <3>1, <3>2, <3>3
  <2>5. \A j \in 1 .. n - 1 : new[j] = IF j < i THEN list[j] ELSE list[j + 1]
    <3> SUFFICES ASSUME NEW j \in 1 .. n - 1
                 PROVE  new[j] = IF j < i THEN list[j] ELSE list[j + 1]
      OBVIOUS
    <3>1. CASE j < i
      BY <1>1, <2>1, <2>3, <2>4, <3>1
    <3>2. CASE ~(j < i)
      <4>1. j - (i - 1) \in 1 .. n - i /\ (j - (i - 1)) + i = j + 1
        BY <1>1, <2>1, <3>2
      <4> QED
        BY <1>1, <2>1, <2>3, <2>4, <3>2, <4>1
    <3> QED
      BY <3>1, <3>2
  <2>6. \A j \in 1 .. n - 1 : RightNode(p, new[j])
    BY <1>1, <2>1, <2>5 DEF RightList, n
  <2>7. RightList(p, new)
    BY <2>4, <2>6 DEF RightList
  <2>8. \A j \in i + 1 .. n : new[j - 1] = list[j]
    <3> SUFFICES ASSUME NEW j \in i + 1 .. n PROVE new[j - 1] = list[j]
      OBVIOUS
    <3>1. j - 1 \in 1 .. n - 1 /\ ~(j - 1 < i) /\ (j - 1) + 1 = j
      BY <1>1, <2>1
    <3> QED
      BY <2>5, <3>1
  <2>9. \A j \in 1 .. i - 1 : new[j] = list[j]
    <3> SUFFICES ASSUME NEW j \in 1 .. i - 1 PROVE new[j] = list[j]
      OBVIOUS
    <3>1. j \in 1 .. n - 1 /\ j < i
      BY <1>1, <2>1
    <3> QED
      BY <2>5, <3>1
  <2> QED
    BY <1>2, <1>4, <2>4, <2>7, <2>8, <2>9 DEF n, TakenOut
<1>5. CASE i < 1 \/ i >= 1
  BY <1>3, <1>4, <1>5
<1> QED
  BY <1>2, <1>5

\* A worker that main will still start is new, and each is started once.
Starts ==
    /\ StartsOnce(toRead)
    /\ \A i \in 1 .. Len(toRead) : toRead[i][1] = "start" =>
          /\ pc[toRead[i][2][1]] = "new"
          /\ pc[Main] \in {"start", "starting"} => cmd[2][1] # toRead[i][2][1]
    /\ pc[Main] \in {"start", "starting"} =>
          cmd[2][1] \in Workers /\ pc[cmd[2][1]] = "new"

\* A reader is at a node of its list, at none or at a deleted one; and if it
\* found its place in a first lookup, the node is still that of its place,
\* unless a swap came between.
Readers ==
    /\ job = [w \in Workers |-> job[w]]
    /\ \A w \in Workers :
          LET l == look[w]
          IN  /\ l.at \in Int
              /\ l.at <= Len(places[l.list])
              /\ l.at = 0 => ~l.hit
              /\ ~InLookup(w) => l.at = 0
              /\ pc[w] = "startup" /\ l.at > 0 /\ l.hit =>
                    w \in torn \/ places[l.list][l.at].work = job[w]

RightOrTorn(w, p, n) == pc[w] # "new" /\ (w \in torn \/ CanDo(job[w], p, n))

\* The numbers of a worker that was started, and so the phases it did, are
\* those of its place, unless a swap touched its first lookups.
Numbers ==
    /\ \A w \in Workers :
          /\ num[w] = [p \in Products |-> num[w][p]]
          /\ \A p \in Products : num[w][p] # 0 => RightOrTorn(w, p, num[w][p])
    /\ \A p \in Products : \A k \in 1 .. Len(done[p]) :
          RightOrTorn(done[p][k][2], p, done[p][k][1])

RaceInv == ListsRight /\ Sorting /\ Starts /\ Readers /\ Numbers

LEMMA InitRace == Init => RaceInv
<1> SUFFICES ASSUME Init PROVE RaceInv
  OBVIOUS
<1>1. \A t \in Threads : pc[t] = IF t = Main THEN "read" ELSE "new"
  BY DEF Init
<1>2. ListsRight
  <2>1. \A p \in Products : RightList(p, places[p])
    BY DEF Init, RightList
  <2> QED
    BY <1>1, <2>1, MainIsThread DEF Init, ListsRight
<1>3. Sorting
  BY <1>1, MainIsThread DEF Init, Sorting, NoSort, Products
<1>4. Starts
  <2>1. toRead \in Seq(Commands) /\ StartsOnce(toRead)
    BY FactoryAssumption DEF Init
  <2>2. ASSUME NEW i \in 1 .. Len(toRead), toRead[i][1] = "start"
        PROVE  pc[toRead[i][2][1]] = "new"
    <3>1. toRead[i] \in Commands
      BY <2>1
    <3>2. toRead[i][2][1] \in Workers
      BY <2>2, <3>1 DEF Commands
    <3> QED
      BY <1>1, <3>2, WorkerIsThread
  <2> QED
    BY <1>1, <2>1, <2>2, MainIsThread DEF Starts
<1>5. Readers
  <2>1. \A w \in Workers : pc[w] = "new" /\ look[w] = NoLook
    BY <1>1, WorkerIsThread DEF Init
  <2>2. \A p \in Products : Len(places[p]) = 0
    BY DEF Init
  <2>3. job = [w \in Workers |-> job[w]]
    BY DEF Init
  <2> QED
    BY <2>1, <2>2, <2>3 DEF Readers, NoLook, Products
<1>6. Numbers
  <2>1. \A w \in Workers : num[w] = [p \in Products |-> 0]
    BY DEF Init
  <2>2. \A p \in Products : done[p] = <<>>
    BY DEF Init
  <2> QED
    BY <2>1, <2>2 DEF Numbers
<1> QED
  BY <1>2, <1>3, <1>4, <1>5, <1>6 DEF RaceInv

\* What a step that touches neither the lists nor the commands keeps: main is
\* where it was, or has got the mutex it waited for, and starts no worker.
MainAsBefore ==
    pc'[Main] = pc[Main] \/ (pc[Main] \in DOMAIN Entry /\ pc'[Main] = Entry[pc[Main]])

StartsNone == \A w \in Workers : pc[w] = "new" <=> pc'[w] = "new"

LEMMA EnteredFrom ==
    ASSUME MainAsBefore
    PROVE  /\ pc'[Main] \in {"add", "adding"} => pc[Main] \in {"add", "adding"}
           /\ pc'[Main] \in {"start", "starting"} => pc[Main] \in {"start", "starting"}
           /\ pc'[Main] = "sorting" <=> pc[Main] = "sorting"
<1>1. CASE pc'[Main] = pc[Main]
  BY <1>1
<1>2. CASE pc[Main] \in DOMAIN Entry /\ pc'[Main] = Entry[pc[Main]]
  <2>1. pc[Main] \in {"lock", "start", "make", "end", "add", "remove", "again"}
    BY <1>2 DEF Entry
  <2>2. /\ pc[Main] = "lock" => pc'[Main] = "locked"
        /\ pc[Main] = "start" => pc'[Main] = "starting"
        /\ pc[Main] = "make" => pc'[Main] = "making"
        /\ pc[Main] = "end" => pc'[Main] = "ending"
        /\ pc[Main] = "add" => pc'[Main] = "adding"
        /\ pc[Main] = "remove" => pc'[Main] = "removing"
        /\ pc[Main] = "again" => pc'[Main] = "unreached"
    BY <1>2 DEF Entry
  <2> QED
    BY <2>1, <2>2
<1> QED
  BY <1>1, <1>2 DEF MainAsBefore

LEMMA StartsKept ==
    ASSUME Inv, Starts, UNCHANGED <<cmd, toRead>>, StartsNone,
           pc'[Main] \in {"start", "starting"} => pc[Main] \in {"start", "starting"}
    PROVE  Starts'
<1>1. \A i \in 1 .. Len(toRead) : toRead[i][1] = "start" => toRead[i][2][1] \in Workers
  <2> SUFFICES ASSUME NEW i \in 1 .. Len(toRead), toRead[i][1] = "start"
               PROVE  toRead[i][2][1] \in Workers
    OBVIOUS
  <2>1. toRead[i] \in Commands
    BY DEF Inv, WhereOK
  <2> QED
    BY <2>1 DEF Commands
<1> QED
  BY <1>1 DEF Starts, StartsNone

LEMMA ListsKept ==
    ASSUME Inv, ListsRight, Sorting, Starts, StartsNone, MainAsBefore,
           UNCHANGED <<places, sort, changes, arg, cmd, toRead>>
    PROVE  ListsRight' /\ Sorting' /\ Starts'
<1>1. ListsRight'
  BY EnteredFrom DEF ListsRight
<1>2. Sorting'
  BY EnteredFrom DEF Sorting
<1> QED
  BY <1>1, <1>2, EnteredFrom, StartsKept

\* The numbers a worker has, and what it did, stay right when neither changes.
LEMMA NumbersKept ==
    ASSUME TurnInv, Numbers, UNCHANGED <<num, done>>, torn \subseteq torn',
           \A w \in Workers : pc[w] # "new" => pc'[w] # "new" /\ job'[w] = job[w]
    PROVE  Numbers'
<1>1. ASSUME NEW w \in Workers, NEW p, NEW n, RightOrTorn(w, p, n)
      PROVE  RightOrTorn(w, p, n)'
  BY <1>1 DEF RightOrTorn
<1>2. \A p \in Products : \A k \in 1 .. Len(done[p]) : done[p][k][2] \in Workers
  <2> SUFFICES ASSUME NEW p \in Products, NEW k \in 1 .. Len(done[p])
               PROVE  done[p][k][2] \in Workers
    OBVIOUS
  <2>1. done[p] \in Seq(Nat \X Workers)
    BY DEF TurnInv, Counted
  <2>2. done[p][k] \in Nat \X Workers
    BY <2>1
  <2> QED
    BY <2>2
<1>3. \A w \in Workers : /\ num[w] = [p \in Products |-> num[w][p]]
                         /\ \A p \in Products : num[w][p] # 0 => RightOrTorn(w, p, num[w][p])'
  BY <1>1 DEF Numbers
<1>4. \A p \in Products : \A k \in 1 .. Len(done[p]) :
         RightOrTorn(done[p][k][2], p, done[p][k][1])'
  BY <1>1, <1>2 DEF Numbers
<1> QED
  BY <1>3, <1>4 DEF Numbers
-----------------------------------------------------------------------------
(* The steps of a worker. *)

\* One worker moves; its own lookup is where it may be.
LEMMA ReaderMoves ==
    ASSUME TurnInv, Readers, UNCHANGED <<places, job>>, torn \subseteq torn',
           NEW w \in Workers, NEW l, \A v \in Workers : look'[v] = IF v = w THEN l ELSE look[v],
           \A v \in Workers : v # w => pc'[v] = pc[v],
           l.at \in Int, l.at <= Len(places[l.list]),
           l.at = 0 => ~l.hit,
           ~InLookup(w)' => l.at = 0,
           pc'[w] = "startup" /\ l.at > 0 /\ l.hit =>
              w \in torn' \/ places[l.list][l.at].work = job[w]
    PROVE  Readers'
<1> SUFFICES ASSUME NEW v \in Workers
             PROVE  /\ look'[v].at \in Int
                    /\ look'[v].at <= Len(places'[look'[v].list])
                    /\ look'[v].at = 0 => ~look'[v].hit
                    /\ ~InLookup(v)' => look'[v].at = 0
                    /\ pc'[v] = "startup" /\ look'[v].at > 0 /\ look'[v].hit =>
                          \/ v \in torn'
                          \/ places'[look'[v].list][look'[v].at].work = job'[v]
  BY DEF Readers
<1>1. CASE v = w
  BY <1>1
<1>2. CASE v # w
  <2>1. look'[v] = look[v] /\ pc'[v] = pc[v]
    BY <1>2
  <2> QED
    BY <2>1 DEF Readers, InLookup
<1> QED
  BY <1>1, <1>2

LEMMA FoundRace ==
    ASSUME Inv, TurnInv, RaceInv, NEW w \in Workers, NEW n, InLookup(w), Found(w, n),
           torn \subseteq torn',
           pc[w] = "startup" /\ n # 0 => w \in torn' \/ RightOrTorn(w, look[w].list, n)
    PROVE  Readers' /\ Numbers'
<1> PICK p : p = look[w].list
  OBVIOUS
<1> DEFINE first == pc[w] = "startup"
           l == IF first /\ p # "C" THEN [NoLook EXCEPT !.list = NextProduct(p)]
                                    ELSE [NoLook EXCEPT !.list = p]
           there == IF first THEN IF p = "C" THEN "lock" ELSE "startup"
                    ELSE IF n # 0 /\ curr[p] = num[w][p] THEN "working"
                    ELSE "unlock"
<1>1. /\ num' = IF first THEN [num EXCEPT ![w][p] = n] ELSE num
      /\ look' = [look EXCEPT ![w] = l] /\ pc' = [pc EXCEPT ![w] = there]
      /\ UNCHANGED <<places, job, done>>
  BY DEF Found, Goto, lists
<1>2. p \in Products
  BY DEF TurnInv, LookShape
<1>3. l = [list |-> l.list, at |-> l.at, hit |-> l.hit] /\ l.list \in Products
      /\ l.at = 0 /\ l.hit = FALSE
  BY <1>2 DEF NoLook, NextProduct, Products
<1>4. \A v \in Threads : pc'[v] = IF v = w THEN there ELSE pc[v]
  BY <1>1, WorkerIsThread DEF Inv, WhereOK
<1>5. there # "new" /\ pc[w] # "new"
  BY DEF InLookup
<1> HIDE DEF l, there
<1>6. \A v \in Workers : look'[v] = IF v = w THEN l ELSE look[v]
  BY <1>1, <1>3, LookMoved DEF TurnInv
<1>7. \A q \in Products : Len(places[q]) \in Nat
  BY DEF RaceInv, ListsRight, RightList
<1>8. Readers'
  <2>1. \A v \in Workers : v # w => pc'[v] = pc[v]
    BY <1>4, WorkerIsThread
  <2>2. l.at \in Int /\ l.at <= Len(places[l.list]) /\ ~(l.at > 0) /\ ~l.hit
    BY <1>3, <1>7
  <2> QED
    BY <1>1, <1>3, <1>6, <2>1, <2>2, ReaderMoves DEF RaceInv
<1>9. \A v \in Workers : pc'[v] = "new" <=> pc[v] = "new"
  BY <1>4, <1>5, WorkerIsThread
<1>10. CASE ~first
  <2>1. num' = num /\ done' = done /\ job' = job
    BY <1>1, <1>10
  <2>2. UNCHANGED <<num, done>> /\ torn \subseteq torn'
        /\ \A v \in Workers : pc[v] # "new" => pc'[v] # "new" /\ job'[v] = job[v]
    BY <1>9, <2>1
  <2>3. Numbers'
    BY <2>2, NumbersKept DEF RaceInv
  <2> QED
    BY <1>8, <2>3
<1>11. CASE first
  <2> DEFINE Right(v, q, m) == pc'[v] # "new" /\ (v \in torn' \/ CanDo(job'[v], q, m))
  <2>1. num' = [num EXCEPT ![w] = [num[w] EXCEPT ![p] = n]]
    BY <1>1, <1>11
  <2>2. \A v \in Workers : num'[v] = IF v = w THEN [num[w] EXCEPT ![p] = n] ELSE num[v]
    BY <2>1 DEF TurnInv, Turn
  <2>3. ASSUME NEW v \in Workers, NEW q, NEW m, RightOrTorn(v, q, m)
        PROVE  Right(v, q, m)
    BY <1>1, <1>9, <2>3 DEF RightOrTorn
  <2>9. w \in torn' => Right(w, p, n)
    BY <1>5, <1>9
  <2> HIDE DEF Right
  <2>4. n # 0 => Right(w, p, n)
    BY <1>11, <2>3, <2>9
  <2>5. ASSUME NEW v \in Workers
        PROVE  /\ num'[v] = [q \in Products |-> num'[v][q]]
               /\ \A q \in Products : num'[v][q] # 0 => Right(v, q, num'[v][q])
    <3>1. num[v] = [q \in Products |-> num[v][q]]
      BY DEF RaceInv, Numbers
    <3>2. CASE v # w
      <4>1. num'[v] = num[v]
        BY <2>2, <3>2
      <4> QED
        BY <2>3, <4>1 DEF RaceInv, Numbers
    <3>3. CASE v = w
      <4>1. num'[v] = [q \in Products |-> IF q = p THEN n ELSE num[v][q]]
        BY <2>2, <3>1, <3>3
      <4>2. ASSUME NEW q \in Products, num'[v][q] # 0
            PROVE  Right(v, q, num'[v][q])
        <5>1. CASE q = p
          <6>1. num'[v][q] = n
            BY <4>1, <5>1
          <6> QED
            BY <2>4, <3>3, <4>2, <5>1, <6>1
        <5>2. CASE q # p
          <6>1. num'[v][q] = num[v][q]
            BY <4>1, <5>2
          <6>2. RightOrTorn(v, q, num[v][q])
            BY <4>2, <6>1 DEF RaceInv, Numbers
          <6> QED
            BY <2>3, <6>1, <6>2
        <5> QED
          BY <5>1, <5>2
      <4>3. num'[v] = [q \in Products |-> num'[v][q]]
        BY <4>1
      <4> QED
        BY <4>2, <4>3
    <3> QED
      BY <3>2, <3>3
  <2>6. \A q \in Products : \A k \in 1 .. Len(done[q]) :
           Right(done[q][k][2], q, done[q][k][1])
    <3>1. \A v : pc[v] # "new" /\ v \in Workers => pc'[v] # "new"
      BY <1>9
    <3>2. \A q \in Products : \A k \in 1 .. Len(done[q]) : done[q][k][2] \in Workers
      <4> SUFFICES ASSUME NEW q \in Products, NEW k \in 1 .. Len(done[q])
                   PROVE  done[q][k][2] \in Workers
        OBVIOUS
      <4>1. done[q] \in Seq(Nat \X Workers)
        BY DEF TurnInv, Counted
      <4>2. done[q][k] \in Nat \X Workers
        BY <4>1
      <4> QED
        BY <4>2
    <3> QED
      BY <2>3, <3>2 DEF RaceInv, Numbers
  <2>7. \A q \in Products : \A k \in 1 .. Len(done'[q]) :
           Right(done'[q][k][2], q, done'[q][k][1])
    BY <1>1, <2>6
  <2>8. Numbers'
    BY <2>5, <2>7 DEF Numbers, RightOrTorn, Right
  <2> QED
    BY <1>8, <2>8
<1> QED
  BY <1>8, <1>10, <1>11

\* A step of a worker leaves the lists and the commands alone.
LEMMA WorkerListsKept ==
    ASSUME Inv, RaceInv, NEW w \in Workers, NEW x, pc' = [pc EXCEPT ![w] = x],
           x # "new", pc[w] # "new",
           UNCHANGED <<places, sort, changes, arg, cmd, toRead>>
    PROVE  /\ ListsRight' /\ Sorting' /\ Starts'
           /\ \A v \in Workers : v # w => pc'[v] = pc[v]
           /\ \A v \in Workers : pc[v] = "new" <=> pc'[v] = "new"
<1>1. \A v \in Threads : pc'[v] = IF v = w THEN x ELSE pc[v]
  BY WorkerIsThread DEF Inv, WhereOK
<1>2. MainAsBefore
  BY <1>1, MainIsThread DEF MainAsBefore
<1>3. StartsNone
  BY <1>1, WorkerIsThread DEF StartsNone
<1> QED
  BY <1>1, <1>2, <1>3, ListsKept, WorkerIsThread DEF RaceInv, StartsNone

LEMMA FoundKeeps ==
    ASSUME Inv, TurnInv, RaceInv, NEW w \in Workers, NEW n, InLookup(w), Found(w, n),
           torn \subseteq torn',
           pc[w] = "startup" /\ n # 0 => w \in torn' \/ RightOrTorn(w, look[w].list, n)
    PROVE  RaceInv'
<1> DEFINE there == IF pc[w] = "startup"
                    THEN IF look[w].list = "C" THEN "lock" ELSE "startup"
                    ELSE IF n # 0 /\ curr[look[w].list] = num[w][look[w].list]
                         THEN "working" ELSE "unlock"
<1>1. /\ pc' = [pc EXCEPT ![w] = there]
      /\ UNCHANGED <<places, sort, changes, arg, cmd, toRead>>
  BY DEF Found, Goto, lists, input
<1>2. there # "new" /\ pc[w] # "new"
  BY DEF InLookup
<1> HIDE DEF there
<1>3. ListsRight' /\ Sorting' /\ Starts'
  BY <1>1, <1>2, WorkerListsKept
<1> QED
  BY <1>1, <1>3, FoundRace DEF RaceInv

\* A reader goes on to another node, or has found its place at this one.
LEMMA LooksOn ==
    ASSUME Inv, TurnInv, RaceInv, NEW w \in Workers, InLookup(w),
           NEW i \in Int, NEW h, i > 0, i <= Len(places[look[w].list]),
           \A v \in Workers : look'[v] = IF v = w
                                         THEN [list |-> look[w].list, at |-> i, hit |-> h]
                                         ELSE look[v],
           pc[w] = "startup" /\ h =>
              w \in torn' \/ places[look[w].list][i].work = job[w],
           torn \subseteq torn', UNCHANGED <<lists, work, input, pc, done>>
    PROVE  RaceInv'
<1>1. /\ UNCHANGED <<places, sort, changes, arg, cmd, toRead, job, num, done>>
      /\ pc' = pc
  BY DEF lists, work, input
<1>2. ListsRight' /\ Sorting' /\ Starts'
  BY <1>1, ListsKept DEF RaceInv, StartsNone, MainAsBefore
<1>3. Readers'
  <2> PICK l : l = [list |-> look[w].list, at |-> i, hit |-> h]
    OBVIOUS
  <2>1. l.list = look[w].list /\ l.at = i /\ l.hit = h
    OBVIOUS
  <2>2. InLookup(w)' /\ l.at \in Int /\ l.at <= Len(places[l.list]) /\ l.at # 0
    BY <1>1, <2>1 DEF InLookup
  <2>3. pc'[w] = "startup" /\ l.at > 0 /\ l.hit =>
              w \in torn' \/ places[l.list][l.at].work = job[w]
    BY <1>1, <2>1
  <2>4. \A v \in Workers : look'[v] = IF v = w THEN l ELSE look[v]
    OBVIOUS
  <2>5. UNCHANGED <<places, job>> /\ \A v \in Workers : v # w => pc'[v] = pc[v]
    BY <1>1
  <2> HIDE DEF InLookup
  <2> QED
    BY <2>2, <2>3, <2>4, <2>5, ReaderMoves DEF RaceInv
<1>4. Numbers'
  <2>1. UNCHANGED <<num, done>>
        /\ \A v \in Workers : pc[v] # "new" => pc'[v] # "new" /\ job'[v] = job[v]
    BY <1>1
  <2> QED
    BY <2>1, NumbersKept DEF RaceInv
<1> QED
  BY <1>2, <1>3, <1>4 DEF RaceInv

LEMMA CrashRace ==
    ASSUME Inv, TurnInv, RaceInv, Crash
    PROVE  RaceInv'
<1>1. UNCHANGED <<places, sort, changes, arg, cmd, toRead, job, num, done, pc, look, torn>>
  BY DEF Crash, lists, work, input
<1>2. ListsRight' /\ Sorting' /\ Starts'
  BY <1>1, ListsKept DEF RaceInv, StartsNone, MainAsBefore
<1>3. Readers' /\ Numbers'
  BY <1>1 DEF RaceInv, Readers, Numbers, RightOrTorn, InLookup
<1> QED
  BY <1>2, <1>3 DEF RaceInv

LEMMA LookupRace ==
    ASSUME Inv, TurnInv, RaceInv, NEW w \in Workers, Lookup(w)
    PROVE  RaceInv'
<1> PICK p : p = look[w].list
  OBVIOUS
<1>1. /\ p \in Products /\ look[w] = [list |-> p, at |-> look[w].at, hit |-> look[w].hit]
      /\ look = [v \in Workers |-> look[v]]
  BY DEF TurnInv, LookShape
<1>2. /\ look[w].at \in Int /\ look[w].at <= Len(places[p])
      /\ look[w].at = 0 => ~look[w].hit
  BY DEF RaceInv, Readers
<1>3. RightList(p, places[p]) /\ Len(places[p]) \in Nat
  BY <1>1 DEF RaceInv, ListsRight, RightList
<1>4. CASE FindStart(w)
  <2>1. InLookup(w) /\ look[w].at = 0
    BY <1>4 DEF FindStart
  <2>2. CASE places[p] = <<>>
    <3>1. Found(w, 0) /\ torn' = torn
      BY <1>4, <2>2 DEF FindStart
    <3> QED
      BY <2>1, <3>1, FoundKeeps
  <2>3. CASE places[p] # <<>>
    <3> PICK i : i = Len(places[p])
      OBVIOUS
    <3>1. look' = [look EXCEPT ![w].at = i]
      BY <1>4, <2>3 DEF FindStart
    <3>2. torn \subseteq torn' /\ UNCHANGED <<lists, work, input, pc, done>>
      BY <1>4, <2>3 DEF FindStart
    <3>3. i \in Int /\ i > 0 /\ i <= Len(places[p])
      BY <1>3, <2>3 DEF RightList
    <3> PICK h : h = look[w].hit
      OBVIOUS
    <3>4. \A v \in Workers : look'[v] = IF v = w THEN [list |-> p, at |-> i, hit |-> h]
                                                  ELSE look[v]
      BY <1>1, <3>1
    <3>5. ~h
      BY <1>2, <2>1
    <3> QED
      BY <2>1, <3>2, <3>3, <3>4, <3>5, LooksOn
  <2> QED
    BY <2>2, <2>3
<1>5. CASE FindNode(w)
  <2>1. InLookup(w) /\ look[w].at > 0 /\ ~look[w].hit
    BY <1>5 DEF FindNode
  <2>2. CASE places[p][look[w].at].work = job[w]
    <3>4. PICK h : h = TRUE
      OBVIOUS
    <3>1. look' = [look EXCEPT ![w].hit = h] /\ torn \subseteq torn'
          /\ UNCHANGED <<lists, work, input, pc, done>>
      BY <1>5, <2>2, <3>4 DEF FindNode
    <3> PICK i : i = look[w].at
      OBVIOUS
    <3>2. \A v \in Workers : look'[v] = IF v = w THEN [list |-> p, at |-> i, hit |-> h]
                                                  ELSE look[v]
      BY <1>1, <3>1
    <3>3. i \in Int /\ i > 0 /\ i <= Len(places[p]) /\ places[p][i].work = job[w]
      BY <1>2, <2>1, <2>2
    <3> QED
      BY <2>1, <3>1, <3>2, <3>3, LooksOn
  <2>3. CASE places[p][look[w].at].work # job[w] /\ look[w].at > 1
    <3>1. look' = [look EXCEPT ![w].at = look[w].at - 1] /\ torn \subseteq torn'
          /\ UNCHANGED <<lists, work, input, pc, done>>
      BY <1>5, <2>3 DEF FindNode
    <3> PICK i : i = look[w].at - 1
      OBVIOUS
    <3> PICK h : h = look[w].hit
      OBVIOUS
    <3>2. \A v \in Workers : look'[v] = IF v = w THEN [list |-> p, at |-> i, hit |-> h]
                                                  ELSE look[v]
      BY <1>1, <3>1
    <3>3. i \in Int /\ i > 0 /\ i <= Len(places[p]) /\ ~h
      BY <1>2, <1>3, <2>1, <2>3
    <3> QED
      BY <2>1, <3>1, <3>2, <3>3, LooksOn
  <2>4. CASE places[p][look[w].at].work # job[w] /\ ~(look[w].at > 1)
    <3>1. Found(w, 0) /\ torn' = torn
      BY <1>5, <2>4 DEF FindNode
    <3> QED
      BY <2>1, <3>1, FoundKeeps
  <2> QED
    BY <2>2, <2>3, <2>4
<1>6. CASE FindPriority(w)
  <2> PICK i : i = look[w].at
    OBVIOUS
  <2> PICK n : n = places[p][i].priority
    OBVIOUS
  <2>1. InLookup(w) /\ i > 0 /\ look[w].hit /\ Found(w, n) /\ torn' = torn
    BY <1>6 DEF FindPriority
  <2>2. ASSUME pc[w] = "startup" PROVE RightOrTorn(w, p, n)
    <3>1. w \in torn \/ places[p][i].work = job[w]
      BY <2>1, <2>2 DEF RaceInv, Readers
    <3>2. i \in 1 .. Len(places[p])
      BY <1>2, <1>3, <2>1
    <3>3. CanDo(places[p][i].work, p, n)
      BY <1>3, <3>2 DEF RightList, RightNode
    <3> QED
      BY <2>2, <3>1, <3>3 DEF RightOrTorn
  <2> QED
    BY <2>1, <2>2, FoundKeeps
<1>7. CASE FindFreed(w)
  <2>1. ASSUME NEW n, Found(w, n),
               torn' = IF pc[w] = "startup" THEN torn \cup {w} ELSE torn
        PROVE  RaceInv'
    <3>1. torn \subseteq torn' /\ (pc[w] = "startup" => w \in torn')
      BY <2>1
    <3> QED
      BY <1>7, <2>1, <3>1, FoundKeeps DEF FindFreed
  <2> QED
    BY <1>7, <2>1, CrashRace DEF FindFreed
<1> QED
  BY <1>4, <1>5, <1>6, <1>7 DEF Lookup

\* A worker moves between places where it is in no lookup.
LEMMA OutsideLookup ==
    ASSUME Inv, TurnInv, RaceInv, NEW w \in Workers, NEW x, pc' = [pc EXCEPT ![w] = x],
           x # "new", pc[w] # "new", ~InLookup(w), x \notin {"startup", "checking"},
           UNCHANGED <<lists, job, num, input, look, torn>>
    PROVE  ListsRight' /\ Sorting' /\ Starts' /\ Readers' /\ (UNCHANGED done => Numbers')
<1>1. UNCHANGED <<places, sort, changes, arg, cmd, toRead, job>>
  BY DEF lists, input
<1>2. /\ ListsRight' /\ Sorting' /\ Starts'
      /\ \A v \in Workers : v # w => pc'[v] = pc[v]
      /\ \A v \in Workers : pc[v] = "new" <=> pc'[v] = "new"
  BY <1>1, WorkerListsKept
<1>3. pc'[w] = x
  BY WorkerIsThread DEF Inv, WhereOK
<1>4. Readers'
  <2>1. \A v \in Workers : (InLookup(v)' <=> InLookup(v))
                           /\ (pc'[v] = "startup" <=> pc[v] = "startup")
    BY <1>2, <1>3 DEF InLookup
  <2> QED
    BY <1>1, <2>1 DEF RaceInv, Readers
<1>5. ASSUME UNCHANGED done PROVE Numbers'
  <2>1. UNCHANGED <<num, done>> /\ torn \subseteq torn'
        /\ \A v \in Workers : pc[v] # "new" => pc'[v] # "new" /\ job'[v] = job[v]
    BY <1>1, <1>2, <1>5
  <2> QED
    BY <2>1, NumbersKept DEF RaceInv
<1> QED
  BY <1>2, <1>4, <1>5

LEMMA ChooseRace ==
    ASSUME Inv, TurnInv, RaceInv, NEW w \in Workers, Choose(w)
    PROVE  RaceInv'
<1>1. PICK p \in ChosenProducts :
         IF num[w][p] # 0
         THEN /\ look' = [look EXCEPT ![w] = [NoLook EXCEPT !.list = p]]
              /\ Goto(w, "checking")
         ELSE Goto(w, "unlock") /\ UNCHANGED look
  BY DEF Choose
<1>2. /\ pc[w] = "locked" /\ p \in Products
      /\ UNCHANGED <<lists, work, input, done, torn>>
  BY DEF Choose, ChosenProducts
<1>3. UNCHANGED <<places, sort, changes, arg, cmd, toRead, job, num>>
  BY <1>2 DEF lists, work, input
<1>4. CASE pc' = [pc EXCEPT ![w] = "unlock"] /\ look' = look
  <2>1. UNCHANGED <<lists, job, num, input, look, torn>> /\ UNCHANGED done
    BY <1>2, <1>3, <1>4
  <2>2. ~InLookup(w) /\ pc[w] # "new"
    BY <1>2 DEF InLookup
  <2>3. ListsRight' /\ Sorting' /\ Starts' /\ Readers' /\ (UNCHANGED done => Numbers')
    <3>1. PICK x : x = "unlock"
      OBVIOUS
    <3>2. pc' = [pc EXCEPT ![w] = x] /\ x # "new" /\ x \notin {"startup", "checking"}
      BY <1>4, <3>1
    <3> QED
      BY <2>1, <2>2, <3>2, OutsideLookup
  <2> QED
    BY <2>1, <2>3 DEF RaceInv
<1>5. CASE pc' = [pc EXCEPT ![w] = "checking"]
           /\ look' = [look EXCEPT ![w] = [NoLook EXCEPT !.list = p]]
  <2>1. PICK l : l = [NoLook EXCEPT !.list = p]
    OBVIOUS
  <2>2. l.list = p /\ l.at = 0 /\ l.hit = FALSE
        /\ l = [list |-> l.list, at |-> l.at, hit |-> l.hit]
    BY <2>1 DEF NoLook
  <2>3. \A v \in Workers : look'[v] = IF v = w THEN l ELSE look[v]
    <3>1. look' = [look EXCEPT ![w] = l]
      BY <1>5, <2>1
    <3> QED
      BY <1>2, <2>2, <3>1, LookMoved DEF TurnInv
  <2>4. /\ ListsRight' /\ Sorting' /\ Starts'
        /\ \A v \in Workers : v # w => pc'[v] = pc[v]
        /\ \A v \in Workers : pc[v] = "new" <=> pc'[v] = "new"
    BY <1>2, <1>3, <1>5, WorkerListsKept
  <2>5. Readers'
    <3>1. l.at \in Int /\ l.at <= Len(places[l.list]) /\ ~l.hit /\ ~(l.at > 0)
      BY <1>2, <2>2 DEF RaceInv, ListsRight, RightList
    <3> QED
      BY <1>2, <1>3, <2>2, <2>3, <2>4, <3>1, ReaderMoves DEF RaceInv
  <2>6. Numbers'
    <3>1. UNCHANGED <<num, done>> /\ torn \subseteq torn'
          /\ \A v \in Workers : pc[v] # "new" => pc'[v] # "new" /\ job'[v] = job[v]
      BY <1>2, <1>3, <2>4
    <3> QED
      BY <3>1, NumbersKept DEF RaceInv
  <2> QED
    BY <2>4, <2>5, <2>6 DEF RaceInv
<1> QED
  BY <1>1, <1>4, <1>5 DEF Goto

\* The phase that is done is one of the worker's numbers.
LEMMA PhaseRace ==
    ASSUME Inv, TurnInv, RaceInv, NEW w \in Workers, find_time(w)
    PROVE  RaceInv'
<1> PICK p : p = look[w].list
  OBVIOUS
<1>1. /\ pc[w] = "working" /\ pc' = [pc EXCEPT ![w] = "unlock"]
      /\ UNCHANGED <<lists, job, num, input, look, torn>>
  BY DEF find_time, Goto
<1>2. ListsRight' /\ Sorting' /\ Starts' /\ Readers'
  <2>1. ~InLookup(w) /\ pc[w] # "new"
    BY <1>1 DEF InLookup
  <2>2. PICK x : x = "unlock"
    OBVIOUS
  <2>3. pc' = [pc EXCEPT ![w] = x] /\ x # "new" /\ x \notin {"startup", "checking"}
    BY <1>1, <2>2
  <2> QED
    BY <1>1, <2>1, <2>3, OutsideLookup
<1> PICK n : n = num[w][p]
  OBVIOUS
<1>3. p = "A" /\ n # 0
  BY <1>1 DEF TurnInv, OnlyA, Turn, Counted, Products
<1>4. done' = [done EXCEPT ![p] = Append(done[p], <<n, w>>)]
  BY DEF find_time, NextPhase
<1>5. \A v \in Workers : pc[v] # "new" => pc'[v] # "new"
  BY <1>1, WorkerIsThread DEF Inv, WhereOK
<1> DEFINE Right(v, q, m) == pc'[v] # "new" /\ (v \in torn' \/ CanDo(job'[v], q, m))
<1>6. ASSUME NEW v \in Workers, NEW q, NEW m, RightOrTorn(v, q, m)
      PROVE  Right(v, q, m)
  BY <1>1, <1>5, <1>6 DEF RightOrTorn
<1> HIDE DEF Right
<1>7. \A v \in Workers :
          /\ num'[v] = [q \in Products |-> num'[v][q]]
          /\ \A q \in Products : num'[v][q] # 0 => Right(v, q, num'[v][q])
  BY <1>1, <1>6 DEF RaceInv, Numbers
<1>8. ASSUME NEW q \in Products, NEW k \in 1 .. Len(done'[q])
      PROVE  Right(done'[q][k][2], q, done'[q][k][1])
  <2>1. done[q] \in Seq(Nat \X Workers)
    BY DEF TurnInv, Counted
  <2> PICK s : s = done[q]
    OBVIOUS
  <2>2. \A j \in 1 .. Len(s) : s[j] \in Nat \X Workers
    BY <2>1
  <2>3. \A j \in 1 .. Len(s) : Right(s[j][2], q, s[j][1])
    <3> SUFFICES ASSUME NEW j \in 1 .. Len(s) PROVE Right(s[j][2], q, s[j][1])
      OBVIOUS
    <3>1. s[j][2] \in Workers /\ RightOrTorn(s[j][2], q, s[j][1])
      BY <2>2 DEF RaceInv, Numbers
    <3> QED
      BY <1>6, <3>1
  <2>4. CASE q # p
    <3>1. done'[q] = s
      BY <1>4, <2>4 DEF TurnInv, Counted
    <3> QED
      BY <2>3, <3>1
  <2>5. CASE q = p
    <3>1. done'[q] = Append(s, <<n, w>>)
      BY <1>4, <2>5 DEF TurnInv, Counted
    <3>2. /\ Len(Append(s, <<n, w>>)) = Len(s) + 1 /\ Len(s) \in Nat
          /\ \A j \in 1 .. Len(s) + 1 :
                Append(s, <<n, w>>)[j] = IF j = Len(s) + 1 THEN <<n, w>> ELSE s[j]
      BY <2>1
    <3>3. Right(w, p, n)
      BY <1>3, <1>6, <2>5 DEF RaceInv, Numbers
    <3>4. CASE k = Len(s) + 1
      <4>1. done'[q][k] = <<n, w>>
        BY <3>1, <3>2, <3>4
      <4> QED
        BY <2>5, <3>3, <4>1
    <3>5. CASE k # Len(s) + 1
      <4>1. k \in 1 .. Len(s) /\ done'[q][k] = s[k]
        BY <3>1, <3>2, <3>5
      <4> QED
        BY <2>3, <4>1
    <3> QED
      BY <3>4, <3>5
  <2> QED
    BY <2>4, <2>5
<1>9. Numbers'
  BY <1>7, <1>8 DEF Numbers, RightOrTorn, Right
<1> QED
  BY <1>2, <1>9 DEF RaceInv

LEMMA RoutineRace ==
    ASSUME Inv, TurnInv, RaceInv, NEW w \in Workers, Routine(w)
    PROVE  RaceInv'
<1>1. CASE Idle(w) \/ Unlock(w)
  <2>1. PICK x \in {"again", "lock"} : pc' = [pc EXCEPT ![w] = x]
    BY <1>1 DEF Idle, Unlock, Release, Goto
  <2>2. pc[w] \in {"locked", "unlock"} /\ UNCHANGED <<lists, work, input, look, done, torn>>
    BY <1>1 DEF Idle, Unlock
  <2>3. UNCHANGED <<lists, job, num, input, look, torn>> /\ UNCHANGED done
    BY <2>2 DEF work
  <2>4. ~InLookup(w) /\ pc[w] # "new"
    BY <2>2 DEF InLookup
  <2>5. ListsRight' /\ Sorting' /\ Starts' /\ Readers' /\ (UNCHANGED done => Numbers')
    BY <2>1, <2>3, <2>4, OutsideLookup
  <2> QED
    BY <2>3, <2>5 DEF RaceInv
<1> QED
  BY <1>1, LookupRace, ChooseRace, PhaseRace DEF Routine

LEMMA AcquireRace ==
    ASSUME Inv, TurnInv, RaceInv, NEW t \in Threads, Acquire(t)
    PROVE  RaceInv'
<1> PICK x : x = Entry[pc[t]]
  OBVIOUS
<1>1. /\ pc[t] \in DOMAIN Entry /\ pc' = [pc EXCEPT ![t] = x]
      /\ UNCHANGED <<lists, work, input, look, done, torn>>
  BY DEF Acquire, Goto
<1>2. pc[t] \in {"lock", "start", "make", "end", "add", "remove", "again"}
      /\ x \notin {"new", "startup", "checking"}
  BY <1>1 DEF Entry
<1>3. UNCHANGED <<lists, job, num, input, look, torn>> /\ UNCHANGED done
  BY <1>1 DEF work
<1>4. CASE t \in Workers
  <2>1. ListsRight' /\ Sorting' /\ Starts' /\ Readers' /\ (UNCHANGED done => Numbers')
    BY <1>1, <1>2, <1>3, <1>4, OutsideLookup DEF InLookup
  <2> QED
    BY <1>3, <2>1 DEF RaceInv
<1>5. CASE t = Main
  <2>1. \A w \in Workers : pc'[w] = pc[w]
    BY <1>1, <1>5, WorkerIsThread DEF Inv, WhereOK
  <2>2. MainAsBefore
    BY <1>1, <1>5, MainIsThread DEF Inv, WhereOK, MainAsBefore
  <2>3. UNCHANGED <<places, sort, changes, arg, cmd, toRead, job, num>>
    BY <1>3 DEF lists, input
  <2>4. ListsRight' /\ Sorting' /\ Starts'
    BY <2>1, <2>2, <2>3, ListsKept DEF RaceInv, StartsNone
  <2>5. Readers'
    BY <1>3, <2>1, <2>3 DEF RaceInv, Readers, InLookup
  <2>6. Numbers'
    <3>1. UNCHANGED <<num, done>> /\ torn \subseteq torn'
          /\ \A v \in Workers : pc[v] # "new" => pc'[v] # "new" /\ job'[v] = job[v]
      BY <1>3, <2>1
    <3> QED
      BY <3>1, NumbersKept DEF RaceInv
  <2> QED
    BY <2>4, <2>5, <2>6 DEF RaceInv
<1> QED
  BY <1>4, <1>5 DEF Threads
-----------------------------------------------------------------------------
(* The steps of main. *)

LEMMA MainMoves ==
    ASSUME Inv, NEW x, pc' = [pc EXCEPT ![Main] = x]
    PROVE  pc'[Main] = x /\ \A w \in Workers : pc'[w] = pc[w]
  BY MainIsThread, WorkerIsThread DEF Inv, WhereOK

\* A step of main that only lets the lists grow, or meets every first lookup
\* of the list it swaps nodes of.
LEMMA ReadersStay ==
    ASSUME TurnInv, RaceInv, ListsRight', UNCHANGED <<look, job>>, torn \subseteq torn',
           \A w \in Workers : pc'[w] = pc[w],
           \A p \in Products : Len(places[p]) <= Len(places'[p]),
           \A w \in Workers :
              pc[w] = "startup" /\ look[w].at > 0 /\ look[w].hit =>
                 \/ w \in torn'
                 \/ places'[look[w].list][look[w].at] = places[look[w].list][look[w].at]
    PROVE  Readers'
<1>1. \A p \in Products : Len(places[p]) \in Nat /\ Len(places'[p]) \in Nat
  BY DEF RaceInv, ListsRight, RightList
<1> SUFFICES ASSUME NEW w \in Workers
             PROVE  /\ look[w].at \in Int
                    /\ look[w].at <= Len(places'[look[w].list])
                    /\ look[w].at = 0 => ~look[w].hit
                    /\ ~InLookup(w)' => look[w].at = 0
                    /\ pc'[w] = "startup" /\ look[w].at > 0 /\ look[w].hit =>
                          \/ w \in torn'
                          \/ places'[look[w].list][look[w].at].work = job[w]
  BY DEF Readers, RaceInv
<1>2. look[w].list \in Products
  BY DEF TurnInv, LookShape
<1>3. /\ look[w].at \in Int /\ look[w].at <= Len(places[look[w].list])
      /\ look[w].at = 0 => ~look[w].hit
      /\ ~InLookup(w) => look[w].at = 0
      /\ pc[w] = "startup" /\ look[w].at > 0 /\ look[w].hit =>
            w \in torn \/ places[look[w].list][look[w].at].work = job[w]
  BY DEF RaceInv, Readers
<1>4. look[w].at <= Len(places'[look[w].list])
  BY <1>1, <1>2, <1>3
<1>5. InLookup(w)' <=> InLookup(w)
  BY DEF InLookup
<1>6. pc'[w] = "startup" /\ look[w].at > 0 /\ look[w].hit =>
         w \in torn' \/ places'[look[w].list][look[w].at].work = job[w]
  BY <1>3
<1> QED
  BY <1>3, <1>4, <1>5, <1>6

LEMMA MainNumbers ==
    ASSUME TurnInv, RaceInv, UNCHANGED <<num, done, job>>, torn \subseteq torn',
           \A w \in Workers : pc'[w] = pc[w]
    PROVE  Numbers' /\ StartsNone
<1>1. UNCHANGED <<num, done>>
      /\ \A w \in Workers : pc[w] # "new" => pc'[w] # "new" /\ job'[w] = job[w]
  OBVIOUS
<1> QED
  BY <1>1, NumbersKept DEF RaceInv, StartsNone

\* main moves away from the lists.
LEMMA MovesAway ==
    ASSUME Inv, TurnInv, RaceInv, NEW x \in {"read", "again", "exited"},
           pc' = [pc EXCEPT ![Main] = x], pc[Main] # "sorting",
           UNCHANGED <<places, sort, cmd, toRead, job, num, done, look, torn>>,
           changes' \in Seq(Products \X (Nat \ {0}))
    PROVE  RaceInv'
<1>1. pc'[Main] = x /\ \A w \in Workers : pc'[w] = pc[w]
  BY MainMoves
<1>2. ListsRight'
  BY <1>1 DEF RaceInv, ListsRight
<1>3. Sorting'
  BY <1>1 DEF RaceInv, Sorting
<1>4. Numbers' /\ StartsNone
  BY <1>1, MainNumbers
<1>5. Starts'
  BY <1>1, <1>4, StartsKept DEF RaceInv
<1>6. Readers'
  <2>1. \A p \in Products : Len(places[p]) <= Len(places'[p])
    BY DEF RaceInv, ListsRight, RightList
  <2> QED
    BY <1>1, <1>2, <2>1, ReadersStay
<1> QED
  BY <1>2, <1>3, <1>4, <1>5, <1>6 DEF RaceInv

LEMMA SomeAwayRace ==
    ASSUME Inv, TurnInv, RaceInv, Make \/ End \/ EndRemove \/ Join
    PROVE  RaceInv'
<1>1. \E x \in {"read", "again", "exited"} : pc' = [pc EXCEPT ![Main] = x]
  BY DEF Make, End, EndRemove, Join, Release, Goto
<1>2. pc[Main] # "sorting"
  BY DEF Make, End, EndRemove, Join
<1>3. UNCHANGED <<lists, job, num, done, input, look, torn>>
  BY DEF Make, End, EndRemove, Join, work
<1>4. UNCHANGED <<places, sort, cmd, toRead, job, num, done, look, torn>>
      /\ changes' \in Seq(Products \X (Nat \ {0}))
  BY <1>3 DEF lists, input, RaceInv, ListsRight
<1> QED
  BY <1>1, <1>2, <1>4, MovesAway

LEMMA ReadRace ==
    ASSUME Inv, TurnInv, RaceInv, Read
    PROVE  RaceInv'
<1> PICK c : c = Head(toRead)
  OBVIOUS
<1> PICK x : x = Handler(c)
  OBVIOUS
<1>12. CASE ReadsNullArg(c)
  BY <1>12, CrashRace DEF Read
<1> SUFFICES ASSUME ~ReadsNullArg(c) PROVE RaceInv'
  BY <1>12
<1>1. /\ pc[Main] = "read" /\ toRead # <<>> /\ cmd' = c /\ toRead' = Tail(toRead)
      /\ pc' = [pc EXCEPT ![Main] = x]
      /\ arg' = IF Branch(c) = None THEN arg ELSE Branch(c)
      /\ changes' = Changes(c)
      /\ UNCHANGED <<places, sort, work, look, done, torn>>
  BY DEF Read, Goto
<1>2. UNCHANGED <<places, sort, job, num>>
  BY <1>1 DEF work
<1>3. pc'[Main] = x /\ \A w \in Workers : pc'[w] = pc[w]
  BY <1>1, MainMoves
<1>4. toRead \in Seq(Commands) /\ c \in Commands /\ c = toRead[1]
  BY <1>1 DEF Inv, WhereOK
<1>5. x = c[1] \/ x = "read"
  BY DEF Handler
<1>6. c[1] \in {"add", "remove", "make", "start", "end"}
  BY <1>4, CommandNames
<1>7. ListsRight'
  <2>1. c[1] \in {"add", "remove"} => c[2] \in PlaceNames
    BY <1>4 DEF Commands
  <2>2. Branch(c) = None \/ Branch(c) \in PlaceNames
    BY <2>1 DEF Branch, Removed, PlaceNames
  <2>3. changes' \in Seq(Products \X (Nat \ {0}))
    <3>1. CASE Branch(c) = None
      <4>1. changes' = <<>>
        BY <1>1, <3>1 DEF Changes
      <4> QED
        BY <4>1
    <3>2. CASE Branch(c) # None
      <4> PICK y \in PlaceNames : y = Branch(c)
        BY <2>2, <3>2
      <4>1. changes' = Insertions(y) \/ changes' = Positions(y)
        BY <1>1, <3>2 DEF Changes
      <4>2. changes' \in Seq(Doable(y))
        BY <4>1, PositionsType
      <4>3. Doable(y) \subseteq Products \X (Nat \ {0})
        BY DEF Doable
      <4> QED
        BY <4>2, <4>3
    <3> QED
      BY <3>1, <3>2
  <2>4. x \in {"add", "adding"} => arg' \in PlaceNames /\ changes' \in Seq(Doable(arg'))
    <3> SUFFICES ASSUME c[1] = "add"
                 PROVE  arg' \in PlaceNames /\ changes' \in Seq(Doable(arg'))
      BY <1>5, <1>6
    <3>1. Branch(c) = c[2] /\ c[2] \in PlaceNames /\ c[2] # None
      BY <2>1 DEF Branch, PlaceNames, None
    <3>2. arg' = c[2] /\ changes' = Insertions(c[2])
      BY <1>1, <3>1 DEF Changes
    <3> QED
      BY <3>1, <3>2, PositionsType
  <2> QED
    BY <1>2, <1>3, <2>3, <2>4 DEF RaceInv, ListsRight
<1>8. Sorting'
  <2>1. x # "sorting"
    BY <1>5, <1>6
  <2> QED
    BY <1>1, <1>2, <1>3, <2>1 DEF RaceInv, Sorting
<1>9. Numbers'
  BY <1>1, <1>2, <1>3, MainNumbers
<1>10. Readers'
  <2>1. \A p \in Products : Len(places[p]) <= Len(places'[p])
    BY <1>2 DEF RaceInv, ListsRight, RightList
  <2> QED
    BY <1>1, <1>2, <1>3, <1>7, <2>1, ReadersStay
<1>11. Starts'
  <2>1. /\ Len(toRead) \in Nat /\ Len(toRead) >= 1
        /\ Len(Tail(toRead)) = Len(toRead) - 1
        /\ \A i \in 1 .. Len(toRead) - 1 : Tail(toRead)[i] = toRead[i + 1]
    BY <1>1, <1>4
  <2>2. \A i \in 1 .. Len(toRead') : i + 1 \in 1 .. Len(toRead) /\ toRead'[i] = toRead[i + 1]
    BY <1>1, <2>1
  <2>3. ASSUME NEW i \in 1 .. Len(toRead), NEW j \in 1 .. Len(toRead),
               toRead[i][1] = "start", toRead[j][1] = "start",
               toRead[i][2][1] = toRead[j][2][1]
        PROVE  i = j
    BY <1>4, <2>3 DEF RaceInv, Starts, StartsOnce
  <2>4. StartsOnce(toRead)'
    <3> SUFFICES ASSUME NEW i \in 1 .. Len(toRead'), NEW j \in 1 .. Len(toRead'),
                        toRead'[i][1] = "start", toRead'[j][1] = "start",
                        toRead'[i][2][1] = toRead'[j][2][1]
                 PROVE  i = j
      <4>1. DOMAIN toRead' = 1 .. Len(toRead')
        BY <1>1, <1>4
      <4> QED
        BY <4>1 DEF StartsOnce
    <3>1. i + 1 = j + 1
      BY <2>2, <2>3
    <3> QED
      BY <3>1, <2>1
  <2>5. ASSUME NEW i \in 1 .. Len(toRead'), toRead'[i][1] = "start"
        PROVE  /\ pc'[toRead'[i][2][1]] = "new"
               /\ x \in {"start", "starting"} => c[2][1] # toRead'[i][2][1]
    <3>1. i + 1 \in 1 .. Len(toRead) /\ toRead'[i] = toRead[i + 1] /\ i + 1 # 1
      BY <2>1, <2>2
    <3>2. toRead[i + 1][2][1] \in Workers
      <4>1. toRead[i + 1] \in Commands
        BY <1>4, <3>1
      <4> QED
        BY <2>5, <3>1, <4>1 DEF Commands
    <3>3. pc[toRead[i + 1][2][1]] = "new"
      BY <2>5, <3>1 DEF RaceInv, Starts
    <3>4. c[1] = "start" => c[2][1] # toRead[i + 1][2][1]
      BY <1>4, <2>1, <2>3, <2>5, <3>1
    <3> QED
      BY <1>3, <1>5, <1>6, <3>1, <3>2, <3>3, <3>4
  <2>6. x \in {"start", "starting"} => c[2][1] \in Workers /\ pc'[c[2][1]] = "new"
    <3> SUFFICES ASSUME x \in {"start", "starting"}
                 PROVE  c[2][1] \in Workers /\ pc'[c[2][1]] = "new"
      OBVIOUS
    <3>1. c[1] = "start"
      BY <1>5, <1>6
    <3>2. c[2][1] \in Workers
      BY <1>4, <3>1 DEF Commands
    <3>3. pc[c[2][1]] = "new"
      BY <1>4, <2>1, <3>1 DEF RaceInv, Starts
    <3> QED
      BY <1>3, <3>2, <3>3
  <2> QED
    BY <1>1, <1>3, <2>4, <2>5, <2>6 DEF Starts
<1> QED
  BY <1>7, <1>8, <1>9, <1>10, <1>11 DEF RaceInv

\* The worker that starts has no number yet and is in no list.
LEMMA StartRace ==
    ASSUME Inv, TurnInv, RaceInv, StartWorker
    PROVE  RaceInv'
<1> PICK v : v = cmd[2][1]
  OBVIOUS
<1> PICK j : j = cmd[2][2]
  OBVIOUS
<1>1. /\ pc[Main] = "starting" /\ pc' = [pc EXCEPT ![Main] = "read", ![v] = "startup"]
      /\ job' = [job EXCEPT ![v] = j]
      /\ UNCHANGED <<lists, num, done, input, look, torn>>
  BY DEF StartWorker
<1>2. v \in Workers /\ pc[v] = "new"
  BY <1>1 DEF RaceInv, Starts
<1>3. pc'[Main] = "read" /\ \A w \in Workers : pc'[w] = IF w = v THEN "startup" ELSE pc[w]
  BY <1>1, <1>2, MainIsThread, WorkerIsThread DEF Inv, WhereOK
<1>4. UNCHANGED <<places, sort, changes, arg, cmd, toRead>>
  BY <1>1 DEF lists, input
<1>5. /\ job' = [w \in Workers |-> job'[w]]
      /\ \A w \in Workers : w # v => job'[w] = job[w]
  BY <1>1 DEF RaceInv, Readers
<1>6. ListsRight' /\ Sorting'
  BY <1>1, <1>3, <1>4 DEF RaceInv, ListsRight, Sorting
<1>7. Starts'
  <2>1. ASSUME NEW i \in 1 .. Len(toRead), toRead[i][1] = "start"
        PROVE  pc'[toRead[i][2][1]] = "new"
    <3>1. pc[toRead[i][2][1]] = "new" /\ toRead[i][2][1] # v
      BY <1>1, <2>1 DEF RaceInv, Starts
    <3>2. toRead[i] \in Commands
      BY DEF Inv, WhereOK
    <3>3. toRead[i][2][1] \in Workers
      BY <2>1, <3>2 DEF Commands
    <3> QED
      BY <1>3, <3>1, <3>3
  <2> QED
    BY <1>3, <1>4, <2>1 DEF RaceInv, Starts
<1>8. Readers'
  <2>1. ASSUME NEW w \in Workers
        PROVE  /\ look[w].at \in Int
               /\ look[w].at <= Len(places[look[w].list])
               /\ look[w].at = 0 => ~look[w].hit
               /\ ~InLookup(w)' => look[w].at = 0
               /\ pc'[w] = "startup" /\ look[w].at > 0 /\ look[w].hit =>
                     w \in torn \/ places[look[w].list][look[w].at].work = job'[w]
    <3>1. CASE w = v
      <4>1. look[w].at = 0
        BY <1>2, <3>1 DEF RaceInv, Readers, InLookup
      <4> QED
        BY <4>1 DEF RaceInv, Readers
    <3>2. CASE w # v
      BY <1>3, <1>5, <3>2 DEF RaceInv, Readers, InLookup
    <3> QED
      BY <3>1, <3>2
  <2> QED
    BY <1>1, <1>4, <1>5, <2>1 DEF Readers
<1>9. Numbers'
  <2>1. UNCHANGED <<num, done>> /\ torn \subseteq torn'
        /\ \A w \in Workers : pc[w] # "new" => pc'[w] # "new" /\ job'[w] = job[w]
    BY <1>1, <1>2, <1>3, <1>5
  <2> QED
    BY <2>1, NumbersKept DEF RaceInv
<1> QED
  BY <1>6, <1>7, <1>8, <1>9 DEF RaceInv

\* A node more, at the head, and the readers stay where they are.
LEMMA InsertRace ==
    ASSUME Inv, TurnInv, RaceInv, InsertNode
    PROVE  RaceInv'
<1> PICK x : x = arg
  OBVIOUS
<1> PICK p : p = Head(changes)[1]
  OBVIOUS
<1> PICK n : n = Head(changes)[2]
  OBVIOUS
<1> PICK new : new = insert(places[p], n, x)
  OBVIOUS
<1>1. /\ pc[Main] = "adding" /\ changes # <<>>
      /\ places' = [places EXCEPT ![p] = new]
      /\ changes' = Tail(changes)
      /\ UNCHANGED <<sort, arg, work, input, look, pc, done, torn>>
  BY DEF InsertNode
<1>2. /\ x \in PlaceNames /\ <<p, n>> \in Doable(x) /\ p \in Products
      /\ changes' \in Seq(Doable(x))
  <2>1. x \in PlaceNames /\ changes \in Seq(Doable(x))
    BY <1>1 DEF RaceInv, ListsRight
  <2>2. Head(changes) \in Doable(x) /\ Tail(changes) \in Seq(Doable(x))
    BY <1>1, <2>1
  <2>3. Head(changes) \in Products \X (Nat \ {0})
    BY <2>2 DEF Doable
  <2>4. Head(changes) = <<p, n>> /\ p \in Products
    BY <2>3
  <2> QED
    BY <1>1, <2>1, <2>2, <2>4
<1>3. UNCHANGED <<job, num, cmd, toRead>>
  BY <1>1 DEF work, input
<1>4. /\ places'[p] = new /\ \A q \in Products : q # p => places'[q] = places[q]
      /\ places' = [q \in Products |-> places'[q]]
  BY <1>1, <1>2 DEF RaceInv, ListsRight
<1>5. ASSUME NEW q \in Products
      PROVE  /\ RightList(q, places'[q])
             /\ Len(places[q]) <= Len(places'[q])
             /\ \A i \in 1 .. Len(places[q]) : places'[q][i] = places[q][i]
  <2>1. RightList(q, places[q])
    BY DEF RaceInv, ListsRight
  <2>2. CASE q = p
    <3>1. RightList(p, places[p])
      BY <2>1, <2>2
    <3>2. /\ RightList(p, new) /\ Len(places[p]) <= Len(new)
          /\ \A i \in 1 .. Len(places[p]) : new[i] = places[p][i]
      BY <1>2, <3>1, InsertRight
    <3> QED
      BY <1>4, <2>2, <3>2
  <2>3. CASE q # p
    <3>1. Len(places[q]) \in Nat
      BY <2>1 DEF RightList
    <3> QED
      BY <1>4, <2>1, <2>3, <3>1
  <2> QED
    BY <2>2, <2>3
<1>6. ListsRight'
  <2>1. Doable(x) \subseteq Products \X (Nat \ {0})
    BY DEF Doable
  <2>2. changes' \in Seq(Products \X (Nat \ {0}))
    BY <1>2, <2>1
  <2> QED
    BY <1>1, <1>2, <1>4, <1>5, <2>2 DEF ListsRight
<1>7. Sorting'
  BY <1>1 DEF RaceInv, Sorting
<1>8. Numbers' /\ StartsNone
  BY <1>1, <1>3, MainNumbers
<1>9. Starts'
  BY <1>1, <1>3, <1>8, StartsKept DEF RaceInv
<1>10. Readers'
  <2>1. ASSUME NEW w \in Workers, look[w].at > 0
        PROVE  places'[look[w].list][look[w].at] = places[look[w].list][look[w].at]
    <3>1. look[w].list \in Products
      BY DEF TurnInv, LookShape
    <3>2. look[w].at \in Int /\ look[w].at <= Len(places[look[w].list])
      BY DEF RaceInv, Readers
    <3>3. Len(places[look[w].list]) \in Nat
      BY <3>1 DEF RaceInv, ListsRight, RightList
    <3> QED
      BY <1>5, <2>1, <3>1, <3>2, <3>3
  <2> QED
    BY <1>1, <1>3, <1>5, <1>6, <2>1, ReadersStay
<1> QED
  BY <1>6, <1>7, <1>8, <1>9, <1>10 DEF RaceInv

\* The sorting begins at the head of the first list.
LEMMA EndAddRace ==
    ASSUME Inv, TurnInv, RaceInv, EndAdd
    PROVE  RaceInv'
<1>1. /\ pc' = [pc EXCEPT ![Main] = "sorting"]
      /\ sort' = [NoSort EXCEPT !.at = Len(places["A"])]
      /\ UNCHANGED <<places, changes, arg, work, input, look, done, torn>>
  BY DEF EndAdd, Release, Goto
<1>3. UNCHANGED <<job, num, cmd, toRead>>
  BY <1>1 DEF work, input
<1>4. pc'[Main] = "sorting" /\ \A w \in Workers : pc'[w] = pc[w]
  BY <1>1, MainMoves
<1>6. ListsRight'
  BY <1>1, <1>4 DEF RaceInv, ListsRight
<1>7. Sorting'
  <2> PICK n : n = Len(places["A"])
    OBVIOUS
  <2>1. n \in Nat /\ n = Len(places'["A"])
    BY <1>1 DEF RaceInv, ListsRight, RightList, Products
  <2>2. sort' = [list |-> "A", at |-> n, lptr |-> 0, swapped |-> FALSE, saved |-> <<>>]
    BY <1>1 DEF NoSort
  <2>3. /\ sort'.list = "A" /\ sort'.at = n /\ sort'.lptr = 0
        /\ sort'.swapped = FALSE /\ sort'.saved = <<>>
        /\ sort' = [list |-> sort'.list, at |-> sort'.at, lptr |-> sort'.lptr,
                    swapped |-> sort'.swapped, saved |-> sort'.saved]
    BY <2>2
  <2> QED
    BY <1>4, <2>1, <2>3 DEF Sorting, Products
<1>8. Numbers' /\ StartsNone
  BY <1>1, <1>3, <1>4, MainNumbers
<1>9. Starts'
  BY <1>3, <1>4, <1>8, StartsKept DEF RaceInv
<1>10. Readers'
  <2>1. \A q \in Products : Len(places[q]) <= Len(places'[q])
    BY <1>1 DEF RaceInv, ListsRight, RightList
  <2> QED
    BY <1>1, <1>3, <1>4, <1>6, <2>1, ReadersStay
<1> QED
  BY <1>6, <1>7, <1>8, <1>9, <1>10 DEF RaceInv

\* Deleting a node leaves every other reader at the node where it was.
LEMMA DeleteRace ==
    ASSUME Inv, TurnInv, RaceInv, DeleteNode
    PROVE  RaceInv'
<1> PICK p : p = Head(changes)[1]
  OBVIOUS
<1> PICK k : k = Head(changes)[2]
  OBVIOUS
<1>11. PICK i : i = NodeFromHead(places[p], k)
  OBVIOUS
<1> DEFINE Moved(l) == IF l.list # p \/ l.at < i \/ i < 1 THEN l.at
                       ELSE IF l.at = i THEN Freed
                       ELSE l.at - 1
<1>1. /\ pc[Main] = "removing" /\ changes # <<>>
      /\ places' = [places EXCEPT ![p] = deleteNodeIndex(places[p], k)]
      /\ look' = [w \in Workers |-> [look[w] EXCEPT !.at = Moved(look[w])]]
      /\ changes' = Tail(changes)
      /\ UNCHANGED <<sort, work, input, pc, done, torn>>
  BY <1>11 DEF DeleteNode
<1>2. p \in Products /\ k \in Nat \ {0}
      /\ changes' \in Seq(Products \X (Nat \ {0}))
  <2>1. changes \in Seq(Products \X (Nat \ {0}))
    BY DEF RaceInv, ListsRight
  <2>2. Head(changes) \in Products \X (Nat \ {0}) /\ Tail(changes) \in Seq(Products \X (Nat \ {0}))
    BY <1>1, <2>1
  <2> QED
    BY <1>1, <2>2
<1>12. PICK old : old = places[p]
  OBVIOUS
<1>13. PICK new : new = deleteNodeIndex(old, k)
  OBVIOUS
<1>3. /\ i \in Int /\ i <= Len(old) /\ RightList(p, new)
      /\ i < 1 => new = old
      /\ i >= 1 => /\ Len(new) = Len(old) - 1
                   /\ \A j \in 1 .. i - 1 : new[j] = old[j]
                   /\ \A j \in i + 1 .. Len(old) : new[j - 1] = old[j]
  <2>1. RightList(p, old) /\ i = NodeFromHead(old, k)
    BY <1>2, <1>11, <1>12 DEF RaceInv, ListsRight
  <2>2. RightList(p, new) /\ TakenOut(old, i, new)
    BY <1>2, <1>13, <2>1, DeleteRight
  <2> QED
    BY <2>2 DEF TakenOut
<1> USE <1>11, <1>12, <1>13
<1>4. /\ places'[p] = new /\ \A q \in Products : q # p => places'[q] = places[q]
      /\ places' = [q \in Products |-> places'[q]]
  BY <1>1, <1>2 DEF RaceInv, ListsRight
<1>5. UNCHANGED <<cmd, toRead, job, num>>
  BY <1>1 DEF work, input
<1>6. ListsRight'
  <2>1. \A q \in Products : RightList(q, places'[q])
    BY <1>3, <1>4 DEF RaceInv, ListsRight
  <2> QED
    BY <1>1, <1>2, <1>4, <1>5, <2>1 DEF RaceInv, ListsRight
<1>7. Sorting'
  BY <1>1 DEF RaceInv, Sorting
<1>8. Numbers' /\ StartsNone
  BY <1>1, <1>5, MainNumbers
<1>9. Starts'
  BY <1>1, <1>5, <1>8, StartsKept DEF RaceInv
<1>10. Readers'
  <2>1. Len(old) \in Nat /\ Len(new) \in Nat
    BY <1>2, <1>3 DEF RaceInv, ListsRight, RightList
  <2>2. \A q \in Products : Len(places[q]) \in Nat
    BY DEF RaceInv, ListsRight, RightList
  <2>3. ASSUME NEW w \in Workers
        PROVE  /\ look'[w].at \in Int
               /\ look'[w].at <= Len(places'[look'[w].list])
               /\ look'[w].at = 0 => ~look'[w].hit
               /\ ~InLookup(w) => look'[w].at = 0
               /\ pc[w] = "startup" /\ look'[w].at > 0 /\ look'[w].hit =>
                     w \in torn \/ places'[look'[w].list][look'[w].at].work = job[w]
    <3> PICK l : l = look[w]
      OBVIOUS
    <3> PICK m : m = Moved(l)
      OBVIOUS
    <3>1. l = [list |-> l.list, at |-> l.at, hit |-> l.hit] /\ l.list \in Products
      BY DEF TurnInv, LookShape
    <3>2. look'[w].list = l.list /\ look'[w].at = m /\ look'[w].hit = l.hit
      BY <1>1, <3>1
    <3>3. /\ l.at \in Int /\ l.at <= Len(places[l.list]) /\ (l.at = 0 => ~l.hit)
          /\ ~InLookup(w) => l.at = 0
          /\ pc[w] = "startup" /\ l.at > 0 /\ l.hit =>
                w \in torn \/ places[l.list][l.at].work = job[w]
      BY DEF RaceInv, Readers
    <3>4. CASE l.list # p \/ i < 1
      <4>1. m = l.at /\ places'[l.list] = places[l.list]
        BY <1>3, <1>4, <3>1, <3>4
      <4> QED
        BY <3>2, <3>3, <4>1
    <3>5. CASE l.list = p /\ i >= 1 /\ l.at < i
      <4>1. m = l.at
        BY <3>5
      <4>2. l.at <= Len(new) /\ (l.at > 0 => new[l.at] = old[l.at])
        <5>1. l.at \in Int /\ i \in Int /\ i <= Len(old) /\ Len(new) = Len(old) - 1
          BY <1>3, <3>3, <3>5
        <5>2. l.at <= Len(new)
          BY <2>1, <3>5, <5>1
        <5>3. ASSUME l.at > 0 PROVE new[l.at] = old[l.at]
          <6>1. l.at \in 1 .. i - 1
            BY <3>5, <5>1, <5>3
          <6> QED
            BY <1>3, <3>5, <6>1
        <5> QED
          BY <5>2, <5>3
      <4> QED
        BY <1>4, <3>2, <3>3, <3>5, <4>1, <4>2
    <3>6. CASE l.list = p /\ i >= 1 /\ l.at = i
      <4>1. m = -1
        BY <1>3, <3>6 DEF Freed
      <4>2. InLookup(w)
        BY <1>3, <3>3, <3>6
      <4>3. m \in Int /\ m <= Len(places'[l.list]) /\ m # 0 /\ ~(m > 0)
        BY <1>4, <2>1, <3>6, <4>1
      <4> QED
        BY <3>2, <4>2, <4>3
    <3>7. CASE l.list = p /\ i >= 1 /\ l.at > i
      <4>1. m = l.at - 1
        BY <1>3, <3>3, <3>7
      <4>2. m \in Int /\ m > 0 /\ m <= Len(new) /\ l.at \in i + 1 .. Len(old)
        BY <1>3, <2>1, <3>3, <3>7, <4>1
      <4>3. new[m] = old[l.at]
        BY <1>3, <3>7, <4>1, <4>2
      <4>4. InLookup(w) /\ l.at > 0
        BY <1>3, <3>3, <3>7
      <4> QED
        BY <1>4, <3>2, <3>3, <3>7, <4>2, <4>3, <4>4
    <3> QED
      BY <1>3, <3>3, <3>4, <3>5, <3>6, <3>7
  <2>4. \A w \in Workers : InLookup(w)' <=> InLookup(w)
    BY <1>1 DEF InLookup
  <2> QED
    BY <1>1, <1>5, <2>3, <2>4 DEF Readers, RaceInv
<1> QED
  BY <1>6, <1>7, <1>8, <1>9, <1>10 DEF RaceInv

LEMMA FreeAllRace ==
    ASSUME Inv, TurnInv, RaceInv, deleteLinkedLists
    PROVE  RaceInv'
<1>1. /\ pc[Main] = "read" /\ pc' = [pc EXCEPT ![Main] = "join"]
      /\ places' = [p \in Products |-> <<>>]
      /\ look' = [w \in Workers |-> IF look[w].at > 0 THEN [look[w] EXCEPT !.at = Freed]
                                                      ELSE look[w]]
      /\ UNCHANGED <<work, input, sort, changes, done, torn>>
  BY DEF deleteLinkedLists, Goto
<1>2. UNCHANGED <<cmd, toRead, job, num>>
  BY <1>1 DEF work, input
<1>3. pc'[Main] = "join" /\ \A w \in Workers : pc'[w] = pc[w]
  BY <1>1, MainMoves
<1>4. ListsRight'
  <2>1. \A p \in Products : places'[p] = <<>> /\ RightList(p, <<>>)
    BY <1>1 DEF RightList
  <2> QED
    BY <1>1, <1>3, <2>1 DEF RaceInv, ListsRight
<1>5. Sorting'
  BY <1>1, <1>3 DEF RaceInv, Sorting
<1>6. Numbers' /\ StartsNone
  BY <1>1, <1>2, <1>3, MainNumbers
<1>7. Starts'
  BY <1>2, <1>3, <1>6, StartsKept DEF RaceInv
<1>8. Readers'
  <2>1. ASSUME NEW w \in Workers
        PROVE  /\ look'[w].at \in Int /\ ~(look'[w].at > 0)
               /\ look'[w].at <= Len(places'[look'[w].list])
               /\ look'[w].at = 0 => ~look'[w].hit
               /\ ~InLookup(w) => look'[w].at = 0
    <3>1. /\ look[w] = [list |-> look[w].list, at |-> look[w].at, hit |-> look[w].hit]
          /\ look[w].list \in Products
      BY DEF TurnInv, LookShape
    <3>2. /\ look[w].at \in Int /\ (look[w].at = 0 => ~look[w].hit)
          /\ ~InLookup(w) => look[w].at = 0
      BY DEF RaceInv, Readers
    <3>3. Len(places'[look[w].list]) = 0
      BY <1>1, <3>1
    <3>4. CASE look[w].at > 0
      <4>1. look'[w].list = look[w].list /\ look'[w].at = -1
        BY <1>1, <3>1, <3>4 DEF Freed
      <4>2. InLookup(w)
        BY <3>2, <3>4
      <4> QED
        BY <3>3, <4>1, <4>2
    <3>5. CASE ~(look[w].at > 0)
      <4>1. look'[w] = look[w]
        BY <1>1, <3>5
      <4> QED
        BY <3>2, <3>3, <3>5, <4>1
    <3> QED
      BY <3>4, <3>5
  <2>2. \A w \in Workers : InLookup(w)' <=> InLookup(w)
    BY <1>3 DEF InLookup
  <2> QED
    BY <1>2, <2>1, <2>2 DEF RaceInv, Readers
<1> QED
  BY <1>4, <1>5, <1>6, <1>7, <1>8 DEF RaceInv
-----------------------------------------------------------------------------
(* The sorting. *)

\* What the sorting leaves alone.
SortingStep == /\ pc[Main] = "sorting"
               /\ UNCHANGED <<cmd, toRead, changes, job, num, done, look>>
               /\ torn \subseteq torn'
               /\ \A w \in Workers : pc'[w] = pc[w]
               /\ pc'[Main] \in {"sorting", "read"}

\* A step that puts a right node at one position of the list it sorts.
LEMMA NodePut ==
    ASSUME TurnInv, RaceInv, SortingStep,
           NEW p \in Products, NEW i \in 1 .. Len(places[p]), NEW n, RightNode(p, n),
           places' = [places EXCEPT ![p] = [places[p] EXCEPT ![i] = n]],
           \A w \in Workers : pc[w] = "startup" /\ look[w].at # 0 /\ look[w].list = p
                                 => w \in torn'
    PROVE  /\ ListsRight' /\ Readers'
           /\ Len(places'[p]) = Len(places[p])
<1> PICK old : old = places[p]
  OBVIOUS
<1> PICK new : new = [old EXCEPT ![i] = n]
  OBVIOUS
<1>1. old \in Seq(Nodes) /\ \A j \in 1 .. Len(old) : RightNode(p, old[j])
  BY DEF RaceInv, ListsRight, RightList
<1>2. n \in Nodes
  BY DEF RightNode
<1>3. /\ new \in Seq(Nodes) /\ Len(new) = Len(old)
      /\ \A j \in 1 .. Len(old) : new[j] = IF j = i THEN n ELSE old[j]
  BY <1>1, <1>2
<1>4. RightList(p, new)
  BY <1>1, <1>3 DEF RightList
<1>5. /\ places'[p] = new /\ \A q \in Products : q # p => places'[q] = places[q]
      /\ places' = [q \in Products |-> places'[q]]
  BY DEF RaceInv, ListsRight
<1>6. ListsRight'
  <2>1. \A q \in Products : RightList(q, places'[q])
    BY <1>4, <1>5 DEF RaceInv, ListsRight
  <2> QED
    BY <1>5, <2>1 DEF SortingStep, RaceInv, ListsRight
<1>7. Readers'
  <2>1. \A q \in Products : Len(places[q]) <= Len(places'[q])
    BY <1>3, <1>5 DEF RaceInv, ListsRight, RightList
  <2>2. ASSUME NEW w \in Workers, pc[w] = "startup", look[w].at > 0
        PROVE  \/ w \in torn'
               \/ places'[look[w].list][look[w].at] = places[look[w].list][look[w].at]
    <3>1. look[w].list \in Products /\ look[w].at \in Int
      BY DEF TurnInv, LookShape, RaceInv, Readers
    <3>2. look[w].list = p => w \in torn'
      BY <2>2, <3>1
    <3>3. look[w].list # p => places'[look[w].list] = places[look[w].list]
      BY <1>5, <3>1
    <3> QED
      BY <3>2, <3>3
  <2> QED
    BY <1>6, <2>1, <2>2, ReadersStay DEF SortingStep
<1> QED
  BY <1>3, <1>5, <1>6, <1>7

LEMMA SortingKept ==
    ASSUME Inv, TurnInv, RaceInv, SortingStep
    PROVE  Starts' /\ Numbers'
<1>1. Numbers' /\ StartsNone
  BY MainNumbers DEF SortingStep
<1>2. pc'[Main] \notin {"start", "starting"}
  BY DEF SortingStep
<1> QED
  BY <1>1, <1>2, StartsKept DEF SortingStep, RaceInv

LEMMA SwapFirstRace ==
    ASSUME Inv, TurnInv, RaceInv, SwapFirst
    PROVE  RaceInv'
<1> PICK p : p = sort.list
  OBVIOUS
<1> PICK i : i = sort.at
  OBVIOUS
<1> PICK list : list = places[p]
  OBVIOUS
<1>1. /\ pc[Main] = "sorting" /\ ~AtEndOfPass /\ sort.saved = <<>> /\ pc' = pc
      /\ UNCHANGED <<work, input, look, changes, done>>
      /\ torn \subseteq torn'
  BY DEF SwapFirst, TornNow
<1>2. SortingStep
  BY <1>1 DEF SortingStep, work, input
<1>3. Starts' /\ Numbers'
  BY <1>2, SortingKept
<1>4. /\ p \in Products /\ i \in Nat /\ sort.lptr \in Nat /\ RightList(p, list)
      /\ Len(list) # 0 /\ i <= Len(list) /\ sort.lptr < i
      /\ sort.swapped => sort.lptr + 2 <= Len(list)
      /\ sort = [list |-> sort.list, at |-> sort.at, lptr |-> sort.lptr,
                 swapped |-> sort.swapped, saved |-> sort.saved]
  <2>1. p \in Products /\ RightList(p, list)
    BY DEF RaceInv, Sorting, ListsRight
  <2>2. list # <<>>
    BY <1>1 DEF AtEndOfPass
  <2>3. Len(list) # 0
    BY <2>1, <2>2 DEF RightList
  <2> QED
    BY <1>1, <2>1, <2>3 DEF RaceInv, Sorting
<1>5. i - 1 # sort.lptr
  BY <1>1 DEF AtEndOfPass
<1>6. i \in 1 .. Len(list) /\ i - 1 \in 1 .. Len(list) /\ i - 1 > sort.lptr /\ Len(list) \in Nat
  BY <1>4, <1>5 DEF RightList
<1>7. CASE list[i].priority > list[i - 1].priority
  <2>1. /\ sort' = [sort EXCEPT !.saved = <<list[i]>>]
        /\ places' = [places EXCEPT ![p] = [list EXCEPT ![i] = list[i - 1]]]
        /\ torn' = TornNow
    BY <1>7 DEF SwapFirst
  <2>2. RightNode(p, list[i]) /\ RightNode(p, list[i - 1])
    BY <1>4, <1>6 DEF RightList
  <2>3. \A w \in Workers : pc[w] = "startup" /\ look[w].at # 0 /\ look[w].list = p
                                 => w \in torn'
    BY <2>1 DEF TornNow
  <2>4. ListsRight' /\ Readers' /\ Len(places'[p]) = Len(list)
    BY <1>2, <1>4, <1>6, <2>1, <2>2, <2>3, NodePut
  <2>5. Sorting'
    <3> PICK s : s = <<list[i]>>
      OBVIOUS
    <3>1. s # <<>> /\ s[1] = list[i]
      OBVIOUS
    <3>2. sort' = [sort EXCEPT !.saved = s]
      BY <2>1
    <3>3. /\ sort'.list = p /\ sort'.at = i /\ sort'.lptr = sort.lptr
          /\ sort'.swapped = sort.swapped /\ sort'.saved = s
          /\ sort' = [list |-> sort'.list, at |-> sort'.at, lptr |-> sort'.lptr,
                      swapped |-> sort'.swapped, saved |-> sort'.saved]
      BY <1>4, <3>2
    <3>4. pc'[Main] = "sorting"
      BY <1>1
    <3> QED
      BY <1>4, <1>6, <2>2, <2>4, <3>1, <3>3, <3>4 DEF Sorting
  <2> QED
    BY <1>3, <2>4, <2>5 DEF RaceInv
<1>8. CASE ~(list[i].priority > list[i - 1].priority)
  <2>1. sort' = [sort EXCEPT !.at = i - 1] /\ UNCHANGED <<places, torn>>
    BY <1>8 DEF SwapFirst
  <2>2. ListsRight' /\ Readers'
    BY <1>1, <1>2, <2>1 DEF RaceInv, ListsRight, Readers, InLookup, SortingStep
  <2>3. Sorting'
    <3>1. /\ sort'.list = p /\ sort'.at = i - 1 /\ sort'.lptr = sort.lptr
          /\ sort'.swapped = sort.swapped /\ sort'.saved = <<>>
          /\ sort' = [list |-> sort'.list, at |-> sort'.at, lptr |-> sort'.lptr,
                      swapped |-> sort'.swapped, saved |-> sort'.saved]
      BY <1>1, <1>4, <2>1
    <3>2. pc'[Main] = "sorting"
      BY <1>1
    <3> QED
      BY <1>4, <1>6, <2>1, <3>1, <3>2 DEF Sorting
  <2> QED
    BY <1>3, <2>2, <2>3 DEF RaceInv
<1> QED
  BY <1>7, <1>8

LEMMA SwapSecondRace ==
    ASSUME Inv, TurnInv, RaceInv, SwapSecond
    PROVE  RaceInv'
<1> PICK p : p = sort.list
  OBVIOUS
<1> PICK i : i = sort.at
  OBVIOUS
<1> PICK list : list = places[p]
  OBVIOUS
<1> PICK n : n = sort.saved[1]
  OBVIOUS
<1>1. /\ pc[Main] = "sorting" /\ sort.saved # <<>> /\ pc' = pc
      /\ places' = [places EXCEPT ![p] = [list EXCEPT ![i - 1] = n]]
      /\ UNCHANGED <<work, input, look, changes, done>>
      /\ torn' = TornNow
  BY DEF SwapSecond
<1>2. SortingStep
  BY <1>1 DEF SortingStep, work, input, TornNow
<1>3. Starts' /\ Numbers'
  BY <1>2, SortingKept
<1>4. /\ p \in Products /\ i \in Nat /\ sort.lptr \in Nat /\ RightList(p, list)
      /\ RightNode(p, n) /\ sort.lptr < i - 1
      /\ Len(list) = 0 => i = 0
      /\ Len(list) # 0 => i <= Len(list)
      /\ sort = [list |-> sort.list, at |-> sort.at, lptr |-> sort.lptr,
                 swapped |-> sort.swapped, saved |-> sort.saved]
  BY <1>1 DEF RaceInv, Sorting, ListsRight
<1>5. i <= Len(list) /\ i - 1 \in 1 .. Len(list) /\ Len(list) \in Nat
      /\ sort.lptr + 2 <= Len(list)
  BY <1>4 DEF RightList
<1>6. \A w \in Workers : pc[w] = "startup" /\ look[w].at # 0 /\ look[w].list = p
                                 => w \in torn'
  BY <1>1 DEF TornNow
<1>7. ListsRight' /\ Readers' /\ Len(places'[p]) = Len(list)
  BY <1>1, <1>2, <1>4, <1>5, <1>6, NodePut
<1>8. Sorting'
  <2>1. sort' = [sort EXCEPT !.saved = <<>>, !.swapped = TRUE, !.at = i - 1]
    BY DEF SwapSecond
  <2>2. /\ sort'.list = p /\ sort'.at = i - 1 /\ sort'.lptr = sort.lptr
        /\ sort'.saved = <<>>
        /\ sort' = [list |-> sort'.list, at |-> sort'.at, lptr |-> sort'.lptr,
                    swapped |-> sort'.swapped, saved |-> sort'.saved]
    BY <1>4, <2>1
  <2>3. pc'[Main] = "sorting"
    BY <1>1
  <2> QED
    BY <1>4, <1>5, <1>7, <2>2, <2>3 DEF Sorting
<1> QED
  BY <1>3, <1>7, <1>8 DEF RaceInv

\* After a swap the next pass stops one node earlier; a pass without one ends
\* the sorting of the list.
LEMMA PassEndRace ==
    ASSUME Inv, TurnInv, RaceInv, PassEnd
    PROVE  RaceInv'
<1> PICK p : p = sort.list
  OBVIOUS
<1>1. /\ pc[Main] = "sorting" /\ AtEndOfPass /\ sort.saved = <<>>
      /\ UNCHANGED <<places, changes, work, input, look, done, torn>>
      /\ pc' = pc \/ pc' = [pc EXCEPT ![Main] = "read"]
  BY DEF PassEnd, Goto
<1>2. pc'[Main] \in {"sorting", "read"} /\ \A w \in Workers : pc'[w] = pc[w]
  BY <1>1, MainMoves
<1>3. SortingStep
  BY <1>1, <1>2 DEF SortingStep, work, input
<1>4. Starts' /\ Numbers'
  BY <1>3, SortingKept
<1>5. ListsRight'
  BY <1>1, <1>2 DEF RaceInv, ListsRight
<1>6. Readers'
  <2>1. \A q \in Products : Len(places[q]) <= Len(places'[q])
    BY <1>1 DEF RaceInv, ListsRight, RightList
  <2> QED
    BY <1>1, <1>2, <1>3, <1>5, <2>1, ReadersStay DEF SortingStep
<1>7. Sorting'
  <2>1. /\ p \in Products
        /\ sort = [list |-> sort.list, at |-> sort.at, lptr |-> sort.lptr,
                   swapped |-> sort.swapped, saved |-> sort.saved]
        /\ sort.at \in Nat /\ sort.lptr \in Nat
        /\ \A q \in Products : Len(places[q]) \in Nat
    BY <1>1 DEF RaceInv, Sorting, ListsRight, RightList
  <2>2. CASE sort.swapped
    <3> PICK n : n = Len(places[p])
      OBVIOUS
    <3>1. /\ sort' = [sort EXCEPT !.lptr = sort.at, !.swapped = FALSE, !.at = n]
          /\ pc' = pc
      BY <2>2 DEF PassEnd
    <3>2. /\ sort'.list = p /\ sort'.at = n /\ sort'.lptr = sort.at
          /\ ~sort'.swapped /\ sort'.saved = <<>>
          /\ sort' = [list |-> sort'.list, at |-> sort'.at, lptr |-> sort'.lptr,
                      swapped |-> sort'.swapped, saved |-> sort'.saved]
      BY <1>1, <2>1, <3>1
    <3>3. n # 0 /\ n \in Nat /\ sort.lptr + 2 <= n
      BY <1>1, <2>1, <2>2 DEF RaceInv, Sorting
    <3>4. sort.at - 1 = sort.lptr
      <4>1. places[p] # <<>>
        BY <3>3
      <4> QED
        BY <1>1, <4>1 DEF AtEndOfPass
    <3>5. sort.at < n
      BY <2>1, <3>3, <3>4
    <3>6. places' = places /\ pc'[Main] = "sorting"
      BY <1>1, <3>1
    <3> QED
      BY <2>1, <3>2, <3>3, <3>5, <3>6 DEF Sorting
  <2>3. CASE ~sort.swapped /\ p # "C"
    <3> PICK q : q = NextProduct(p)
      OBVIOUS
    <3>1. q \in Products
      BY DEF NextProduct, Products
    <3> PICK n : n = Len(places[q])
      OBVIOUS
    <3>2. /\ sort' = [NoSort EXCEPT !.list = q, !.at = n]
          /\ pc' = pc
      BY <2>3 DEF PassEnd
    <3>3. /\ sort'.list = q /\ sort'.at = n /\ sort'.lptr = 0
          /\ sort'.swapped = FALSE /\ sort'.saved = <<>>
          /\ sort' = [list |-> sort'.list, at |-> sort'.at, lptr |-> sort'.lptr,
                      swapped |-> sort'.swapped, saved |-> sort'.saved]
      BY <3>2 DEF NoSort
    <3>4. n \in Nat /\ places' = places /\ pc'[Main] = "sorting"
      BY <1>1, <2>1, <3>1, <3>2
    <3> QED
      BY <3>1, <3>3, <3>4 DEF Sorting
  <2>4. CASE ~sort.swapped /\ p = "C"
    <3>1. sort' = NoSort /\ pc' = [pc EXCEPT ![Main] = "read"]
      BY <2>4 DEF PassEnd, Goto
    <3>2. pc'[Main] = "read"
      BY <3>1, MainMoves
    <3>3. /\ sort'.list = "A" /\ sort'.saved = <<>>
          /\ sort' = [list |-> sort'.list, at |-> sort'.at, lptr |-> sort'.lptr,
                      swapped |-> sort'.swapped, saved |-> sort'.saved]
      BY <3>1 DEF NoSort
    <3> QED
      BY <3>2, <3>3 DEF Sorting, Products
  <2> QED
    BY <2>2, <2>3, <2>4
<1> QED
  BY <1>4, <1>5, <1>6, <1>7 DEF RaceInv

LEMMA StepRace == Inv /\ TurnInv /\ RaceInv /\ [Next]_vars => RaceInv'
<1> SUFFICES ASSUME Inv, TurnInv, RaceInv, [Next]_vars PROVE RaceInv'
  OBVIOUS
<1>1. CASE Read
  BY <1>1, ReadRace
<1>2. CASE deleteLinkedLists
  BY <1>2, FreeAllRace
<1>3. CASE Manage
  <2>1. CASE Make \/ End \/ EndRemove \/ Join
    BY <2>1, SomeAwayRace
  <2>2. CASE Sort
    BY <2>2, SwapFirstRace, SwapSecondRace, PassEndRace DEF Sort
  <2> QED
    BY <1>3, <2>1, <2>2, StartRace, InsertRace, EndAddRace, DeleteRace DEF Manage
<1>4. ASSUME NEW t \in Threads, Acquire(t) PROVE RaceInv'
  BY <1>4, AcquireRace
<1>5. ASSUME NEW w \in Workers, Routine(w) PROVE RaceInv'
  BY <1>5, RoutineRace
<1>6. ASSUME NEW w \in Workers, ReadsMovedArray(w) PROVE RaceInv'
  BY <1>6, CrashRace DEF ReadsMovedArray
<1>7. CASE UNCHANGED vars
  <2>1. UNCHANGED <<places, sort, changes, arg, cmd, toRead, job, num, done, pc, look, torn>>
    BY <1>7 DEF vars, lists, work, input
  <2>2. ListsRight' /\ Sorting' /\ Starts'
    BY <2>1, ListsKept DEF RaceInv, StartsNone, MainAsBefore
  <2>3. Readers' /\ Numbers'
    BY <2>1 DEF RaceInv, Readers, Numbers, RightOrTorn, InLookup
  <2> QED
    BY <2>2, <2>3 DEF RaceInv
<1> QED
  BY <1>1, <1>2, <1>3, <1>4, <1>5, <1>6, <1>7 DEF Next

\* A worker does a phase its place cannot do only if, while it read its
\* numbers, the sorting swapped nodes of the list or the node it was at was
\* deleted: the nodes that main inserts, one by one and under the readers,
\* never give it one.
THEOREM RaceIsTheOnlyWrong == Spec => []WrongPhaseOnlyByRace
<1>1. TurnInv /\ RaceInv => WrongPhaseOnlyByRace
  <2> SUFFICES ASSUME TurnInv, RaceInv, NEW p \in Products, NEW k \in DOMAIN done[p]
               PROVE  CanDo(job[done[p][k][2]], p, done[p][k][1]) \/ done[p][k][2] \in torn
    BY DEF WrongPhaseOnlyByRace
  <2>1. k \in 1 .. Len(done[p])
    BY DEF TurnInv, Counted
  <2> QED
    BY <2>1 DEF RaceInv, Numbers, RightOrTorn
<1> QED
  BY <1>1, InitInv, StepInv, InitTurn, StepTurn, InitRace, StepRace, PTL DEF Spec
-----------------------------------------------------------------------------
(* After a self-lock. *)

\* Once a thread waits for the mutex it owns, no other thread is inside.
LEMMA OnlyAgainInside ==
    ASSUME Inv, SelfLocked, NEW s \in Threads, pc[s] \in Inside
    PROVE  pc[s] = "again"
<1>1. PICK t \in Threads : pc[t] = "again"
  BY DEF SelfLocked
<1>2. owner = t /\ owner = s
  BY <1>1 DEF Inv, HoldsMutex, Inside
<1>3. QED
  BY <1>1, <1>2

\* What a thread outside the mutex does, a worker's first lookups and main's
\* reading of a command, sorting and clean-up, writes none of the parts, the
\* phases due, the jobs and the workers told to end; the handlers that do are
\* inside.
LEMMA SelfLockStep ==
    Inv /\ [Next]_vars => (SelfLocked => UNCHANGED <<parts, curr, job, outWork>>)
<1> SUFFICES ASSUME Inv, [Next]_vars, SelfLocked
             PROVE  UNCHANGED <<parts, curr, job, outWork>>
  OBVIOUS
<1>1. \A s \in Threads : pc[s] \in Inside => pc[s] = "again"
  BY OnlyAgainInside
<1>2. pc[Main] \notin {"starting", "making", "ending"}
  BY <1>1, MainIsThread DEF Inside
<1>3. \A w \in Workers : pc[w] # "working"
  BY <1>1 DEF Inside, Threads
<1>4. CASE Read \/ deleteLinkedLists
  BY <1>4 DEF Read, Crash, deleteLinkedLists, work
<1>5. CASE Manage
  <2>1. CASE StartWorker \/ Make \/ End
    BY <1>2, <2>1 DEF StartWorker, Make, End
  <2>2. CASE InsertNode \/ EndAdd \/ DeleteNode \/ EndRemove \/ Join
    BY <2>2 DEF InsertNode, EndAdd, DeleteNode, EndRemove, Join, work
  <2>3. CASE Sort
    BY <2>3 DEF Sort, SwapFirst, SwapSecond, PassEnd, work
  <2>4. QED
    BY <1>5, <2>1, <2>2, <2>3 DEF Manage
<1>6. ASSUME NEW t \in Threads, Acquire(t)
      PROVE  UNCHANGED <<parts, curr, job, outWork>>
  BY <1>6 DEF Acquire, work
<1>7. ASSUME NEW w \in Workers, Routine(w)
      PROVE  UNCHANGED <<parts, curr, job, outWork>>
  <2>1. ASSUME NEW n, Found(w, n)
        PROVE  UNCHANGED <<parts, curr, job, outWork>>
    BY <2>1 DEF Found
  <2>2. CASE Lookup(w)
    BY <2>1, <2>2 DEF Lookup, FindStart, FindNode, FindPriority, FindFreed,
                      Crash, work
  <2>3. CASE Choose(w) \/ Idle(w) \/ Unlock(w)
    BY <2>3 DEF Choose, Idle, Unlock, work
  <2>4. CASE find_time(w)
    BY <1>3, <2>4 DEF find_time
  <2>5. QED
    BY <1>7, <2>2, <2>3, <2>4 DEF Routine
<1>8. ASSUME NEW w \in Workers, ReadsMovedArray(w)
      PROVE  UNCHANGED <<parts, curr, job, outWork>>
  BY <1>8 DEF ReadsMovedArray, Crash, work
<1>9. CASE UNCHANGED vars
  BY <1>9 DEF vars, work
<1>10. QED
  BY <1>4, <1>5, <1>6, <1>7, <1>8, <1>9 DEF Next

\* A swap writes the fields of a node, not the list.
LEMMA PutKeepsLength ==
    ASSUME RaceInv, NEW p \in Products, NEW i, NEW n, NEW q \in Products,
           places' = [places EXCEPT ![p][i] = n]
    PROVE  Len(places'[q]) = Len(places[q])
<1> PICK list : list = places[p]
  OBVIOUS
<1>1. list \in Seq(Nodes \cup {n})
  BY DEF RaceInv, ListsRight, RightList
<1>2. Len([list EXCEPT ![i] = n]) = Len(list)
  <2>1. CASE i \in 1 .. Len(list)
    BY <1>1, <2>1, ExceptSeq
  <2>2. CASE i \notin 1 .. Len(list)
    <3>1. [list EXCEPT ![i] = n] = list
      BY <1>1, <2>2
    <3> QED
      BY <3>1
  <2> QED
    BY <2>1, <2>2
<1>3. places'[q] = IF q = p THEN [list EXCEPT ![i] = n] ELSE places[q]
  BY DEF RaceInv, ListsRight
<1> QED
  BY <1>2, <1>3

\* Nor does it touch the lists but by swaps and by the clean-up.
LEMMA SelfLockLists ==
    Inv /\ RaceInv /\ [Next]_vars =>
      (SelfLocked => \/ pc[Main] = "read" /\ pc'[Main] = "join"
                     \/ \A p \in Products : Len(places'[p]) = Len(places[p]))
<1> SUFFICES ASSUME Inv, RaceInv, [Next]_vars, SelfLocked,
                    ~(pc[Main] = "read" /\ pc'[Main] = "join"),
                    NEW p \in Products
             PROVE  Len(places'[p]) = Len(places[p])
  OBVIOUS
<1>1. pc[Main] \notin {"adding", "removing"}
  BY OnlyAgainInside, MainIsThread DEF Inside
<1>2. CASE places' = places
  BY <1>2
<1>3. CASE Read \/ deleteLinkedLists
  <2>1. ~deleteLinkedLists
    BY MainIsThread DEF deleteLinkedLists, Goto, Inv, WhereOK
  <2> QED
    BY <1>2, <1>3, <2>1 DEF Read, Crash, lists
<1>4. CASE Manage
  <2>1. CASE InsertNode \/ EndAdd \/ DeleteNode \/ EndRemove
    BY <1>1, <2>1 DEF InsertNode, EndAdd, DeleteNode, EndRemove
  <2>2. CASE StartWorker \/ Make \/ End \/ Join
    BY <1>2, <2>2 DEF StartWorker, Make, End, Join, lists
  <2>3. CASE Sort
    <3>1. sort.list \in Products
      BY DEF RaceInv, Sorting
    <3>2. \/ places' = places
          \/ \E i, n : places' = [places EXCEPT ![sort.list][i] = n]
      BY <2>3 DEF Sort, SwapFirst, SwapSecond, PassEnd
    <3>3. ASSUME NEW i, NEW n, places' = [places EXCEPT ![sort.list][i] = n]
          PROVE  Len(places'[p]) = Len(places[p])
      <4> PICK q \in Products : q = sort.list
        BY <3>1
      <4>1. places' = [places EXCEPT ![q][i] = n]
        BY <3>3
      <4> QED
        BY <4>1, PutKeepsLength
    <3> QED
      BY <1>2, <3>2, <3>3
  <2> QED
    BY <1>4, <2>1, <2>2, <2>3 DEF Manage
<1>5. ASSUME NEW t \in Threads, Acquire(t) PROVE places' = places
  BY <1>5 DEF Acquire, lists
<1>6. ASSUME NEW w \in Workers, Routine(w) PROVE places' = places
  <2>1. ASSUME NEW n, Found(w, n) PROVE places' = places
    BY <2>1 DEF Found, lists
  <2>2. CASE Lookup(w)
    BY <2>1, <2>2 DEF Lookup, FindStart, FindNode, FindPriority, FindFreed, Crash, lists
  <2> QED
    BY <1>6, <2>2 DEF Routine, Choose, Idle, Unlock, find_time, lists
<1>7. ASSUME NEW w \in Workers, ReadsMovedArray(w) PROVE places' = places
  BY <1>7 DEF ReadsMovedArray, Crash, lists
<1>8. CASE UNCHANGED vars
  BY <1>2, <1>8 DEF vars, lists
<1> QED
  BY <1>2, <1>3, <1>4, <1>5, <1>6, <1>7, <1>8 DEF Next

\* A worker with nothing to do, and main at `end', lock the mutex they hold:
\* from then on no phase is done, no part ordered, no worker started or told to
\* end, and the lists keep their nodes until the clean-up, whatever the number
\* of workers and the input; what goes on without the mutex, the reading of
\* commands, first lookups and the sorting, changes none of that.
THEOREM SelfLockStopsAll == Spec => NothingAfterSelfLock
<1> DEFINE Still == /\ UNCHANGED <<parts, curr, job, outWork>>
                    /\ \/ pc[Main] = "read" /\ pc'[Main] = "join"
                       \/ \A p \in Products : Len(places'[p]) = Len(places[p])
<1>1. Inv /\ RaceInv /\ [Next]_vars => [SelfLocked => Still]_vars
  BY SelfLockStep, SelfLockLists
<1> HIDE DEF Still
<1>2. Spec => [][SelfLocked => Still]_vars
  BY <1>1, InitInv, StepInv, InitTurn, StepTurn, InitRace, StepRace, PTL DEF Spec
<1>3. QED
  BY <1>2 DEF NothingAfterSelfLock, Still
=============================================================================
