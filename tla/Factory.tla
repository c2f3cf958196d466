------------------------------- MODULE Factory --------------------------------
(***************************************************************************)
(* hw6/factory.cpp: main reads commands and changes the lists of places,   *)
(* the parts to make and the workers, one thread per worker looks for a    *)
(* phase it can do.  One mutex guards some of this, but not the lookups a  *)
(* worker starts with, nor the sorting of the lists after `add', nor the   *)
(* clean-up at the end of the input: each node these visit is a step of    *)
(* its own.  A critical section is one step where nobody can look into it.  *)
(*                                                                         *)
(* pthread_cond_wait does not appear: only a thread that got the mutex at  *)
(* line 287 would reach it, and that thread holds the mutex since line     *)
(* 253.  So the broadcasts wake nobody.  The print of "done A" is left out.*)
(***************************************************************************)
EXTENDS Places, FiniteSets

CONSTANTS
    Workers, Main, Nobody,  \* the threads, and the owner of a free mutex
    Inputs                  \* the command sequences main may be given

Commands == ({"add", "remove"} \X PlaceNames) \cup ({"make"} \X Products)
                \cup ({"start"} \X (Workers \X PlaceNames)) \cup ({"end"} \X Workers)

\* Two commands of an input that start the same worker are the same command:
\* every `start' takes the next element of my_worker.
StartsOnce(commands) ==
    \A i, j \in DOMAIN commands :
        /\ commands[i][1] = "start" /\ commands[j][1] = "start"
        /\ commands[i][2][1] = commands[j][2][1]
        => i = j

ASSUME FactoryAssumption ==
    /\ Main \notin Workers /\ Nobody \notin Workers \cup {Main}
    /\ Inputs \subseteq Seq(Commands)
    /\ \A commands \in Inputs : StartsOnce(commands)

Threads == Workers \cup {Main}
Freed == -1                 \* position of a reader whose node was deleted
AnyNumber == 0 .. 7         \* what a lookup may return; 7 is for any that no phase has
None == "none"              \* value of arg before the first command sets it

VARIABLES
    places,         \* place_workA, place_workB, place_workC
    parts,          \* the first three columns of the matrix parts
    curr,           \* curr_productA, curr_productB, curr_productC
    job,            \* my_worker: the place each worker was started for
    num,            \* num_productA, ... of each worker
    look,           \* list a worker's findByName is in, its node, match found
    sort,           \* the list main sorts, and Sort's local state
    changes,        \* calls of insert or deleteNodeIndex the command has still to make
    arg,            \* the global of that name
    outWork,        \* workers told to end
    owner,          \* holder of mutex
    pc, cmd, toRead, \* where each thread is, main's command, the commands to come
    crashed,        \* the process was killed
    \* history, which no thread reads:
    done,           \* for each product, who did which phase, in order
    torn            \* workers whose first lookups met a swap or a deleted node

lists   == <<places, sort, changes, arg>>
work    == <<parts, curr, job, num, outWork>>
input   == <<cmd, toRead>>
vars == <<lists, work, input, look, owner, pc, crashed, done, torn>>

NoLook == [list |-> "A", at |-> 0, hit |-> FALSE]
NoSort == [list |-> "A", at |-> 0, lptr |-> 0, swapped |-> FALSE, saved |-> <<>>]

Init ==
    /\ places = [p \in Products |-> <<>>]
    /\ parts = [p \in Products |-> [i \in 0 .. 2 |-> 0]]
    /\ curr = [p \in Products |-> 1]
    /\ job = [w \in Workers |-> None]
    /\ num = [w \in Workers |-> [p \in Products |-> 0]]
    /\ look = [w \in Workers |-> NoLook]
    /\ sort = NoSort /\ changes = <<>> /\ arg = None
    /\ outWork = {} /\ owner = Nobody
    /\ pc = [t \in Threads |-> IF t = Main THEN "read" ELSE "new"]
    /\ cmd = <<None, None>> /\ toRead \in Inputs
    /\ crashed = FALSE
    /\ done = [p \in Products |-> <<>>] /\ torn = {}

Goto(t, there) == pc' = [pc EXCEPT ![t] = there]

Crash ==
    /\ crashed' = TRUE
    /\ UNCHANGED <<lists, work, input, look, owner, pc, done, torn>>

NextProduct(p) == IF p = "A" THEN "B" ELSE "C"
-----------------------------------------------------------------------------
(* The mutex *)

\* Where a thread waits for the mutex, and where it is with it.
Entry == [lock |-> "locked", start |-> "starting", make |-> "making",
          end |-> "ending", add |-> "adding", remove |-> "removing",
          again |-> "unreached"]

\* Mutant: the mutex is not taken at all.
Acquire_NoMutex(t) ==
    /\ pc[t] \in DOMAIN Entry
    /\ owner' = t
    /\ Goto(t, Entry[pc[t]])
    /\ UNCHANGED <<lists, work, input, look, crashed, done, torn>>

\* The mutex is of the default kind: its owner waits for itself.
Acquire(t) ==
    /\ pc[t] \in DOMAIN Entry
    /\ owner = Nobody
    /\ owner' = t
    /\ Goto(t, Entry[pc[t]])
    /\ UNCHANGED <<lists, work, input, look, crashed, done, torn>>

Release(t, there) == owner' = Nobody /\ Goto(t, there)
-----------------------------------------------------------------------------
(* findByName, called without the mutex when a worker starts and with it    *)
(* before a phase; but the sorting takes no mutex either.                   *)

InLookup(w) == pc[w] \in {"startup", "checking"}

\* The end of a lookup in list p that returns n.  The first lookups, one per
\* list, give the phases the worker will do for ever; a later one must only
\* find the place, whatever the phase.
Found(w, n) ==
    LET p == look[w].list
        first == pc[w] = "startup"
    IN  /\ num' = IF first THEN [num EXCEPT ![w][p] = n] ELSE num
        /\ look' = [look EXCEPT ![w] = IF first /\ p # "C"
                                       THEN [NoLook EXCEPT !.list = NextProduct(p)]
                                       ELSE [NoLook EXCEPT !.list = p]]
        /\ Goto(w, IF first THEN IF p = "C" THEN "lock" ELSE "startup"
                   ELSE IF n # 0 /\ curr[p] = num[w][p] THEN "working"
                   ELSE "unlock")
        /\ UNCHANGED <<lists, parts, curr, job, outWork, input, owner, crashed, done>>

\* Readers share the member temp, but the compiled loop (g++ -O2) only writes it
\* and follows a register: none is moved to the node of another.
FindStart(w) ==
    /\ InLookup(w) /\ look[w].at = 0
    /\ LET p == look[w].list
       IN  IF places[p] = <<>>
           THEN Found(w, 0) /\ UNCHANGED torn
           ELSE /\ look' = [look EXCEPT ![w].at = Len(places[p])]
                /\ torn' = IF sort.list = p /\ sort.saved # <<>> /\ pc[w] = "startup"
                           THEN torn \cup {w} ELSE torn
                /\ UNCHANGED <<lists, work, input, owner, pc, crashed, done>>

\* my_worker[idx].job is read without the mutex, while `start' may be moving
\* the array.
ReadsMovedArray(w) ==
    /\ pc[w] = "startup" /\ look[w].at = 0
    /\ pc[Main] = "starting"
    /\ Crash

\* Mutant: at the end of the list its last node is returned.
FindNode_Last(w) ==
    /\ InLookup(w) /\ look[w].at > 0 /\ ~look[w].hit
    /\ LET p == look[w].list
           i == look[w].at
       IN  IF places[p][i].work = job[w]
           THEN /\ look' = [look EXCEPT ![w].hit = TRUE]
                /\ UNCHANGED <<lists, work, input, owner, pc, crashed, done, torn>>
           ELSE IF i > 1
           THEN /\ look' = [look EXCEPT ![w].at = i - 1]
                /\ UNCHANGED <<lists, work, input, owner, pc, crashed, done, torn>>
           ELSE Found(w, places[p][i].priority) /\ UNCHANGED torn

FindNode(w) ==
    /\ InLookup(w) /\ look[w].at > 0 /\ ~look[w].hit
    /\ LET p == look[w].list
           i == look[w].at
       IN  IF places[p][i].work = job[w]
           THEN /\ look' = [look EXCEPT ![w].hit = TRUE]
                /\ UNCHANGED <<lists, work, input, owner, pc, crashed, done, torn>>
           ELSE IF i > 1
           THEN /\ look' = [look EXCEPT ![w].at = i - 1]
                /\ UNCHANGED <<lists, work, input, owner, pc, crashed, done, torn>>
           ELSE Found(w, 0) /\ UNCHANGED torn

FindPriority(w) ==
    /\ InLookup(w) /\ look[w].at > 0 /\ look[w].hit
    /\ Found(w, places[look[w].list][look[w].at].priority)
    /\ UNCHANGED torn

\* The node was deleted under the reader.  The memory may hold anything, a node
\* that insert made there since included: the reader crashes or ends with any
\* number.
FindFreed(w) ==
    /\ InLookup(w) /\ look[w].at = Freed
    /\ \/ Crash
       \/ /\ \E n \in AnyNumber : Found(w, n)
          /\ torn' = IF pc[w] = "startup" THEN torn \cup {w} ELSE torn
-----------------------------------------------------------------------------
(* A worker with the mutex *)

\* The word of parts that the branch for product p tests.  `make' writes the
\* first column of the three rows, the branches test the first row.
Waiting(p) == parts["A"][CASE p = "A" -> 0 [] p = "B" -> 1 [] p = "C" -> 2]

Before(p) == CASE p = "A" -> {} [] p = "B" -> {"A"} [] p = "C" -> {"A", "B"}

\* The product whose branch is taken: the others only get the parts of A.
ChosenProducts == {p \in Products : Waiting(p) # 0 /\ \A q \in Before(p) : Waiting(q) = 0}

Choose(w) ==
    /\ pc[w] = "locked"
    /\ \E p \in ChosenProducts :
          IF num[w][p] # 0
          THEN /\ look' = [look EXCEPT ![w] = [NoLook EXCEPT !.list = p]]
               /\ Goto(w, "checking")
          ELSE Goto(w, "unlock") /\ UNCHANGED look
    /\ UNCHANGED <<lists, work, input, owner, crashed, done, torn>>

\* Mutant: pthread_cond_wait without the second lock.
Idle_Waits(w) ==
    /\ pc[w] = "locked"
    /\ ChosenProducts = {}
    /\ Release(w, "again")
    /\ UNCHANGED <<lists, work, input, look, crashed, done, torn>>

\* With nothing to do the worker locks the mutex again, and keeps it.
Idle(w) ==
    /\ pc[w] = "locked"
    /\ ChosenProducts = {}
    /\ Goto(w, "again")
    /\ UNCHANGED <<lists, work, input, look, owner, crashed, done, torn>>

\* The phase is printed; then the next one is due.
NextPhase(w) ==
    LET p == look[w].list
    IN  /\ curr' = [curr EXCEPT ![p] = @ + 1]
        /\ done' = [done EXCEPT ![p] = Append(@, <<num[w][p], w>>)]

\* Mutant: the worker does not unlock after a phase.
find_time_KeepsMutex(w) ==
    /\ pc[w] = "working"
    /\ NextPhase(w)
    /\ Goto(w, "lock")
    /\ UNCHANGED <<lists, parts, job, num, outWork, input, look, owner, crashed, torn>>

\* The time of the phase has passed; the worker slept with the mutex.
find_time(w) ==
    /\ pc[w] = "working"
    /\ NextPhase(w)
    /\ Goto(w, "unlock")
    /\ UNCHANGED <<lists, parts, job, num, outWork, input, look, owner, crashed, torn>>

\* outWork is not looked at: the loop has no exit.
Unlock(w) ==
    /\ pc[w] = "unlock"
    /\ Release(w, "lock")
    /\ UNCHANGED <<lists, work, input, look, crashed, done, torn>>
-----------------------------------------------------------------------------
(* main *)

\* The branch `remove x' takes: the test for svarecka compares arg, what the last
\* command set, and not arg1; the ones after it are reached if it fails.
Removed(x) ==
    IF x \in {"nuzky", "vrtacka", "ohybacka"} THEN x
    ELSE IF arg = "svarecka" THEN "svarecka"
    ELSE IF x = "svarecka" THEN None
    ELSE x

ReadsNullArg(c) ==
    c[1] = "remove" /\ arg = None /\ c[2] \notin {"nuzky", "vrtacka", "ohybacka"}

\* The place in whose branch main changes the lists.
Branch(c) ==
    CASE c[1] = "add"    -> c[2]
      [] c[1] = "remove" -> Removed(c[2])
      [] OTHER           -> None

\* The calls of that branch.
Changes(c) ==
    IF Branch(c) = None THEN <<>>
    ELSE IF c[1] = "add" THEN Insertions(Branch(c)) ELSE Positions(Branch(c))

\* The place where main waits for the mutex before it does command c; `end' of
\* a name no worker has and `remove' without a branch do nothing.
Handler(c) ==
    IF \/ c[1] = "end" /\ pc[c[2]] = "new"
       \/ c[1] = "remove" /\ Branch(c) = None
    THEN "read" ELSE c[1]

\* main sets arg before it waits for the mutex.
Read ==
    /\ pc[Main] = "read"
    /\ toRead # <<>>
    /\ LET c == Head(toRead)
       IN  IF ReadsNullArg(c)
           THEN Crash
           ELSE /\ cmd' = c
                /\ toRead' = Tail(toRead)
                /\ arg' = IF Branch(c) = None THEN arg ELSE Branch(c)
                /\ changes' = Changes(c)
                /\ Goto(Main, Handler(c))
                /\ UNCHANGED <<places, sort, work, look, owner, crashed, done, torn>>

StartWorker ==
    /\ pc[Main] = "starting"
    /\ owner' = Nobody
    /\ pc' = [pc EXCEPT ![Main] = "read", ![cmd[2][1]] = "startup"]
    /\ job' = [job EXCEPT ![cmd[2][1]] = cmd[2][2]]
    /\ UNCHANGED <<lists, parts, curr, num, outWork, input, look, crashed, done, torn>>

Make ==
    /\ pc[Main] = "making"
    /\ parts' = [parts EXCEPT ![cmd[2]][0] = @ + 1]
    /\ Release(Main, "read")
    /\ UNCHANGED <<lists, curr, job, num, outWork, input, look, crashed, done, torn>>

\* main locks the mutex a second time where it should unlock it.
End ==
    /\ pc[Main] = "ending"
    /\ outWork' = outWork \cup {cmd[2]}
    /\ Goto(Main, "again")
    /\ UNCHANGED <<lists, parts, curr, job, num, input, look, owner, crashed, done, torn>>

InsertNode ==
    /\ pc[Main] = "adding" /\ changes # <<>>
    /\ LET p == Head(changes)[1]
           n == Head(changes)[2]
       IN  places' = [places EXCEPT ![p] = insert(@, n, arg)]
    /\ changes' = Tail(changes)
    /\ UNCHANGED <<sort, arg, work, input, look, owner, pc, crashed, done, torn>>

\* Sorting starts after the mutex was released.
EndAdd ==
    /\ pc[Main] = "adding" /\ changes = <<>>
    /\ sort' = [NoSort EXCEPT !.at = Len(places["A"])]
    /\ Release(Main, "sorting")
    /\ UNCHANGED <<places, changes, arg, work, input, look, crashed, done, torn>>

\* Readers of the node that is deleted are left with a freed one.
DeleteNode ==
    /\ pc[Main] = "removing" /\ changes # <<>>
    /\ LET p == Head(changes)[1]
           k == Head(changes)[2]
           i == NodeFromHead(places[p], k)
           Moved(l) == IF l.list # p \/ l.at < i \/ i < 1 THEN l.at
                       ELSE IF l.at = i THEN Freed
                       ELSE l.at - 1
       IN  /\ places' = [places EXCEPT ![p] = deleteNodeIndex(@, k)]
           /\ look' = [w \in Workers |-> [look[w] EXCEPT !.at = Moved(look[w])]]
           /\ crashed' = WalksPastEnd(places[p], k)
    /\ changes' = Tail(changes)
    /\ UNCHANGED <<sort, arg, work, input, owner, pc, done, torn>>

EndRemove ==
    /\ pc[Main] = "removing" /\ changes = <<>>
    /\ Release(Main, "read")
    /\ UNCHANGED <<lists, work, input, look, crashed, done, torn>>

\* The end of the input: the lists are freed without the mutex, with readers
\* in them.
deleteLinkedLists ==
    /\ pc[Main] = "read"
    /\ places' = [p \in Products |-> <<>>]
    /\ look' = [w \in Workers |-> IF look[w].at > 0 THEN [look[w] EXCEPT !.at = Freed]
                                                   ELSE look[w]]
    /\ Goto(Main, "join")
    /\ UNCHANGED <<work, input, sort, changes, arg, owner, crashed, done, torn>>

\* No worker ever leaves routine: main gets past the joins if none was started.
Join ==
    /\ pc[Main] = "join"
    /\ \A w \in Workers : pc[w] = "new"
    /\ Goto(Main, "exited")
    /\ UNCHANGED <<lists, work, input, look, owner, crashed, done, torn>>
-----------------------------------------------------------------------------
(* Sort: a pass swaps neighbours in the wrong order, from the head down to  *)
(* lptr, the first node of the part that is in place.  A swap writes one    *)
(* node and then the other.                                                 *)

AtEndOfPass == places[sort.list] = <<>> \/ sort.at - 1 = sort.lptr

\* The first lookups that are in the list being sorted.
TornNow == torn \cup {w \in Workers : pc[w] = "startup" /\ look[w].at # 0
                                    /\ look[w].list = sort.list}

SwapFirst ==
    /\ pc[Main] = "sorting" /\ ~AtEndOfPass /\ sort.saved = <<>>
    /\ LET list == places[sort.list]
           i == sort.at
       IN  IF list[i].priority > list[i - 1].priority
           THEN /\ sort' = [sort EXCEPT !.saved = <<list[i]>>]
                /\ places' = [places EXCEPT ![sort.list][i] = list[i - 1]]
                /\ torn' = TornNow
           ELSE /\ sort' = [sort EXCEPT !.at = i - 1]
                /\ UNCHANGED <<places, torn>>
    /\ UNCHANGED <<work, input, look, changes, arg, owner, pc, crashed, done>>

SwapSecond ==
    /\ pc[Main] = "sorting" /\ sort.saved # <<>>
    /\ places' = [places EXCEPT ![sort.list][sort.at - 1] = sort.saved[1]]
    /\ sort' = [sort EXCEPT !.saved = <<>>, !.swapped = TRUE, !.at = @ - 1]
    /\ torn' = TornNow
    /\ UNCHANGED <<work, input, look, changes, arg, owner, pc, crashed, done>>

PassEnd ==
    /\ pc[Main] = "sorting" /\ AtEndOfPass /\ sort.saved = <<>>
    /\ LET p == sort.list
       IN  IF sort.swapped
           THEN /\ sort' = [sort EXCEPT !.lptr = sort.at, !.swapped = FALSE,
                                        !.at = Len(places[p])]
                /\ UNCHANGED pc
           ELSE IF p # "C"
           THEN /\ sort' = [NoSort EXCEPT !.list = NextProduct(p),
                                          !.at = Len(places[NextProduct(p)])]
                /\ UNCHANGED pc
           ELSE sort' = NoSort /\ Goto(Main, "read")
    /\ UNCHANGED <<places, changes, arg, work, input, look, owner, crashed, done, torn>>
-----------------------------------------------------------------------------
Lookup(w) == FindStart(w) \/ FindNode(w) \/ FindPriority(w) \/ FindFreed(w)

Routine(w) == Lookup(w) \/ Choose(w) \/ Idle(w) \/ find_time(w) \/ Unlock(w)

Sort == SwapFirst \/ SwapSecond \/ PassEnd

Manage ==
    \/ StartWorker \/ Make \/ End \/ Join \/ Sort
    \/ InsertNode \/ EndAdd \/ DeleteNode \/ EndRemove

\* When the process is killed no thread moves any more.
Next ==
    /\ ~crashed
    /\ \/ Read \/ deleteLinkedLists \/ Manage
       \/ \E t \in Threads : Acquire(t)
       \/ \E w \in Workers : Routine(w) \/ ReadsMovedArray(w)

\* Every thread keeps running, except that the input may stop coming.  A mutex
\* that is released again and again is got in the end, even from a worker that
\* takes it back at once.
Fairness ==
    /\ WF_vars(~crashed /\ Manage)
    /\ \A w \in Workers : WF_vars(~crashed /\ Routine(w))
    /\ \A t \in Threads : SF_vars(~crashed /\ Acquire(t))

Spec == Init /\ [][Next]_vars /\ Fairness
-----------------------------------------------------------------------------
(* Properties *)

\* The phases of a product are done one after the other, each once, by workers
\* that check whose turn it is, print and move the turn on under the mutex; and
\* no phase of B or C is ever done, since `make' counts their parts where no
\* branch of routine looks.
PhasesInOrder ==
    \A p \in Products :
        /\ [k \in DOMAIN done[p] |-> done[p][k][1]] = [k \in 1 .. curr[p] - 1 |-> k]
        /\ p # "A" => done[p] = <<>>

\* A worker that does a phase its place cannot do read the number while the
\* list was being sorted, from a list where a swap was half done, or from a node
\* that was deleted under it.  The insertions, which its first lookups can run
\* between, never give it one.
WrongPhaseOnlyByRace ==
    \A p \in Products : \A k \in DOMAIN done[p] :
        LET n == done[p][k][1]
            w == done[p][k][2]
        IN  CanDo(job[w], p, n) \/ w \in torn

SelfLocked == \E t \in Threads : pc[t] = "again"

\* Once a thread locks the mutex it holds, a worker with nothing to do or main
\* at `end', no phase is done any more, no part is ordered, no worker is started
\* or told to end, and no node is added to a list or deleted until the clean-up
\* at the end of the input: all that is behind that mutex.  First lookups, the
\* sorting, and the next command up to its lock go on without it.
NothingAfterSelfLock ==
    [][SelfLocked => /\ UNCHANGED <<parts, curr, job, outWork>>
                     /\ \/ pc[Main] = "read" /\ pc'[Main] = "join"
                        \/ \A p \in Products : Len(places'[p]) = Len(places[p])]_vars

Halted == crashed \/ SelfLocked

\* A part of A waits, and worker w, who has looked for its phases, has the one
\* that is due and a place to do it at.
Due(w) ==
    /\ parts["A"][0] # 0 /\ pc[w] \notin {"new", "startup"}
    /\ num[w]["A"] = curr["A"]
    /\ \E i \in DOMAIN places["A"] : places["A"][i].work = job[w]

\* A phase that a worker can do gets done, unless the process stops: the worker
\* finds the mutex free, and its place whatever main sorts, in the end.
PhaseGetsDone == \A w \in Workers : Due(w) ~> ~Due(w) \/ Halted

\* `end' is done and main reads on: it does not wait for the worker.
EndDoesNotWait ==
    pc[Main] \in {"end", "ending", "again"} ~> pc[Main] = "read" \/ crashed

\* A place that is added for a worker and a part that are ready is put to use.
AddWakesWorker ==
    \A w \in Workers :
        LET ready == /\ parts["A"][0] # 0 /\ pc[w] # "new"
                     /\ Node(curr["A"], job[w]) \in ToSet(places["A"])
        IN  ready ~> ~ready \/ Halted
=============================================================================
