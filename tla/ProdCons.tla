------------------------------- MODULE ProdCons -------------------------------
(***************************************************************************)
(* hw5/prod-cons.c: a producer reads lines and pushes them on a list, N    *)
(* consumers pop and print them, main creates and joins the threads.  The  *)
(* list is guarded by mutex_LL_Lock and counted by a semaphore; the flag   *)
(* `end' is written under the mutex and read outside it, after the check   *)
(* that the list is empty has released the mutex.                          *)
(*                                                                         *)
(* The list is its pointers: head, tail and count, and the field `next' of *)
(* each entry.  An entry is the number of its input line; that malloc may  *)
(* give the address of a freed entry to a new one changes nothing, since   *)
(* addresses are only followed.  A critical section is one step after the  *)
(* one that takes the mutex, but for pop: it reads the head, then moves it.*)
(***************************************************************************)
EXTENDS Integers, SequencesExt

CONSTANTS
    Consumers, Producer, Main,  \* the threads
    Nobody,                     \* owner of a free mutex
    MaxItems                    \* bound on the input lines

ASSUME ProdConsAssumption ==
    /\ Consumers # {} /\ IsFiniteSet(Consumers)
    /\ Producer \notin Consumers /\ Main \notin Consumers \cup {Producer}
    /\ Nobody \notin Consumers \cup {Producer, Main}
    /\ MaxItems \in Nat

Threads == Consumers \cup {Producer, Main}
Items   == 1 .. MaxItems

\* No entry: a null pointer, or the `next' of an entry that is new or freed,
\* which nobody has set.
NULL == 0

VARIABLES
    list,           \* lst: head, tail and count
    next,           \* the field `next' of each entry pushed, in order
    sem,            \* value of the semaphore
    end, negativ, prod_terminate,   \* the flags
    owner,          \* thread that holds each mutex, or Nobody
    pc,             \* where each thread is
    element,        \* entry each consumer has in hand, or NULL
    sent,           \* lines pushed so far
    negatives,      \* lines whose number is negative
    input,          \* what scanf met last: "line", "eof" or "bad" input
    \* history, which no thread reads:
    popped,         \* entries popped, in order
    printed,        \* entries printed
    late            \* a consumer's last look at an empty list was after `end'

flags   == <<end, negativ, prod_terminate>>
history == <<popped, printed, late>>
vars == <<list, next, sem, flags, owner, pc, element, sent, negatives, input, history>>

Init ==
    /\ list = [head |-> NULL, tail |-> NULL, count |-> 0] /\ next = <<>>
    /\ sem = 0
    /\ end = FALSE /\ negativ = FALSE /\ prod_terminate = FALSE
    /\ owner = [m \in {"LL", "print"} |-> Nobody]
    /\ pc = [t \in Threads |-> IF t = Main THEN "create" ELSE "new"]
    /\ element = [c \in Consumers |-> NULL]
    /\ sent = 0 /\ negatives = {} /\ input = "line"
    /\ popped = <<>> /\ printed = {}
    /\ late = [c \in Consumers |-> FALSE]

Goto(t, there) == pc' = [pc EXCEPT ![t] = there]
-----------------------------------------------------------------------------
(* The mutexes *)

\* The places where a thread waits for a mutex, and where it is with it.
Entry == [push |-> "pushing", setend |-> "setting", check |-> "checking",
          pop |-> "popping", print |-> "printing", clean |-> "cleaning"]

Mutex(place) == IF place \in {"print", "printing"} THEN "print" ELSE "LL"

Acquire(t) ==
    /\ pc[t] \in DOMAIN Entry
    /\ owner[Mutex(pc[t])] = Nobody
    /\ owner' = [owner EXCEPT ![Mutex(pc[t])] = t]
    /\ Goto(t, Entry[pc[t]])
    /\ UNCHANGED <<list, next, sem, flags, element, sent, negatives, input, history>>

\* The critical section that t is in at place ends, and t goes there.
Leave(t, place, there) ==
    /\ pc[t] = place
    /\ owner' = [owner EXCEPT ![Mutex(place)] = Nobody]
    /\ Goto(t, there)
-----------------------------------------------------------------------------
(* The producer *)

ScanLine ==
    /\ pc[Producer] = "scan"
    /\ sent < MaxItems
    /\ negatives' \in {negatives, negatives \cup {sent + 1}}
    /\ Goto(Producer, "push")
    /\ UNCHANGED <<list, next, sem, flags, owner, element, sent, input, history>>

ScanEnd ==
    /\ pc[Producer] = "scan"
    /\ input' \in {"eof", "bad"}
    /\ Goto(Producer, "setend")
    /\ UNCHANGED <<list, next, sem, flags, owner, element, sent, negatives, history>>

\* Mutant: list->tail stays at the first entry, so a third one replaces the second.
PushEnd_KeepsTail ==
    /\ Leave(Producer, "pushing", "post")
    /\ LET new == sent + 1
       IN  \/ /\ list.count = 0
              /\ list' = [head |-> new, tail |-> new, count |-> 1]
              /\ next' = Append(next, NULL)
           \/ /\ list.count # 0
              /\ list' = [list EXCEPT !.count = @ + 1]
              /\ next' = Append([next EXCEPT ![list.tail] = new], NULL)
    /\ sent' = sent + 1
    /\ UNCHANGED <<sem, flags, element, negatives, input, history>>

\* The `next' of the new entry is left as malloc gives it.
PushEnd ==
    /\ Leave(Producer, "pushing", "post")
    /\ LET new == sent + 1
       IN  \/ /\ list.count = 0
              /\ list' = [head |-> new, tail |-> new, count |-> 1]
              /\ next' = Append(next, NULL)
           \/ /\ list.count # 0
              /\ list' = [list EXCEPT !.tail = new, !.count = @ + 1]
              /\ next' = Append([next EXCEPT ![list.tail] = new], NULL)
    /\ sent' = sent + 1
    /\ UNCHANGED <<sem, flags, element, negatives, input, history>>

\* Mutant: only an entry that finds the list empty is posted.
Post_WhenFirst ==
    /\ pc[Producer] = "post"
    /\ sem' = IF list.count = 1 THEN sem + 1 ELSE sem
    /\ Goto(Producer, "scan")
    /\ UNCHANGED <<list, next, flags, owner, element, sent, negatives, input, history>>

Post ==
    /\ pc[Producer] = "post"
    /\ sem' = sem + 1
    /\ Goto(Producer, "scan")
    /\ UNCHANGED <<list, next, flags, owner, element, sent, negatives, input, history>>

\* Mutant: the sem_post that line 104 has in a comment.
SetEnd_Posts ==
    /\ Leave(Producer, "setting", "finish")
    /\ end' = TRUE
    /\ sem' = sem + 1
    /\ UNCHANGED <<list, next, negativ, prod_terminate, element, sent, negatives, input,
                   history>>

SetEnd ==
    /\ Leave(Producer, "setting", "finish")
    /\ end' = TRUE
    /\ UNCHANGED <<list, next, sem, negativ, prod_terminate, element, sent, negatives,
                   input, history>>

ProducerEnds ==
    /\ pc[Producer] = "finish"
    /\ prod_terminate' = (input # "eof")
    /\ Goto(Producer, "done")
    /\ UNCHANGED <<list, next, sem, end, negativ, owner, element, sent, negatives, input,
                   history>>
-----------------------------------------------------------------------------
(* A consumer *)

\* Mutant: a list of one entry passes for empty.
isEmpty_OneLeft(c) ==
    /\ Leave(c, "checking", IF list.count <= 1 THEN "test" ELSE "wait")
    /\ late' = [late EXCEPT ![c] = end /\ list.count <= 1]
    /\ UNCHANGED <<list, next, sem, flags, element, sent, negatives, input, popped, printed>>

isEmpty(c) ==
    /\ Leave(c, "checking", IF list.count = 0 THEN "test" ELSE "wait")
    /\ late' = [late EXCEPT ![c] = end /\ list.count = 0]
    /\ UNCHANGED <<list, next, sem, flags, element, sent, negatives, input, popped, printed>>

\* `end' is read without the mutex, when the list may have changed again.
TestEnd(c) ==
    /\ pc[c] = "test"
    /\ Goto(c, IF end THEN "done" ELSE "wait")
    /\ UNCHANGED <<list, next, sem, flags, owner, element, sent, negatives, input, history>>

TimedWait(c) ==
    /\ pc[c] = "wait"
    /\ sem > 0
    /\ sem' = sem - 1
    /\ Goto(c, "pop")
    /\ UNCHANGED <<list, next, flags, owner, element, sent, negatives, input, history>>

\* Mutant: sem_wait, which has no timeout.
TimedWaitFails_Never(c) ==
    /\ pc[c] = "wait" /\ sem > 0
    /\ Goto(c, "wait")
    /\ UNCHANGED <<list, next, sem, flags, owner, element, sent, negatives, input, history>>

\* No post came in time, or adding to tv_nsec carried it past a second: then
\* sem_timedwait fails whatever the semaphore's value.
TimedWaitFails(c) ==
    /\ pc[c] = "wait"
    /\ Goto(c, "check")
    /\ UNCHANGED <<list, next, sem, flags, owner, element, sent, negatives, input, history>>

\* pop reads the head, and the number of the entry it finds there.  Of an empty
\* list that would be a pointer that is NULL or was freed.
ReadHead(c) ==
    /\ IF list.head = NULL
       THEN Leave(c, "popping", "crashed") /\ UNCHANGED element
       ELSE /\ pc[c] = "popping" /\ UNCHANGED owner
            /\ Goto(c, "moving")
            /\ element' = [element EXCEPT ![c] = list.head]
    /\ UNCHANGED <<list, next, sem, flags, sent, negatives, input, history>>

\* Mutant: the head of the list does not move.
MoveHead_Keeps(c) ==
    /\ Leave(c, "moving", IF element[c] \in negatives THEN "negative" ELSE "print")
    /\ list' = [list EXCEPT !.count = @ - 1]
    /\ popped' = Append(popped, element[c])
    /\ UNCHANGED <<next, sem, flags, element, sent, negatives, input, printed, late>>

MoveHead(c) ==
    /\ Leave(c, "moving", IF element[c] \in negatives THEN "negative" ELSE "print")
    /\ list' = [list EXCEPT !.head = next[element[c]], !.count = @ - 1]
    /\ popped' = Append(popped, element[c])
    /\ UNCHANGED <<next, sem, flags, element, sent, negatives, input, printed, late>>

\* The consumer is done with its element and frees it.
Free(c) ==
    /\ next' = [next EXCEPT ![element[c]] = NULL]
    /\ element' = [element EXCEPT ![c] = NULL]

Printed(c) ==
    /\ Leave(c, "printing", "check")
    /\ printed' = printed \cup {element[c]}
    /\ Free(c)
    /\ UNCHANGED <<list, sem, flags, sent, negatives, input, popped, late>>

Negative(c) ==
    /\ pc[c] = "negative"
    /\ negativ' = TRUE
    /\ Free(c)
    /\ Goto(c, "check")
    /\ UNCHANGED <<list, sem, end, prod_terminate, owner, sent, negatives, input,
                   history>>
-----------------------------------------------------------------------------
(* main *)

Create(t) ==
    /\ pc[Main] = "create"
    /\ pc[t] = "new"
    /\ t # Producer => pc[Producer] # "new"
    /\ pc' = [pc EXCEPT
                ![t] = IF t = Producer THEN "scan" ELSE "check",
                ![Main] = IF \E u \in Threads \ {t} : pc[u] = "new" THEN "create"
                                                                   ELSE "join"]
    /\ UNCHANGED <<list, next, sem, flags, owner, element, sent, negatives, input, history>>

\* Mutant: main waits for the producer alone.
Join_ProducerOnly ==
    /\ pc[Main] = "join"
    /\ pc[Producer] = "done"
    /\ Goto(Main, "clean")
    /\ UNCHANGED <<list, next, sem, flags, owner, element, sent, negatives, input, history>>

Join ==
    /\ pc[Main] = "join"
    /\ \A t \in Threads \ {Main} : pc[t] = "done"
    /\ Goto(Main, "clean")
    /\ UNCHANGED <<list, next, sem, flags, owner, element, sent, negatives, input, history>>

\* removeALL follows the entries to a NULL that no PushEnd ever wrote: when
\* there are entries left it stops by luck or not at all.
removeALL ==
    /\ \/ Leave(Main, "cleaning", "returned")
       \/ list.count # 0 /\ Leave(Main, "cleaning", "crashed")
    /\ UNCHANGED <<list, next, sem, flags, element, sent, negatives, input, history>>

\* main's return value.
Status == IF negativ \/ prod_terminate THEN 1 ELSE 0
-----------------------------------------------------------------------------
Produce == PushEnd \/ Post \/ SetEnd \/ ProducerEnds

Consume(c) ==
    \/ isEmpty(c) \/ TestEnd(c) \/ TimedWaitFails(c)
    \/ ReadHead(c) \/ MoveHead(c) \/ Printed(c) \/ Negative(c)

Manage == (\E t \in Threads : Create(t)) \/ Join \/ removeALL

Next ==
    \/ ScanLine \/ ScanEnd \/ Produce \/ Manage
    \/ \E t \in Threads : Acquire(t)
    \/ \E c \in Consumers : Consume(c) \/ TimedWait(c)

\* Every thread keeps running, except that the input may never end.  A mutex
\* is free again and again, since a consumer with nothing to do sleeps in
\* sem_timedwait, and a semaphore that stays positive is taken at the latest
\* when the clock leaves the tenth of the second in which the call fails.
Fairness ==
    /\ WF_vars(Produce) /\ WF_vars(Manage)
    /\ \A c \in Consumers : WF_vars(Consume(c)) /\ SF_vars(TimedWait(c))
    /\ \A t \in Threads : SF_vars(Acquire(t))

Spec == Init /\ [][Next]_vars /\ Fairness
-----------------------------------------------------------------------------
(* Properties *)

Places == {"new", "create", "join", "clean", "cleaning", "returned", "crashed",
           "scan", "push", "pushing", "post", "setend", "setting", "finish", "done",
           "check", "checking", "test", "wait", "pop", "popping", "moving",
           "negative", "print", "printing"}

Popping == {c \in Consumers : pc[c] \in {"pop", "popping", "moving"}}

\* The semaphore counts the entries that no consumer is about to pop, but for
\* one that is pushed and not yet posted: pop always finds an entry, with no
\* second test of the list.
SemAccounting ==
    /\ sem + Cardinality(Popping)
           + (IF pc[Producer] = "post" THEN 1 ELSE 0) = list.count
    /\ \A c \in Consumers : pc[c] # "crashed"

\* Entries leave the list in the order of the lines, whoever pops them, none
\* lost or popped twice: head, the `next' fields and tail lead through the
\* others, whether the list ran empty before or not.
Fifo ==
    LET first == sent - list.count + 1
    IN  /\ popped = [k \in 1 .. first - 1 |-> k]
        /\ list.count # 0 => list.head = first /\ list.tail = sent
        /\ \A k \in first .. sent - 1 : next[k] = k + 1

\* An entry that was popped is in the hands of one consumer, then printed if
\* its number is not negative, and only then.
EachHandledOnce ==
    LET hands == {element[c] : c \in {d \in Consumers : pc[d] # "moving"}} \ {NULL}
    IN  /\ \A c, d \in Consumers : element[c] = element[d] /\ element[c] # NULL => c = d
        /\ hands \subseteq ToSet(popped)
        /\ printed = ToSet(popped) \ (hands \cup negatives)

\* Entries can be left behind, because `end' is read after the mutex has been
\* released: but never by a consumer that looked at the list after `end' was
\* set.
LeftOnlyByStaleCheck ==
    \A c \in Consumers : pc[c] = "done" /\ late[c] => list.count = 0

\* main reads flags that other threads set without a lock, and returns 1
\* exactly when the input was malformed or a number that was not left behind
\* was negative.
ExitStatus ==
    pc[Main] = "returned" =>
        (Status = 1 <=> input = "bad" \/ negatives \cap ToSet(popped) # {})

\* Once the input ends, the program ends.
Termination == input # "line" ~> pc[Main] \in {"returned", "crashed"}

\* What is pushed is popped, unless all consumers have left.
Delivered ==
    \A k \in Items :
        sent >= k ~> k \in ToSet(popped) \/ \A c \in Consumers : pc[c] = "done"
=============================================================================
