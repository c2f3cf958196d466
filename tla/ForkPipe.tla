------------------------------- MODULE ForkPipe -------------------------------
(***************************************************************************)
(* hw4/forkpipe.c: the parent starts GEN, which writes a pair of numbers a *)
(* second to a pipe until it is told to stop, and NSD, which answers each  *)
(* pair until the pipe ends.  After five seconds the parent signals GEN,   *)
(* waits for both and judges them by their exit status.                    *)
(*                                                                         *)
(* The clock orders nothing: a second is a step that may come at any time. *)
(* Only the calls that can fail for want of resources fail here: pipe,     *)
(* fork and execl.                                                         *)
(***************************************************************************)
EXTENDS Divisors, SequencesExt

CONSTANTS
    Pairs,          \* pairs that GEN may generate
    MaxPairs,       \* bound on the pairs generated
    PipeSize        \* lines the pipe holds before a writer waits

ASSUME ForkPipeAssumption == Pairs \subseteq Nat \X Nat /\ MaxPairs \in Nat /\ PipeSize > 0

Children  == {"GEN", "NSD"}
Processes == Children \cup {"parent"}

VARIABLES
    pc,             \* where each process is; a child is "new", then "gone" at the end
    readers, writers, \* processes that hold an end of the pipe open
    pipe,           \* lines written and not read
    sig,            \* GEN's flag, set by its handler
    status,         \* exit status of each child; 0 if a signal killed it
    result,         \* exit status of the parent
    \* history:
    sent,           \* pairs GEN wrote
    answers         \* NSD's answers, in order

ends    == <<readers, writers>>
history == <<sent, answers>>
vars == <<pc, ends, pipe, sig, status, result, history>>

Running == -1

Init ==
    /\ pc = [p \in Processes |-> IF p = "parent" THEN "pipe" ELSE "new"]
    /\ readers = {} /\ writers = {} /\ pipe = <<>> /\ sig = 0
    /\ status = [c \in Children |-> Running] /\ result = Running
    /\ sent = <<>> /\ answers = <<>>

Goto(p, there) == pc' = [pc EXCEPT ![p] = there]

\* p ends; the kernel closes what it holds open.
Exit(p, code) ==
    /\ Goto(p, "gone")
    /\ readers' = readers \ {p} /\ writers' = writers \ {p}
    /\ IF p = "parent" THEN result' = code /\ UNCHANGED status
                       ELSE status' = [status EXCEPT ![p] = code] /\ UNCHANGED result
    /\ UNCHANGED <<pipe, sig, history>>
-----------------------------------------------------------------------------
(* The parent *)

MakePipe ==
    /\ pc["parent"] = "pipe"
    /\ \/ /\ readers' = {"parent"} /\ writers' = {"parent"}
          /\ Goto("parent", "forkGEN")
          /\ UNCHANGED <<pipe, sig, status, result, history>>
       \/ Exit("parent", 2)

\* A child is born with the ends its parent has.
Fork(c, first, next) ==
    /\ pc' = [pc EXCEPT !["parent"] = next, ![c] = first]
    /\ readers' = readers \cup {c} /\ writers' = writers \cup {c}
    /\ UNCHANGED <<pipe, sig, status, result, history>>

ForkGEN ==
    /\ pc["parent"] = "forkGEN"
    /\ Fork("GEN", "signal", "forkNSD") \/ Exit("parent", 2)

\* The test after a failed second fork can never be true: the parent goes on.
ForkNSD ==
    /\ pc["parent"] = "forkNSD"
    /\ \/ Fork("NSD", "redirect", "close")
       \/ Goto("parent", "close") /\ UNCHANGED <<ends, pipe, sig, status, result, history>>

\* Mutant: the parent keeps the end it could write to.
CloseEnds_KeepsWrite ==
    /\ pc["parent"] = "close"
    /\ readers' = readers \ {"parent"}
    /\ Goto("parent", "kill")
    /\ UNCHANGED <<writers, pipe, sig, status, result, history>>

CloseEnds ==
    /\ pc["parent"] = "close"
    /\ readers' = readers \ {"parent"} /\ writers' = writers \ {"parent"}
    /\ Goto("parent", "kill")
    /\ UNCHANGED <<pipe, sig, status, result, history>>

\* SIGTERM finds GEN's handler, or kills a GEN that has not installed it yet;
\* a GEN that has ended waits for its parent and takes the signal as well.
Kill ==
    /\ pc["parent"] = "kill"
    /\ IF pc["GEN"] = "signal"
       THEN /\ pc' = [pc EXCEPT !["parent"] = "waitGEN", !["GEN"] = "gone"]
            /\ readers' = readers \ {"GEN"} /\ writers' = writers \ {"GEN"}
            /\ status' = [status EXCEPT !["GEN"] = 0]
            /\ UNCHANGED sig
       ELSE /\ Goto("parent", "waitGEN")
            /\ sig' = 1
            /\ UNCHANGED <<ends, status>>
    /\ UNCHANGED <<pipe, result, history>>

WaitGEN ==
    /\ pc["parent"] = "waitGEN"
    /\ status["GEN"] # Running
    /\ Goto("parent", "waitNSD")
    /\ UNCHANGED <<ends, pipe, sig, status, result, history>>

Verdict == IF status["GEN"] # 0 \/ status["NSD"] # 0 THEN 1 ELSE 0

\* Mutant: the parent does not wait for NSD.
WaitNSD_NoWait ==
    /\ pc["parent"] = "waitNSD"
    /\ Exit("parent", IF status["GEN"] # 0 THEN 1 ELSE 0)

\* waitpid(-1), after a failed fork, finds no child left.
WaitNSD ==
    /\ pc["parent"] = "waitNSD"
    /\ \/ status["NSD"] # Running /\ Exit("parent", Verdict)
       \/ pc["NSD"] = "new" /\ Exit("parent", 2)
-----------------------------------------------------------------------------
(* GEN *)

InstallHandler ==
    /\ pc["GEN"] = "signal"
    /\ Goto("GEN", "redirect")
    /\ UNCHANGED <<ends, pipe, sig, status, result, history>>

\* Its end becomes GEN's standard output, under one descriptor.
RedirectOut ==
    /\ pc["GEN"] = "redirect"
    /\ readers' = readers \ {"GEN"}
    /\ Goto("GEN", "test")
    /\ UNCHANGED <<writers, pipe, sig, status, result, history>>

TestSig ==
    /\ pc["GEN"] = "test"
    /\ IF sig = 0
       THEN /\ Len(sent) < MaxPairs
            /\ Goto("GEN", "write")
            /\ UNCHANGED <<ends, pipe, sig, status, result, history>>
       ELSE Exit("GEN", 0)

\* A write waits for room, over signals too, and kills when nobody can read.
WritePair ==
    /\ pc["GEN"] = "write"
    /\ \/ /\ readers # {} /\ Len(pipe) < PipeSize
          /\ \E pair \in Pairs : pipe' = Append(pipe, pair) /\ sent' = Append(sent, pair)
          /\ Goto("GEN", "test")
          /\ UNCHANGED <<ends, sig, status, result, answers>>
       \/ readers = {} /\ Exit("GEN", 0)
-----------------------------------------------------------------------------
(* NSD *)

RedirectIn ==
    /\ pc["NSD"] = "redirect"
    /\ writers' = writers \ {"NSD"}
    /\ Goto("NSD", "exec")
    /\ UNCHANGED <<readers, pipe, sig, status, result, history>>

Exec ==
    /\ pc["NSD"] = "exec"
    /\ \/ Goto("NSD", "read") /\ UNCHANGED <<ends, pipe, sig, status, result, history>>
       \/ Exit("NSD", 2)

AnswerPair ==
    /\ pc["NSD"] = "read" /\ pipe # <<>>
    /\ pipe' = Tail(pipe)
    /\ answers' = Append(answers, Answer(Head(pipe)[1], Head(pipe)[2]))
    /\ UNCHANGED <<pc, ends, sig, status, result, sent>>

EndOfPipe ==
    /\ pc["NSD"] = "read" /\ pipe = <<>> /\ writers = {}
    /\ Exit("NSD", 0)
-----------------------------------------------------------------------------
Parent ==
    MakePipe \/ ForkGEN \/ ForkNSD \/ CloseEnds \/ Kill \/ WaitGEN \/ WaitNSD
Generate == InstallHandler \/ RedirectOut \/ TestSig \/ WritePair
Respond  == RedirectIn \/ Exec \/ AnswerPair \/ EndOfPipe

Next == Parent \/ Generate \/ Respond

\* The kernel runs each process that can go on.
Fairness == WF_vars(Parent) /\ WF_vars(Generate) /\ WF_vars(Respond)

Spec == Init /\ [][Next]_vars /\ Fairness
-----------------------------------------------------------------------------
(* Properties *)

\* "OK" means that what GEN wrote was answered, to the last pair: although an
\* exit status of 0 is also what a child killed by a signal seems to have.
OkMeansAnswered == result = 0 => pipe = <<>> /\ Len(answers) = Len(sent)

\* The answer to a pair: that both are prime, or their greatest common divisor.
RightAnswer(a, b) ==
    IF IsPrime(a) /\ IsPrime(b) THEN BothPrime ELSE GreatestCommonDivisor(a, b)

\* The k-th answer is to the k-th pair, and right, where neither number is 0.
\* Of 0 and another number the code answers 0, not that number, although the
\* comment in nsd (nsd.c:7) says "determine the greatest common divisor".
AnswersRight ==
    \A k \in DOMAIN answers :
        LET a == sent[k][1]
            b == sent[k][2]
        IN  a # 0 /\ b # 0 => answers[k] = RightAnswer(a, b)

\* All end in the end: NSD is told by the end of the pipe alone, which comes
\* when no process has kept the end that GEN writes to.
AllEnd ==
    <>(\A p \in Processes : pc[p] \in {"gone", "new"})
=============================================================================
