------------------------------- MODULE Output --------------------------------
(***************************************************************************)
(* A character's way from a program's printf to the serial line: vprintf   *)
(* puts it into the 100-byte buffer of Console_kernel (user/lib), a        *)
(* newline or a full buffer calls sys_print, the kernel prints what the    *)
(* program points to one character at a time under printf_lock, and        *)
(* Console_serial waits for the line before each.  Beside it the other     *)
(* ways to the line: the message at boot, the one for an unknown system    *)
(* call, an exception, whose handler prints under the same lock, and       *)
(* panic, which prints without it and stops the machine.  The program has  *)
(* a printf_lock and a panic of its own.                                   *)
(***************************************************************************)
EXTENDS Printf, FiniteSets

CONSTANTS
    Programs,   \* what a program prints and how it ends, see Ends
    BufSize,    \* characters of Console_kernel::buf (100 in the code)
    Tickets,    \* values of each half of a Spinlock (256 in the code)
    Unmapped,   \* in a string: an address the program has not mapped
    None        \* no character in the transmitter

\* A call prints before, one conversion, after.  The program ends in an
\* endless loop, by returning from main, by a page fault of its own, in panic,
\* the last of its calls, or by one system call of its own before the loop:
\* sys_print with the string raw, or a number that is none.
Ends == {"loops", "returns", "faults", "panics", "prints", "unknown"}

Newline == "\n"
Return  == "\r"

\* With a flag for its conversion character the format ends inside it.
IsCall(call) ==
    /\ call.before \in Texts /\ call.after \in Texts
    /\ \A n \in DOMAIN call.before : call.before[n] # "%"
    /\ \A n \in DOMAIN call.after : call.after[n] # "%"
    /\ IsSpec(call.spec)
    /\ call.spec.conv \in DOMAIN DigitValue \cup {".", "#", "l"} => call.after = <<>>

ASSUME OutputAssumption ==
    /\ BufSize \in Nat \ {0} /\ Tickets \in Nat \ {0, 1} /\ Word > 4
    /\ {Newline, Return, "v", "u", "P", "U", "G", "r", "p", "d", "s", "c"} \subseteq Chars
    /\ Unmapped \notin Chars /\ None \notin Chars
    /\ \A p \in Programs :
          /\ p.ends \in Ends
          /\ p.raw \in Seq(Chars \cup {Unmapped})
          /\ p.calls \in Seq({call \in ToSet(p.calls) : IsCall(call)})

FormatOf(call) == call.before \o SpecText(call.spec) \o call.after

\* puts(s).
puts(s) ==
    [before |-> <<>>, after |-> <<Newline>>,
     spec |-> [alt |-> FALSE, zero |-> FALSE, width |-> 0, precs |-> 0,
               len |-> 0, conv |-> "s", args |-> <<s>>]]

VARIABLES
    program, serial,    \* the program; whether the machine has a serial port
    k,                  \* number of printf calls begun
    over,               \* its own system call was made
    todo,               \* characters vprintf has still to put
    buf,                \* Console_kernel::buf up to buf_len
    ulock,              \* the program's printf_lock, and the ticket it drew
    data, i,            \* sys_print's string, and the next of its characters
    pc,                 \* "boot"; "start", "main", "ulock", "putc"; "print",
                        \* "lock", "out"; "panic", "exc", "stopped"
    caller,             \* where the kernel's printf returns to
    report,             \* messages handle_exc has still to print
    out,                \* characters Console_serial has still to write
    lock,               \* the kernel's printf_lock, and the ticket it drew
    thr, term           \* the line's transmitter, and what came out of it

user   == <<k, over, todo, buf, ulock>>
string == <<data, i>>
vars == <<program, serial, user, string, pc, caller, report, out, lock, thr, term>>
fixed == <<program, serial>>

\* A Spinlock: two halves of a word count the tickets drawn and served.
Unlocked == [next |-> 0, serving |-> 0, ticket |-> 0]
Draw(l)  == [l EXCEPT !.ticket = l.next, !.next = (@ + 1) % Tickets]
Served(l) == l.serving = l.ticket
Leave(l) == [l EXCEPT !.serving = (@ + 1) % Tickets]

Init ==
    /\ program \in Programs /\ serial \in BOOLEAN
    /\ k = 0 /\ over = FALSE /\ todo = <<>> /\ buf = <<>> /\ ulock = Unlocked
    /\ data = <<>> /\ i = 1
    /\ pc = "boot" /\ caller = "boot" /\ report = <<>> /\ out = <<>>
    /\ lock = Unlocked
    /\ thr = None /\ term = <<>>
-----------------------------------------------------------------------------
(* The program *)

Kernel == <<string, caller, report, out, lock, thr, term>>

\* __init: console.init, then main.
StartProgram ==
    /\ pc = "start"
    /\ buf' = <<>>
    /\ pc' = "main"
    /\ UNCHANGED <<fixed, k, over, todo, ulock, Kernel>>

\* The call begun last is the one of panic.
InPanic(n) == program.ends = "panics" /\ n = Len(program.calls)

CallPrintf ==
    /\ pc = "main" /\ k < Len(program.calls)
    /\ k' = k + 1
    /\ LET call == program.calls[k + 1]
       IN  todo' = vprintf(FormatOf(call), call.spec.args)
    /\ IF InPanic(k + 1)
       THEN pc' = "putc" /\ UNCHANGED ulock
       ELSE pc' = "ulock" /\ ulock' = Draw(ulock)
    /\ UNCHANGED <<fixed, over, buf, Kernel>>

UserLock ==
    /\ pc = "ulock" /\ Served(ulock)
    /\ pc' = "putc"
    /\ UNCHANGED <<fixed, user, Kernel>>

PrintfReturns ==
    /\ pc = "putc" /\ todo = <<>> /\ ~ InPanic(k)
    /\ pc' = "main"
    /\ ulock' = Leave(ulock)
    /\ UNCHANGED <<fixed, k, over, todo, buf, Kernel>>

\* sysenter with the string in esi and edi: the kernel starts at its first
\* character.
Sysenter(s, from) ==
    /\ data' = s /\ i' = 1
    /\ pc' = "print" /\ caller' = from
    /\ UNCHANGED <<report, out, lock, thr, term>>

\* Mutant: only a full buffer is written.
Flushes_WhenFull(b) == Len(b) = BufSize

Flushes(b) == Last(b) = Newline \/ Len(b) = BufSize

\* Console_kernel::putc.
putc ==
    /\ pc = "putc" /\ todo # <<>>
    /\ buf' = Append(buf, Head(todo))
    /\ todo' = Tail(todo)
    /\ IF Flushes(buf')
       THEN Sysenter(buf', "putc")
       ELSE UNCHANGED <<pc, Kernel>>
    /\ UNCHANGED <<fixed, k, over, ulock>>

AtEnd(end) == pc = "main" /\ k = Len(program.calls) /\ program.ends = end

RawPrint ==
    /\ AtEnd("prints") /\ ~ over
    /\ over' = TRUE
    /\ Sysenter(program.raw, "main")
    /\ UNCHANGED <<fixed, k, todo, buf, ulock>>
-----------------------------------------------------------------------------
(* The kernel *)

Kvprintf(format, args) == vprintf(format, args)

\* What Console_serial::putc writes for a text; nothing without a port.
Serial(text) ==
    FlattenSeq([n \in 1 .. Len(text) |->
        IF text[n] = Newline THEN <<Return, Newline>> ELSE <<text[n]>>])

Written(text) == IF serial THEN Serial(text) ELSE <<>>

\* printf draws a ticket of printf_lock and will print text.
BeginPrintf(text, from) ==
    /\ lock' = Draw(lock)
    /\ out' = Written(text)
    /\ pc' = "lock" /\ caller' = from
    /\ UNCHANGED <<thr, term>>

\* init, of which only the message matters here.
Greeting == Kvprintf(<<"%", "s", Newline>>, <<<<"v">>>>)
Boot ==
    /\ pc = "boot"
    /\ BeginPrintf(Greeting, "start")
    /\ UNCHANGED <<fixed, user, string, report>>

\* The system call has no string: it returns where sys_print does.
Unknown == Kvprintf(<<"u", "%", "d", Newline>>, <<4>>)
UnknownCall ==
    /\ AtEnd("unknown") /\ ~ over
    /\ over' = TRUE
    /\ data' = <<>> /\ i' = 1
    /\ BeginPrintf(Unknown, "main")
    /\ UNCHANGED <<fixed, k, todo, buf, ulock, report>>

\* handle_exc's messages, for an exception with the vector's name and cr2.
ExcMessages(name, cr2) ==
    <<Kvprintf(<<"%", "s", " ", "%", "#", "l", "x", Newline>>, <<name, cr2>>),
      <<"r", Newline>>, <<"r", Newline>>>>
PanicText == <<"p", Newline>>

\* SAVE_STATE and exc_handler.
Exception(name, cr2) ==
    /\ report' = ExcMessages(name, cr2)
    /\ pc' = "exc"
    /\ UNCHANGED <<out, caller, thr, term>>

PageFault(cr2) == Exception(<<"P">>, cr2)
PageFaultAddr == 3
UndefinedOpcode == Exception(<<"U">>, 0)
GeneralProtection == Exception(<<"G">>, 0)

\* Mutant: the character is read with the lock held.
PrintChar_ReadsInside ==
    /\ pc = "print" /\ i <= Len(data)
    /\ IF data[i] = Unmapped
       THEN /\ PageFault(PageFaultAddr)
            /\ lock' = Draw(lock)
            /\ UNCHANGED string
       ELSE /\ BeginPrintf(Kvprintf(<<"%", "c">>, <<data[i]>>), caller)
            /\ i' = i + 1
            /\ UNCHANGED <<data, report>>
    /\ UNCHANGED <<fixed, user>>

\* One turn of sys_print's loop: data[i], an argument, is read before printf
\* takes the lock.
PrintChar ==
    /\ pc = "print" /\ i <= Len(data)
    /\ IF data[i] = Unmapped
       THEN PageFault(PageFaultAddr) /\ UNCHANGED <<string, lock>>
       ELSE /\ BeginPrintf(Kvprintf(<<"%", "c">>, <<data[i]>>), caller)
            /\ i' = i + 1
            /\ UNCHANGED <<data, report>>
    /\ UNCHANGED <<fixed, user>>

\* The end of the string: sysexit.  write_to_terminal's caller, putc, empties
\* its buffer.
PrintReturns ==
    /\ pc = "print" /\ i > Len(data)
    /\ pc' = caller
    /\ buf' = IF caller = "putc" THEN <<>> ELSE buf
    /\ data' = IF caller = "putc" THEN <<>> ELSE data
    /\ i' = IF caller = "putc" THEN 1 ELSE i
    /\ UNCHANGED <<fixed, k, over, todo, ulock, caller, report, out, lock, thr, term>>

\* A store to an address that is not mapped, as in pagefault.c.
UserFault ==
    /\ AtEnd("faults")
    /\ PageFault(PageFaultAddr)
    /\ UNCHANGED <<fixed, user, string, lock>>

\* main returns to the ud2 of start.S.
MainReturns ==
    /\ AtEnd("returns")
    /\ UndefinedOpcode
    /\ UNCHANGED <<fixed, user, string, lock>>

\* The program's panic has printed: the hlt of its Cpu::shutdown is one that
\* only the kernel may execute.
UserShutdown ==
    /\ pc = "putc" /\ todo = <<>> /\ InPanic(k)
    /\ GeneralProtection
    /\ UNCHANGED <<fixed, user, string, lock>>

HandleExc ==
    /\ pc = "exc"
    /\ IF report # <<>>
       THEN BeginPrintf(Head(report), "exc") /\ report' = Tail(report)
       ELSE /\ pc' = "panic"
            /\ out' = Written(PanicText)
            /\ UNCHANGED <<caller, report, lock, thr, term>>
    /\ UNCHANGED <<fixed, user, string>>

Lock ==
    /\ pc = "lock" /\ Served(lock)
    /\ pc' = "out"
    /\ UNCHANGED <<fixed, user, string, caller, report, out, lock, thr, term>>

Unlock ==
    /\ pc = "out" /\ out = <<>>
    /\ lock' = Leave(lock)
    /\ pc' = IF caller \in {"start", "exc"} THEN caller ELSE "print"
    /\ UNCHANGED <<fixed, user, string, caller, report, out, thr, term>>

\* Console_serial::putc: wait for the line status, write one character.
WriteReg ==
    /\ pc \in {"out", "panic"} /\ out # <<>>
    /\ thr = None
    /\ thr' = Head(out) /\ out' = Tail(out)
    /\ UNCHANGED <<fixed, user, string, pc, caller, report, lock, term>>

Shutdown ==
    /\ pc = "panic" /\ out = <<>>
    /\ pc' = "stopped"
    /\ UNCHANGED <<fixed, user, string, caller, report, out, lock, thr, term>>

\* The line sends the character it was given.
Transmit ==
    /\ thr # None
    /\ term' = Append(term, thr) /\ thr' = None
    /\ UNCHANGED <<fixed, user, string, pc, caller, report, out, lock>>

Processor ==
    \/ Boot \/ StartProgram
    \/ CallPrintf \/ UserLock \/ putc \/ PrintfReturns
    \/ RawPrint \/ UnknownCall \/ UserFault \/ MainReturns \/ UserShutdown
    \/ PrintChar \/ PrintReturns \/ HandleExc \/ Lock \/ Unlock
    \/ WriteReg \/ Shutdown

Next == Processor \/ Transmit

\* The processor takes its next step, and a serial line sends.
Spec == Init /\ [][Next]_vars /\ WF_vars(Processor) /\ WF_vars(Transmit)
-----------------------------------------------------------------------------
(* Properties *)

\* A call's characters: what C says where this printf promises that.
Meant(call) ==
    IF Standard(call.spec)
    THEN call.before \o CText(call.spec) \o call.after
    ELSE vprintf(FormatOf(call), call.spec.args)

\* The characters the program has put so far, and those it has handed over.
Printed ==
    LET all == FlattenSeq([n \in 1 .. k |-> Meant(program.calls[n])])
    IN  SubSeq(all, 1, Len(all) - Len(todo))
HandedOver == SubSeq(Printed, 1, Len(Printed) - Len(buf))
Held       == SubSeq(Printed, Len(HandedOver) + 1, Len(Printed))

Crashed == pc \in {"exc", "panic", "stopped"} \/ caller = "exc"

\* The name of the exception comes from how the program ended.
AllMessages ==
    CASE program.ends = "returns" -> ExcMessages(<<"U">>, 0)
      [] program.ends = "panics"  -> ExcMessages(<<"G">>, 0)
      [] OTHER -> ExcMessages(<<"P">>, PageFaultAddr)

Reported ==
    IF ~ Crashed THEN <<>>
    ELSE FlattenSeq(SubSeq(AllMessages, 1, Len(AllMessages) - Len(report)))
         \o (IF pc \in {"panic", "stopped"} THEN PanicText ELSE <<>>)

Greeted == IF pc = "boot" THEN <<>> ELSE Greeting
Refused == IF over /\ program.ends = "unknown" THEN Unknown ELSE <<>>

\* What left the kernel for the line, sent or not, is its greeting and exactly
\* what the program printed, in order, once, each newline after a return, up to
\* the character the kernel is at, the answer to an unknown system call, and
\* after a crash the handler's messages with the name of the exception and the
\* address: no character is lost, doubled or overwritten in the transmitter on
\* the way.
TerminalShows ==
    term \o (IF thr = None THEN <<>> ELSE <<thr>>) \o out
    = Written(Greeted \o HandedOver \o SubSeq(data, 1, i - 1)
              \o Refused \o Reported)

\* Between calls, and when the machine has stopped, what is still in the
\* buffer and may be lost is less than a buffer of an unfinished line.
LosesOnlyLastLine ==
    pc \in {"main", "exc", "panic", "stopped"} =>
        Len(Held) < BufSize /\ \A n \in DOMAIN Held : Held[n] # Newline

\* A program that ends in a loop gets there, and every other one, whatever it
\* was doing, is stopped with all messages on the line: no exception is taken
\* while the kernel holds printf_lock, which its handler needs.
Finishes ==
    <>(/\ thr = None
       /\ \/ pc = "stopped"
          \/ AtEnd("loops")
          \/ \E end \in {"prints", "unknown"} : AtEnd(end) /\ over)
=============================================================================
