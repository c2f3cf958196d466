------------------------------ MODULE NumReader -------------------------------
(***************************************************************************)
(* hw7/hw7.c: a program without a C library that prints in base 16 each    *)
(* decimal number of its input.  It reads at most BufSize bytes at a time  *)
(* and gets as many as the kernel likes, so a number may be spread over    *)
(* several reads; a number is a word, 2^32 there, and wraps.               *)
(*                                                                         *)
(* A character is a digit's value, Space (a blank or a newline) or Other.  *)
(* The output is the sequence of what the calls of my_write wrote.         *)
(* Names that ForkPipe has too begin with Reader: one module of proofs is  *)
(* about both.                                                             *)
(***************************************************************************)
EXTENDS Integers, SequencesExt

CONSTANTS
    Digits,         \* the digits that occur in the input
    Space, Other,   \* the other characters
    MaxInput,       \* bound on the input's length
    BufSize,        \* size of _start's buffer
    WordSize        \* a number is kept modulo this

ASSUME NumReaderAssumption ==
    /\ Digits \subseteq 0 .. 9 /\ Space \notin Digits /\ Other \notin Digits \cup {Space}
    /\ MaxInput \in Nat /\ BufSize \in Nat \ {0} /\ WordSize \in Nat \ {0}

Inputs == SeqOf(Digits \cup {Space, Other}, MaxInput)

VARIABLES
    at,             \* "top" or "body" of the loop, a write of print, or "exited"
    unread,         \* what the kernel has of the input
    buf,            \* buf[i] and the characters after it: chars_in_buffer of them
    num, num_digits,
    code,           \* exit code
    output,         \* what was written
    \* history:
    input, lost     \* the whole input; a write failed unnoticed

ReaderVars == <<at, unread, buf, num, num_digits, code, output, input, lost>>

ReaderInit ==
    /\ input \in Inputs /\ unread = input
    /\ at = "top" /\ buf = <<>> /\ num = 0 /\ num_digits = 0
    /\ code = 0 /\ output = <<>> /\ lost = FALSE

isnum(ch) == ch \in Digits
isspc(ch) == ch = Space

my_exit(c) == at' = "exited" /\ code' = c

\* Mutant: a read of nothing is tried again.
my_read_Retries ==
    /\ at = "top" /\ buf = <<>>
    /\ \E n \in 1 .. Min({BufSize, Len(unread)}) :
          /\ buf' = SubSeq(unread, 1, n)
          /\ unread' = SubSeq(unread, n + 1, Len(unread))
    /\ at' = "body"
    /\ UNCHANGED <<num, num_digits, code, output, input, lost>>

\* Any number of bytes up to what there is and what fits: 0 only at the end of
\* the input.
my_read ==
    /\ at = "top" /\ buf = <<>>
    /\ \E n \in 0 .. Min({BufSize, Len(unread)}) :
          /\ n = 0 => unread = <<>>
          /\ buf' = SubSeq(unread, 1, n)
          /\ unread' = SubSeq(unread, n + 1, Len(unread))
    /\ at' = "body"
    /\ UNCHANGED <<num, num_digits, code, output, input, lost>>

ReadFails ==
    /\ at = "top" /\ buf = <<>>
    /\ my_exit(1)
    /\ UNCHANGED <<unread, buf, num, num_digits, output, input, lost>>

NoRead ==
    /\ at = "top" /\ buf # <<>>
    /\ at' = "body"
    /\ UNCHANGED <<unread, buf, num, num_digits, code, output, input, lost>>

\* Mutant: the end of a read ends a number.
NumberEnds_WithRead == num_digits > 0 /\ (Len(buf) <= 1 \/ ~isnum(buf[1]))

NumberEnds == num_digits > 0 /\ (buf = <<>> \/ ~isnum(buf[1]))

\* The loop's body: a number that ends here is printed first, and then the same
\* character is looked at again.
Body ==
    /\ at = "body"
    /\ IF NumberEnds
       THEN at' = "start" /\ UNCHANGED <<buf, num, num_digits, code>>
       ELSE IF buf = <<>> \/ (~isspc(buf[1]) /\ ~isnum(buf[1]))
       THEN my_exit(0) /\ UNCHANGED <<buf, num, num_digits>>
       ELSE /\ IF isnum(buf[1])
               THEN num' = (num * 10 + buf[1]) % WordSize /\ num_digits' = num_digits + 1
               ELSE UNCHANGED <<num, num_digits>>
            /\ buf' = Tail(buf)
            /\ at' = "top" /\ UNCHANGED code
    /\ UNCHANGED <<unread, output, input, lost>>
-----------------------------------------------------------------------------
(* print: three writes                                                      *)

\* The digits of n in base 16, the last one first.
LowDigits[n \in Nat] == IF n = 0 THEN <<>> ELSE <<n % 16>> \o LowDigits[n \div 16]

HexDigits(n) == IF n = 0 THEN <<0>> ELSE Reverse(LowDigits[n])

Prefix  == <<-1>>   \* "0x" and a null character
NewLine == <<-2>>   \* a newline and a null character

\* The call writes what it is given and the program goes on there.  The raw
\* system call returns minus the error's number: -1 is only one of them, and
\* any other, or a short count, passes for success.
my_write(bytes, there) ==
    \/ /\ output' = Append(output, bytes)
       /\ at' = there /\ UNCHANGED <<code, lost>>
    \/ my_exit(1) /\ UNCHANGED <<output, lost>>
    \/ lost' = TRUE /\ at' = there /\ UNCHANGED <<output, code>>

print ==
    \/ /\ at = "start" /\ my_write(Prefix, "digits")
       /\ UNCHANGED <<unread, buf, num, num_digits, input>>
    \/ /\ at = "digits" /\ my_write(HexDigits(num), "end")
       /\ UNCHANGED <<unread, buf, num, num_digits, input>>
    \/ /\ at = "end" /\ my_write(NewLine, "body")
       /\ IF at' = "body" THEN num' = 0 /\ num_digits' = 0
          ELSE UNCHANGED <<num, num_digits>>
       /\ UNCHANGED <<unread, buf, input>>
-----------------------------------------------------------------------------
Run == my_read \/ NoRead \/ Body \/ print

ReaderNext == Run \/ ReadFails

\* The program runs on; a read need not fail.
ReaderSpec == ReaderInit /\ [][ReaderNext]_ReaderVars /\ WF_ReaderVars(Run)
-----------------------------------------------------------------------------
(* Properties *)

\* The number that digits stand for.
Digital(digits, base) ==
    LET upTo[n \in 0 .. Len(digits)] ==
            IF n = 0 THEN 0 ELSE upTo[n - 1] * base + digits[n]
    IN  upTo[Len(digits)]

\* The numbers of an input: its runs of digits before the first other character.
Cut(s) == Min({i \in DOMAIN s : s[i] = Other} \cup {Len(s) + 1})

Starts(s) == {i \in 1 .. Cut(s) - 1 : isnum(s[i]) /\ (i > 1 => ~isnum(s[i - 1]))}

Ends(s, i) == Min({j \in i .. Cut(s) : j = Cut(s) \/ ~isnum(s[j])})

Value(s, i) == Digital(SubSeq(s, i, Ends(s, i) - 1), 10)

UpTo(s, i) == {j \in Starts(s) : j <= i}

Numbers(s) ==
    [n \in 1 .. Cardinality(Starts(s)) |->
        Value(s, CHOOSE i \in Starts(s) : Cardinality(UpTo(s, i)) = n) % WordSize]

\* d is n in base 16, with no zero in front.
IsHex(d, n) ==
    /\ d \in Seq(0 .. 15) /\ d # <<>> /\ (d[1] = 0 => Len(d) = 1)
    /\ n = Digital(d, 16)

\* Whatever the reads return, what is written is the numbers of the whole input
\* in their order, as far as they go, and all of them if the program exits with
\* 0: unless a failed write went unnoticed.
PrintsNumbers ==
    ~lost =>
        LET numbers == Numbers(input)
        IN  /\ Len(output) <= 3 * Len(numbers)
            /\ \A k \in DOMAIN output :
                    CASE k % 3 = 1 -> output[k] = Prefix
                      [] k % 3 = 2 -> IsHex(output[k], numbers[(k + 1) \div 3])
                      [] k % 3 = 0 -> output[k] = NewLine
            /\ at = "exited" /\ code = 0 => Len(output) = 3 * Len(numbers)

\* The program exits, since a read of nothing is the end of the input.
Exits == <>(at = "exited")
=============================================================================
