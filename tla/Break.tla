-------------------------------- MODULE Break --------------------------------
(***************************************************************************)
(* What sys_break promises a user program, with no pages, frames or page   *)
(* tables: a heap that starts at min, ends at brk and whose bytes are its  *)
(* own.  A legal lower break always succeeds; a higher one succeeds or     *)
(* leaves everything as it was; bytes that enter the heap read as zero,    *)
(* bytes that stay keep their value, and so does the stack.                *)
(***************************************************************************)
EXTENDS Integers

CONSTANTS
    Addrs,      \* user addresses
    StackAddrs, \* the addresses of the stack page
    Top,        \* the highest break a program may ask for (0xc0000000)
    Bytes,      \* values of a byte; 0 is one of them
    Sums        \* results of sys_sum, the other call that returns something

VARIABLES
    min,        \* lowest legal break
    brk,        \* current break
    ask,        \* the higher break being asked for, 0 when none is
    eax,        \* result of the last call
    cell        \* the program's memory; 0 where it has none

vars == <<min, brk, ask, eax, cell>>

Live(low, high, a) == a \in low .. high - 1 \/ a \in StackAddrs

Init ==
    /\ min \in 1 .. Top
    /\ brk = min
    /\ ask = 0
    /\ eax = 0
    /\ cell = [a \in Addrs |-> 0]

Write(a, byte) ==
    /\ Live(min, brk, a)
    /\ ask = 0
    /\ cell' = [cell EXCEPT ![a] = byte]
    /\ UNCHANGED <<min, brk, ask, eax>>

\* brk(0), an illegal address and sys_sum only set eax.
Answer(result) ==
    /\ ask = 0
    /\ eax' = result
    /\ UNCHANGED <<min, brk, ask, cell>>

Query   == Answer(brk)
Illegal == Answer(0)
Sum     == \E s \in Sums : Answer(s)

Move(a) ==
    /\ brk' = a
    /\ eax' = brk
    /\ cell' = [x \in Addrs |-> IF Live(min, a, x) THEN cell[x] ELSE 0]
    /\ ask' = 0
    /\ UNCHANGED min

Lower(a) == ask = 0 /\ a \in min .. brk /\ Move(a)

Ask(a) ==
    /\ ask = 0
    /\ a \in brk + 1 .. Top
    /\ ask' = a
    /\ UNCHANGED <<min, brk, eax, cell>>

Raise == ask # 0 /\ Move(ask)

Refuse ==
    /\ ask # 0
    /\ ask' = 0
    /\ eax' = 0
    /\ UNCHANGED <<min, brk, cell>>

Next ==
    \/ \E a \in Addrs, byte \in Bytes : Write(a, byte)
    \/ Query \/ Illegal \/ Sum
    \/ \E a \in min .. Top : Lower(a) \/ Ask(a)
    \/ Raise \/ Refuse

Spec == Init /\ [][Next]_vars
=============================================================================
