------------------------------- MODULE Divisors -------------------------------
(***************************************************************************)
(* nd and nsd of hw4, with the answer nsd_main.c gives to a pair, and the  *)
(* definitions they are meant to compute.  Both search downwards and keep  *)
(* the start of the search, 0 or 1, when they find nothing above 1.        *)
(***************************************************************************)
EXTENDS Integers, FiniteSetsExt

Abs(a) == IF a < 0 THEN -a ELSE a

Divides(r, a) == Abs(a) % r = 0

\* The first r of start, start - 1, ... 2 in S, or start or 1 if there is none.
SearchDown(start, S) ==
    IF S \cap (2 .. start) # {} THEN Max(S \cap (2 .. start)) ELSE Min({start, 1})

nd(a) ==
    IF a = 1 THEN 1
    ELSE LET half == Abs(a) \div 2 IN SearchDown(half, {r \in 2 .. half : Divides(r, a)})

nsd(a, b) ==
    LET start == Min({Abs(a), Abs(b)})
    IN  SearchDown(start, {r \in 2 .. start : Divides(r, a) /\ Divides(r, b)})

Prime(a) == a # 1 /\ nd(a) = 1

\* What NSD writes for a pair: 0 stands for the line "Both a and b are prime".
BothPrime == -1

\* Mutant: one prime is enough for that line.
Answer_EitherPrime(a, b) == IF Prime(a) \/ Prime(b) THEN BothPrime ELSE nsd(a, b)

Answer(a, b) == IF Prime(a) /\ Prime(b) THEN BothPrime ELSE nsd(a, b)
-----------------------------------------------------------------------------
(* The definitions *)

IsPrime(a) == a > 1 /\ \A r \in 2 .. a - 1 : a % r # 0

GreatestCommonDivisor(a, b) ==
    Max({r \in 1 .. Max({a, b}) : a % r = 0 /\ b % r = 0})
=============================================================================
