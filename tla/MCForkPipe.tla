----------------------------- MODULE MCForkPipe ------------------------------
(***************************************************************************)
(* Two pairs of ten, with primes, common divisors, equal numbers, 1 and 0, *)
(* through a pipe of one line.  The functions alone are compared with      *)
(* their definitions for all numbers up to 40, and the divisor for negative*)
(* ones.                                                                   *)
(***************************************************************************)
EXTENDS ForkPipe

MCPairs == {<<2, 3>>, <<4, 6>>, <<6, 4>>, <<6, 6>>, <<3, 6>>, <<1, 5>>, <<1, 1>>,
            <<9, 4>>, <<0, 4>>, <<0, 0>>}

ASSUME \A a, b \in 1 .. 40 : nsd(a, b) = GreatestCommonDivisor(a, b)
ASSUME \A a \in 0 .. 40 : Prime(a) <=> IsPrime(a)
\* With a 0 the result is not what the comment at nsd.c:7 says.
ASSUME \A b \in 2 .. 40 : nsd(0, b) = 0 /\ GreatestCommonDivisor(0, b) = b
ASSUME \A a, b \in 1 .. 12 : nsd(-a, b) = nsd(a, b) /\ nsd(a, -b) = nsd(a, b)
=============================================================================
