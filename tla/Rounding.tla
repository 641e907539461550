------------------------------- MODULE Rounding -------------------------------
(***************************************************************************)
(* The decimals of the business modules as integers: a quantity is counted *)
(* in the last place it is kept to, and quantize(..., ROUND_HALF_UP) is a  *)
(* division.                                                               *)
(***************************************************************************)
EXTENDS Integers, Sequences, SequencesExt, FiniteSetsExt

\* n / d to the nearest integer, a half away from zero; d is positive.
HalfUp(n, d) == IF n >= 0 THEN (2 * n + d) \div (2 * d) ELSE -((d - 2 * n) \div (2 * d))

\* A half to the even neighbour.
HalfEven(n, d) ==
    IF 2 * n % (2 * d) = d /\ (n \div d) % 2 = 0 THEN n \div d ELSE HalfUp(n, d)

AtLeastZero(n) == IF n > 0 THEN n ELSE 0

=============================================================================
