------------------------------- MODULE Backoff -------------------------------
(***************************************************************************)
(* The delay both workers put between two attempts.  Delays are counted in *)
(* ticks, far from the width of a Duration, so the shift never overflows.  *)
(***************************************************************************)
EXTENDS Integers

Least(a, b) == IF a < b THEN a ELSE b

\* Mutant of backoffDelay: the cap is forgotten.
backoffUncapped(attempts, base, max) ==
    LET n == IF attempts < 1 THEN 1 ELSE attempts IN base * 2^(n - 1)

\* The delay doubles with each attempt up to the cap.
backoffDelay(attempts, base, max) ==
    LET n == IF attempts < 1 THEN 1 ELSE attempts
    IN  Least(base * 2^(n - 1), max)
=============================================================================
