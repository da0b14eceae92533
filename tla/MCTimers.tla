------------------------------ MODULE MCTimers ------------------------------
(***************************************************************************)
(* Up to three users, two of them with one period.  In words of 8 a period *)
(* of 2 divides the word, as one of a power of two divides 2^32, and one   *)
(* of 3 does not.                                                          *)
(***************************************************************************)
EXTENDS Timers

CONSTANT u3

Periods == [u \in Users |-> IF u = u3 THEN 3 ELSE 2]

=============================================================================
