------------------------------ MODULE Rounding ------------------------------
(***************************************************************************)
(* Python's round() of a quotient, as the cadence estimator uses it:       *)
(* nearest integer, ties to the even neighbour.  Time is in integer ticks. *)
(***************************************************************************)
EXTENDS Integers

AtLeast(low, n) == IF n < low THEN low ELSE n

RoundHalfEven(n, d) ==
    LET q == n \div d
        r == n % d
    IN  IF 2 * r < d \/ (2 * r = d /\ q % 2 = 0) THEN q ELSE q + 1
=============================================================================
