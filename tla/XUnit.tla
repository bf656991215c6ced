------------------------------- MODULE XUnit ------------------------------
(***************************************************************************)
(* core/xunit.cc: a quantity is shown with the SI prefix that brings its   *)
(* number between 1 and 1000.  A number is a fraction of naturals, n / d;  *)
(* its decimals, its padding and the table of prefixes are left out.       *)
(***************************************************************************)
EXTENDS Fractions

CONSTANT Kilo       \* 1000, and a smaller number for TLC, whose integers have 32 bits

ASSUME XUnitAssumption == Kilo \in Nat /\ Kilo > 1

Scaled == [data : Fraction, exponent : Int]

upper == Whole(Kilo)
lower == Whole(1)

(* The two loops: dividing leaves more than lower, multiplying at most     *)
(* upper, so the one never follows the other.                              *)
si_scale[x \in Scaled] ==
    LET c == x.data IN
    IF c.n = 0 THEN x
    ELSE IF ~ Leq(c, upper)
         THEN si_scale[[data |-> [c EXCEPT !.d = Kilo * @], exponent |-> x.exponent + 3]]
    ELSE IF ~ Leq(lower, c)
         THEN si_scale[[data |-> [c EXCEPT !.n = Kilo * @], exponent |-> x.exponent - 3]]
    ELSE x

XUnit(data, has_exp) == si_scale[[data |-> data, exponent |-> has_exp]]
=============================================================================
