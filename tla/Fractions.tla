----------------------------- MODULE Fractions ----------------------------
(***************************************************************************)
(* Numbers n / d, which stand for the floating-point numbers of the code;  *)
(* their rounding is left out.                                             *)
(***************************************************************************)
EXTENDS Integers, FiniteSetsExt

Fraction == [n : Int, d : Nat \ {0}]
Whole(k) == [n |-> k, d |-> 1]

Leq(x, y)   == x.n * y.d <= y.n * x.d
Equal(x, y) == x.n * y.d = y.n * x.d

Minus(x, y) == [n |-> x.n * y.d - y.n * x.d, d |-> x.d * y.d]
Abs(x) == [x EXCEPT !.n = IF @ < 0 THEN -@ ELSE @]

Reduced(x) ==
    LET common == {k \in 1..x.d : x.d % k = 0 /\ x.n % k = 0} IN
    [n |-> x.n \div Max(common), d |-> x.d \div Max(common)]

(* The powers of b.                                                        *)
power(b) == LET p[e \in Nat] == IF e = 0 THEN 1 ELSE b * p[e - 1] IN p
=============================================================================
