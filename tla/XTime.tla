------------------------------- MODULE XTime ------------------------------
(***************************************************************************)
(* The stopwatch of core/xtime.cc.  That start() finds it stopped, and     *)
(* stop() and diff_us() do not find it so wrongly, is asserted there; who  *)
(* uses it has to show it.                                                 *)
(***************************************************************************)
EXTENDS Naturals

Timer == [passed_us : Nat, active : BOOLEAN, cycles : Nat]

NewTimer == [passed_us |-> 0, active |-> FALSE, cycles |-> 0]

Start(t) == [t EXCEPT !.active = TRUE]

(* us: the microseconds between the two calls of gettimeofday().           *)
Stop(t, us) == [passed_us |-> t.passed_us + us, active |-> FALSE, cycles |-> t.cycles + 1]

DiffUs(t) == t.passed_us
=============================================================================
