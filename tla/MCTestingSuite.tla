--------------------------- MODULE MCTestingSuite -------------------------
(* Instance of TestingSuite for TLC: a suite of two tests and an empty     *)
(* one; all, one or none of the tests asked for; up to three rounds.       *)
EXTENDS TestingSuite

CONSTANTS a, b

Suites == << <<a, b>>, <<>> >>
Asking == {{a, b}, {b}, {}}
Rounds == {0, 1, 2, 3}
Times  == {0, 4}
=============================================================================
