----------------------------- MODULE MCXLogger -----------------------------
(* Instance of XLogger for TLC: one logger id, registered again after each *)
(* destruction, and a backend of each class that differs from the others.  *)
(* The buffer holds two short messages; the message of the callback is     *)
(* longer than it.                                                         *)
EXTENDS XLogger

CONSTANTS bf, pf, con, short, blank

TheBackends == {bf, pf, con}
TheEntries  == {short, blank, Header, Bye, Acted}
TheKinds    == [b \in TheBackends |->
                   CASE b = bf -> "buffered" [] b = pf -> "persistent"
                     [] b = con -> "console"]
TheBufSizes == [b \in TheBackends |-> 2]
TheSizes    == [e \in TheEntries |-> IF e = Acted THEN 3 ELSE 1]
=============================================================================
