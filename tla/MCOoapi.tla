------------------------------ MODULE MCOoapi ------------------------------
(* XSQLite and TestingSuite, which share no state, checked together: a     *)
(* behaviour is one of a single component, which the initial state         *)
(* chooses, and neither component has more than one initial state.         *)
EXTENDS MCXSQLite, MCTestingSuite

VARIABLE component

ooapiVars == <<component, sqliteVars, vars>>

OoapiInit ==
    /\ component \in {"xsqlite", "testing_suite"}
    /\ SQLiteInit /\ Init

OoapiNext ==
    \/ component = "xsqlite" /\ SQLiteNext /\ UNCHANGED <<component, vars>>
    \/ component = "testing_suite" /\ Next /\ UNCHANGED <<component, sqliteVars>>

OoapiSpec == OoapiInit /\ [][OoapiNext]_ooapiVars
=============================================================================
