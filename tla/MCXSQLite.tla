----------------------------- MODULE MCXSQLite -----------------------------
(* Instance of XSQLite for TLC: a table of two columns, inserted in both   *)
(* orders, partly, and not at all; statements that replace each other.     *)
EXTENDS XSQLite

CONSTANTS foo, bla, u

Lists == { <<>>, <<bla>>, <<bla, foo>> }
OneRow == << [c \in {foo, bla} |-> u] >>
=============================================================================
