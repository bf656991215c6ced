----------------------------- MODULE MCExecutor ----------------------------
(* Instance of Executor for TLC: scripts that fill a pipe, wait for lines  *)
(* or for the end of stdin, print a NUL, exit and die.                     *)
EXTENDS Executor

CONSTANTS x, y

Do(op, arg) == [op |-> op, arg |-> arg]

Scripts == {
    <<Do("out", x), Do("out", y), Do("out", x), Do("exit", 0)>>,
    <<Do("err", x), Do("err", x), Do("err", y), Do("out", y), Do("exit", 3)>>,
    <<Do("line", 0), Do("out", x), Do("line", 0), Do("die", 9)>>,
    <<Do("out", NUL), Do("out", x), Do("eof", 0), Do("exit", 0)>> }
=============================================================================
