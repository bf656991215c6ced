------------------------------ MODULE XSQLite ------------------------------
(***************************************************************************)
(* XSQLite and SQLResult (ooapi/xsqlite.cc): one connection to a database  *)
(* with one table, the statement it is about to execute, and results that  *)
(* share statements with it.                                               *)
(*                                                                         *)
(* sqlite3 is external: a statement is prepared, or that fails; it takes   *)
(* values while it is ready; a step gives a row, is done, or fails, and    *)
(* starts anew if the last one was done or failed; finalizing ends it, and *)
(* what is done with it later is undefined.  The null statement is taken   *)
(* for misuse, which is an error.                                          *)
(***************************************************************************)
EXTENDS Integers, Sequences, SequencesExt

CONSTANTS
    Column, Value, Null,    \* of the table
    ColumnList,     \* lists of columns that init_insert and init_update are given
    Script,         \* the rows that the file of exec_sql_fn() inserts
    MaxStmt, MaxRow, MaxResult      \* bounds: statements, rows, results

VARIABLES
    x,              \* the object: state, stmt (0 is nullptr), next_idx, last_insert_id
    stmts,          \* all statements there ever were
    table,          \* the rows
    results,        \* SQLResults: stmt, started, and (history) whether stmt was gone
                    \* when select() handed it out
    outcome,        \* of the last call: "returned", "thrown", "undefined"
    open,           \* the object exists
    asked           \* history: the calls of bind() without an index since the last
                    \* reset, and the values bound, by column

sqliteVars == <<x, stmts, table, results, outcome, open, asked>>

ASSUME NullAssumption == Null \notin Value
ASSUME ColumnsAssumption ==
    ColumnList \subseteq Seq(Column) /\ \A l \in ColumnList : IsInjective(l)

Row == [Column -> Value \cup {Null}]

ASSUME ScriptAssumption == Script \in Seq(Row)

Nothing == [calls |-> 0, value |-> [i \in {} |-> Null]]

-----------------------------------------------------------------------------
(* sqlite3                                                                 *)

(* A statement prepared by the method `by'; raw ones are selections.       *)
Prepared(by, cols) ==
    [by |-> by, cols |-> cols, bound |-> [i \in 1..Len(cols) |-> Null],
     at |-> "ready", row |-> 0, finalized |-> FALSE]

Gone(s) == s # 0 /\ stmts[s].finalized
Live(s) == s # 0 /\ ~stmts[s].finalized

(* What a step of statement s may return.                                  *)
Codes(s) ==
    CASE stmts[s].by \in {"insert", "update"} -> {"done", "error"}
      [] stmts[s].by = "pragma"               -> {"done", "error", "row"}
      [] stmts[s].by \in {"select", "raw"}    ->
            IF stmts[s].row < Len(table) THEN {"row", "error"} ELSE {"done", "error"}

Stepped(s, ret) ==
    [stmts EXCEPT ![s].at = IF ret = "row" THEN "row" ELSE "halted",
                  ![s].row = IF ret = "row" THEN @ + 1 ELSE 0]

(* Nothing is left of it but what it was.                                  *)
Finalized(s) == [stmts EXCEPT ![s] = [Prepared(@.by, <<>>) EXCEPT !.finalized = TRUE]]

Position(cols, c) == CHOOSE i \in 1..Len(cols) : cols[i] = c

(* A row, overwritten with values for these columns.                       *)
Overwritten(row, cols, bound) ==
    [c \in Column |-> IF c \in ToSet(cols) THEN bound[Position(cols, c)] ELSE row[c]]

(* The table when statement s is done.                                     *)
Executed(s) ==
    LET stmt == stmts[s]
    IN  CASE stmt.by = "insert" ->
               Append(table, Overwritten([c \in Column |-> Null], stmt.cols, stmt.bound))
          [] stmt.by = "update" ->
               [i \in 1..Len(table) |-> Overwritten(table[i], stmt.cols, stmt.bound)]
          [] OTHER -> table

-----------------------------------------------------------------------------
SQLiteInit ==
    /\ x = [state |-> "ready", stmt |-> 0, next_idx |-> 0, last_insert_id |-> -1]
    /\ stmts = <<>> /\ table = <<>> /\ results = <<>>
    /\ outcome = "returned" /\ open = TRUE
    /\ asked = Nothing

Usable == open /\ outcome # "undefined"

ThrowError == outcome' = "thrown" /\ UNCHANGED <<x, stmts, table, results, open, asked>>

(* A finalized statement is used: anything may follow.                     *)
Undefined == outcome' = "undefined" /\ UNCHANGED <<x, stmts, table, results, open, asked>>

\* Mutant: next_idx is not set back.
WithoutQueryKeepingIndex(o) == [o EXCEPT !.state = "ready"]

(* reset()                                                                 *)
WithoutQuery(o) == [o EXCEPT !.state = "ready", !.next_idx = 0]

Reset ==
    /\ Usable
    /\ x' = WithoutQuery(x) /\ asked' = Nothing
    /\ outcome' = "returned"
    /\ UNCHANGED <<stmts, table, results, open>>

\* Mutant: what could not be prepared is taken for a statement.
InitRawQueryUnprepared(o, by, cols) ==
    /\ x' = [o EXCEPT !.stmt = Len(stmts) + 1, !.state = "inited"]
    /\ \/ /\ Len(stmts) < MaxStmt
          /\ stmts' = Append(stmts, Prepared(by, cols))
          /\ outcome' = "returned"
       \/ outcome' = "thrown" /\ UNCHANGED stmts

(* init_raw_query() of the object o: an error leaves the null statement    *)
(* behind, and the state as it was.                                        *)
InitRawQuery(o, by, cols) ==
    \/ /\ Len(stmts) < MaxStmt
       /\ stmts' = Append(stmts, Prepared(by, cols))
       /\ x' = [o EXCEPT !.stmt = Len(stmts) + 1, !.state = "inited"]
       /\ outcome' = "returned"
    \/ /\ x' = [o EXCEPT !.stmt = 0]
       /\ outcome' = "thrown"
       /\ UNCHANGED stmts

InitRaw ==
    /\ Usable
    /\ InitRawQuery(x, "raw", <<>>)
    /\ UNCHANGED <<table, results, open, asked>>

(* init_insert() and init_update(); no column at all is a syntax error.    *)
InitWrite(by, cols) ==
    /\ Usable
    /\ InitRawQuery(WithoutQuery(x), by, cols)
    /\ cols = <<>> => outcome' = "thrown"
    /\ asked' = Nothing
    /\ UNCHANGED <<table, results, open>>

(* init_select() finalizes what it has just prepared.                      *)
InitSelect ==
    /\ Usable
    /\ asked' = Nothing
    /\ \/ /\ Len(stmts) < MaxStmt
          /\ stmts' = Append(stmts, [Prepared("select", <<>>) EXCEPT !.finalized = TRUE])
          /\ x' = [WithoutQuery(x) EXCEPT !.stmt = Len(stmts) + 1, !.state = "inited"]
          /\ outcome' = "returned"
       \/ /\ x' = [WithoutQuery(x) EXCEPT !.stmt = 0]
          /\ outcome' = "thrown"
          /\ UNCHANGED stmts
    /\ UNCHANGED <<table, results, open>>

(* What the caller may expect of a call of bind(): without an index it is  *)
(* the one for the next column.                                            *)
Noted(idx, v, taken) ==
    LET calls == asked.calls + IF idx = -1 THEN 1 ELSE 0
        at == IF idx = -1 THEN calls ELSE idx + 1
    IN  [calls |-> calls,
         value |-> IF taken THEN [k \in DOMAIN asked.value \cup {at} |->
                                     IF k = at THEN v ELSE asked.value[k]]
                   ELSE asked.value]

(* bind(data, idx), with -1 for "the next one", and bind() of a null; up to *)
(* one value more than there are columns (a bound).                        *)
Bind(idx, v) ==
    LET i == IF idx = -1 THEN x.next_idx + 1 ELSE idx + 1
        taken == Live(x.stmt) /\ stmts[x.stmt].at = "ready" /\ i <= Len(stmts[x.stmt].cols)
    IN  /\ Usable /\ x.next_idx <= Cardinality(Column)
        /\ IF Gone(x.stmt) THEN Undefined
           ELSE /\ x' = IF idx = -1 THEN [x EXCEPT !.next_idx = @ + 1] ELSE x
                /\ IF taken
                   THEN /\ stmts' = [stmts EXCEPT ![x.stmt].bound[i] = v]
                        /\ outcome' = "returned"
                   ELSE outcome' = "thrown" /\ UNCHANGED stmts
                /\ asked' = Noted(idx, v, taken)
                /\ UNCHANGED <<table, results, open>>

-----------------------------------------------------------------------------
\* Mutant: the state is left behind by an execution that succeeds.
ExecutedObjectInited(o) == o

ExecutedObject(o) == [o EXCEPT !.state = "finished"]

(* update(), and insert() but for last_insert_id: whatever was initialised *)
(* is stepped once, and only a statement that is done is finalized.        *)
Execute(o) ==
    IF x.state # "inited" \/ x.stmt = 0 THEN ThrowError
    ELSE IF Gone(x.stmt) THEN Undefined
    ELSE \E ret \in Codes(x.stmt) :
           /\ IF ret = "done"
              THEN /\ table' = Executed(x.stmt) /\ stmts' = Finalized(x.stmt)
                   /\ x' = ExecutedObject(o)
                   /\ outcome' = "returned"
              ELSE /\ stmts' = Stepped(x.stmt, ret)
                   /\ outcome' = "thrown"
                   /\ UNCHANGED <<x, table>>
           /\ UNCHANGED <<results, open, asked>>

Update == Usable /\ Execute(x)

Insert ==
    /\ Usable /\ Len(table) < MaxRow
    /\ Execute([x EXCEPT !.last_insert_id =
                   Len(IF Live(x.stmt) THEN Executed(x.stmt) ELSE table)])

(* pragma(): prepared, stepped and finalized at once, whatever the step    *)
(* returns; but for "done" it throws.                                      *)
Pragma ==
    /\ Usable
    /\ asked' = Nothing
    /\ \/ /\ Len(stmts) < MaxStmt
          /\ stmts' = Append(stmts, [Prepared("pragma", <<>>) EXCEPT !.finalized = TRUE])
          /\ x' = [WithoutQuery(x) EXCEPT !.stmt = Len(stmts) + 1, !.state = "finished"]
          /\ outcome' \in {"returned", "thrown"}
       \/ /\ x' = [WithoutQuery(x) EXCEPT !.stmt = 0]
          /\ outcome' = "thrown"
          /\ UNCHANGED stmts
    /\ UNCHANGED <<table, results, open>>

\* Mutant: the state is left as it is.
SelectKeepingState ==
    /\ Usable /\ Len(results) < MaxResult
    /\ results' = Append(results, [stmt |-> x.stmt, started |-> FALSE, dead |-> ~Live(x.stmt)])
    /\ outcome' = "returned"
    /\ UNCHANGED <<x, stmts, table, open, asked>>

(* select(): whatever the statement is, a result gets it.                  *)
Select ==
    /\ Usable /\ Len(results) < MaxResult
    /\ x' = [x EXCEPT !.state = "ready"]
    /\ results' = Append(results, [stmt |-> x.stmt, started |-> FALSE, dead |-> ~Live(x.stmt)])
    /\ outcome' = "returned"
    /\ UNCHANGED <<stmts, table, open, asked>>

(* SQLResult::next()                                                       *)
NextRow(r) ==
    LET s == results[r].stmt
    IN  /\ outcome # "undefined"
        /\ Live(s) /\ stmts[s].by = "insert" => Len(table) < MaxRow
        /\ IF s = 0 THEN ThrowError
           ELSE IF Gone(s) THEN Undefined
           ELSE \E ret \in Codes(s) :
                  /\ stmts' = Stepped(s, ret)
                  /\ table' = IF ret = "done" THEN Executed(s) ELSE table
                  /\ results' = [results EXCEPT ![r].started = @ \/ ret = "row"]
                  /\ outcome' = IF ret = "error" THEN "thrown" ELSE "returned"
                  /\ UNCHANGED <<x, open, asked>>

(* exec_sql_fn(): statement by statement, up to the first that fails.      *)
ExecSqlFn ==
    /\ Usable /\ Len(table) + Len(Script) <= MaxRow
    /\ \E n \in 0..Len(Script) :
          /\ table' = table \o SubSeq(Script, 1, n)
          /\ outcome' = IF n = Len(Script) THEN "returned" ELSE "thrown"
    /\ UNCHANGED <<x, stmts, results, open, asked>>

(* The destructor: sqlite3_close() refuses while a statement is there, and *)
(* then the connection stays for ever.                                     *)
Destroy ==
    /\ Usable
    /\ open' = FALSE
    /\ UNCHANGED <<x, stmts, table, results, outcome, asked>>

SQLiteNext ==
    \/ Reset \/ InitRaw \/ InitSelect
    \/ \E by \in {"insert", "update"}, cols \in ColumnList : InitWrite(by, cols)
    \/ Bind(-1, Null)
    \/ \E idx \in -1..0, v \in Value : Bind(idx, v)
    \/ Update \/ Insert \/ Pragma \/ Select \/ ExecSqlFn \/ Destroy
    \/ \E r \in 1..Len(results) : NextRow(r)

SQLiteSpec == SQLiteInit /\ [][SQLiteNext]_sqliteVars
-----------------------------------------------------------------------------
Statement ==
    [by : {"insert", "update", "select", "raw", "pragma"}, cols : ColumnList \cup {<<>>},
     bound : Seq(Value \cup {Null}), at : {"ready", "row", "halted"}, row : Nat,
     finalized : BOOLEAN]

Result == [stmt : Nat, started : BOOLEAN, dead : BOOLEAN]

SQLiteTypeOK ==
    /\ x \in [state : {"ready", "inited", "finished"}, stmt : 0..Len(stmts),
              next_idx : Nat, last_insert_id : Int]
    /\ stmts \in Seq(Statement) /\ table \in Seq(Row)
    /\ \A s \in 1..Len(stmts) : Len(stmts[s].bound) = Len(stmts[s].cols)
    /\ results \in Seq(Result) /\ \A r \in 1..Len(results) : results[r].stmt <= Len(stmts)
    /\ outcome \in {"returned", "thrown", "undefined"} /\ open \in BOOLEAN

(* insert() and update() look at `state' only: when it says that there is  *)
(* something to execute, the statement has not been finalized, unless it   *)
(* comes from init_select().                                               *)
InitedIsPrepared ==
    x.state = "inited" /\ Gone(x.stmt) => stmts[x.stmt].by = "select"

(* A result keeps the statement it was given: no later call of the object  *)
(* that made it finalizes the statement under it.  (What select() gives    *)
(* after init_select() is gone from the start.)                            *)
ResultsStayLive ==
    \A r \in 1..Len(results) : results[r].dead <=> ~Live(results[r].stmt)

(* insert() after init_insert() is all or nothing, also when it is tried   *)
(* again after an error: if it returns, the table has one more row, that   *)
(* of last_insert_id, with each value in the column it was bound for and   *)
(* null in the others; if it throws, the table is as it was.               *)
InsertIsAtomic ==
    [][Insert =>
         /\ outcome' = "thrown" => table' = table
         /\ (outcome' = "returned" /\ stmts[x.stmt].by = "insert") =>
               LET cols == stmts[x.stmt].cols
                   row == [c \in Column |->
                             IF \E k \in DOMAIN asked.value : k <= Len(cols) /\ cols[k] = c
                             THEN asked.value[Position(cols, c)] ELSE Null]
               IN  table' = Append(table, row) /\ x'.last_insert_id = Len(table')]_sqliteVars
=============================================================================
