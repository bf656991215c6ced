--------------------------- MODULE Ooapi_proofs --------------------------
(* Theorems about XSQLite, for any columns, values and numbers of          *)
(* statements and results, and about TemplateParser, for any templates,    *)
(* keys and values: who has to delete what.                                *)
EXTENDS XSQLite, TemplateParser, Operators_proofs, TLAPS

(* What insert() and update() finalize belongs to no result.               *)
InitedIsOwn ==
    x.state = "inited" /\ x.stmt # 0 =>
       \A r \in 1..Len(results) : results[r].stmt # x.stmt

Inv == SQLiteTypeOK /\ InitedIsPrepared /\ InitedIsOwn /\ ResultsStayLive

-----------------------------------------------------------------------------
(* Sequences.                                                              *)
LEMMA ChangedSequence ==
  ASSUME NEW S, NEW b \in Seq(S), NEW i, NEW v \in S
  PROVE  [b EXCEPT ![i] = v] \in Seq(S) /\ Len([b EXCEPT ![i] = v]) = Len(b)
<1>1. CASE i \in 1..Len(b)
  BY <1>1
<1>2. CASE i \notin 1..Len(b)
  <2>1. [b EXCEPT ![i] = v] = b
    BY <1>2
  <2> QED
    BY <2>1
<1> QED
  BY <1>1, <1>2

(* The empty sequence is one of any set.                                   *)
LEMMA EmptySequence == ASSUME NEW S PROVE <<>> \in Seq(S) /\ Len(<<>>) = 0
  OBVIOUS

(* A new statement is well typed, and takes as many values as columns.     *)
LEMMA PreparedType ==
  ASSUME NEW by \in {"insert", "update", "select", "raw", "pragma"},
         NEW cols \in ColumnList \cup {<<>>}
  PROVE  /\ Prepared(by, cols) \in Statement
         /\ Len(Prepared(by, cols).bound) = Len(cols)
         /\ Prepared(by, cols).by = by /\ Prepared(by, cols).cols = cols
         /\ ~Prepared(by, cols).finalized
<1>1. cols \in Seq(Column)
  BY ColumnsAssumption, EmptySequence
<1>2. Len(cols) \in Nat
  BY <1>1
<1>3. /\ [i \in 1..Len(cols) |-> Null] \in Seq(Value \cup {Null})
      /\ Len([i \in 1..Len(cols) |-> Null]) = Len(cols)
  BY <1>2
<1> QED
  BY <1>3 DEF Prepared, Statement

(* The row that a statement of so many values writes is a row.             *)
LEMMA OverwrittenType ==
  ASSUME NEW row \in Row, NEW cols \in ColumnList \cup {<<>>},
         NEW bound \in Seq(Value \cup {Null}), Len(bound) = Len(cols)
  PROVE  Overwritten(row, cols, bound) \in Row
<1>1. cols \in Seq(Column)
  BY ColumnsAssumption, EmptySequence
<1>2. ASSUME NEW c \in Column, c \in ToSet(cols)
      PROVE  bound[Position(cols, c)] \in Value \cup {Null}
  <2>1. PICK i \in 1..Len(cols) : cols[i] = c
    BY <1>1, <1>2 DEF ToSet
  <2>2. Position(cols, c) \in 1..Len(cols)
    BY <2>1 DEF Position
  <2> QED
    BY <2>2
<1>3. ASSUME NEW c \in Column PROVE row[c] \in Value \cup {Null}
  BY DEF Row
<1> QED
  BY <1>2, <1>3 DEF Overwritten, Row

(* The table a statement leaves behind is a table.                         *)
LEMMA ExecutedType ==
  ASSUME SQLiteTypeOK, NEW s \in 1..Len(stmts)
  PROVE  Executed(s) \in Seq(Row)
<1> DEFINE stmt == stmts[s]
<1>0. stmt \in Statement /\ Len(stmt.bound) = Len(stmt.cols)
  BY DEF SQLiteTypeOK
<1>1. /\ stmt.cols \in ColumnList \cup {<<>>} /\ stmt.bound \in Seq(Value \cup {Null})
      /\ Len(stmt.bound) = Len(stmt.cols)
  <2> HIDE DEF stmt
  <2> QED
    BY <1>0 DEF Statement
<1>2. table \in Seq(Row)
  BY DEF SQLiteTypeOK
<1> HIDE DEF stmt
<1>3. ASSUME NEW row \in Row PROVE Overwritten(row, stmt.cols, stmt.bound) \in Row
  BY <1>1, <1>3, OverwrittenType
<1>4. [c \in Column |-> Null] \in Row
  BY DEF Row
<1>5. Append(table, Overwritten([c \in Column |-> Null], stmt.cols, stmt.bound)) \in Seq(Row)
  BY <1>2, <1>3, <1>4
<1>6. [i \in 1..Len(table) |-> Overwritten(table[i], stmt.cols, stmt.bound)] \in Seq(Row)
  BY <1>2, <1>3
<1> QED
  BY <1>2, <1>5, <1>6 DEF Executed, stmt

-----------------------------------------------------------------------------
(* The object and the results only know statements that were prepared.     *)
LEMMA OwnedStatements ==
  ASSUME SQLiteTypeOK
  PROVE  x.stmt \in 0..Len(stmts) /\ \A r \in 1..Len(results) : results[r].stmt \in 0..Len(stmts)
<1>1. Len(stmts) \in Nat /\ x.stmt \in 0..Len(stmts)
  BY DEF SQLiteTypeOK
<1>2. ASSUME NEW r \in 1..Len(results) PROVE results[r].stmt \in 0..Len(stmts)
  <2>1. results[r] \in Result
    BY DEF SQLiteTypeOK
  <2>2. results[r].stmt \in Nat
    BY <2>1 DEF Result
  <2> QED
    BY <1>1, <2>2 DEF SQLiteTypeOK
<1> QED
  BY <1>1, <1>2

(* The ways in which a call changes what the invariant is about.           *)

Object(n) == [state : {"ready", "inited", "finished"}, stmt : 0..n, next_idx : Nat,
              last_insert_id : Int]

Outcomes == outcome' \in {"returned", "thrown", "undefined"} /\ open' \in BOOLEAN

(* Nothing happens to a statement, and the object keeps its own or none.   *)
LEMMA KeepStep ==
  ASSUME Inv, Outcomes, UNCHANGED <<stmts, results>>, table' \in Seq(Row),
         x' \in Object(Len(stmts)),
         x'.stmt = 0 \/ (x'.stmt = x.stmt /\ (x'.state = "inited" => x.state = "inited"))
  PROVE  Inv'
<1>1. SQLiteTypeOK'
  BY DEF Inv, SQLiteTypeOK, Outcomes, Object
<1>2. InitedIsPrepared' /\ InitedIsOwn' /\ ResultsStayLive'
  BY DEF Inv, InitedIsPrepared, InitedIsOwn, ResultsStayLive, Gone, Live
<1> QED
  BY <1>1, <1>2 DEF Inv

(* A statement is prepared, and becomes the object's.                      *)
LEMMA PrepareStep ==
  ASSUME Inv, Outcomes, UNCHANGED <<table, results>>,
         NEW st \in Statement, Len(st.bound) = Len(st.cols),
         stmts' = Append(stmts, st),
         x' \in Object(Len(stmts) + 1), x'.stmt = Len(stmts) + 1,
         x'.state = "inited" /\ st.finalized => st.by = "select"
  PROVE  Inv'
<1>1. stmts \in Seq(Statement) /\ Len(stmts) \in Nat
  BY DEF Inv, SQLiteTypeOK
<1>2. /\ stmts' \in Seq(Statement) /\ Len(stmts') = Len(stmts) + 1
      /\ \A s \in 1..Len(stmts) : stmts'[s] = stmts[s]
      /\ stmts'[Len(stmts) + 1] = st
  BY <1>1
<1>4. \A r \in 1..Len(results) : results[r].stmt \in 0..Len(stmts)
  BY <1>1, OwnedStatements DEF Inv
<1>6. SQLiteTypeOK'
  <2>1. \A s \in 1..Len(stmts') : Len(stmts'[s].bound) = Len(stmts'[s].cols)
    BY <1>1, <1>2 DEF Inv, SQLiteTypeOK
  <2>2. x' \in Object(Len(stmts'))
    BY <1>2
  <2>3. /\ results' \in Seq(Result) /\ table' \in Seq(Row)
        /\ \A r \in 1..Len(results') : results'[r].stmt <= Len(stmts')
    BY <1>1, <1>2, <1>4 DEF Inv, SQLiteTypeOK
  <2> QED
    BY <1>2, <2>1, <2>2, <2>3 DEF SQLiteTypeOK, Outcomes, Object
<1>7. InitedIsPrepared'
  BY <1>1, <1>2 DEF InitedIsPrepared, Gone
<1>8. InitedIsOwn'
  BY <1>1, <1>4 DEF InitedIsOwn
<1>9. ResultsStayLive'
  BY <1>1, <1>2, <1>4 DEF Inv, ResultsStayLive, Live
<1> QED
  BY <1>6, <1>7, <1>8, <1>9 DEF Inv

(* A statement is bound or stepped.                                        *)
LEMMA ChangeStep ==
  ASSUME Inv, Outcomes, table' \in Seq(Row),
         NEW s \in 1..Len(stmts), NEW st \in Statement, Len(st.bound) = Len(st.cols),
         st.by = stmts[s].by, st.finalized = stmts[s].finalized,
         stmts' = [stmts EXCEPT ![s] = st],
         x' \in Object(Len(stmts)), x'.stmt = x.stmt, x'.state = x.state,
         results' \in Seq(Result),
         Len(results') = Len(results),
         \A r \in 1..Len(results) :
            results'[r].stmt = results[r].stmt /\ results'[r].dead = results[r].dead
  PROVE  Inv'
<1>1. stmts \in Seq(Statement) /\ Len(stmts) \in Nat
  BY DEF Inv, SQLiteTypeOK
<1>2. /\ stmts' \in Seq(Statement) /\ Len(stmts') = Len(stmts)
      /\ \A k \in 1..Len(stmts) : /\ stmts'[k].by = stmts[k].by
                                  /\ stmts'[k].finalized = stmts[k].finalized
      /\ \A k \in 1..Len(stmts) : k # s => stmts'[k] = stmts[k]
      /\ stmts'[s] = st
  BY <1>1
<1>3. x.stmt \in 0..Len(stmts) /\ \A r \in 1..Len(results) : results[r].stmt \in 0..Len(stmts)
  BY OwnedStatements DEF Inv
<1>4. SQLiteTypeOK'
  <2>1. \A k \in 1..Len(stmts') : Len(stmts'[k].bound) = Len(stmts'[k].cols)
    BY <1>2 DEF Inv, SQLiteTypeOK
  <2>2. \A r \in 1..Len(results') : results'[r].stmt <= Len(stmts')
    BY <1>1, <1>2, <1>3
  <2>3. x' \in [state : {"ready", "inited", "finished"}, stmt : 0..Len(stmts'),
               next_idx : Nat, last_insert_id : Int]
    BY <1>2 DEF Object
  <2> QED
    BY <1>2, <2>1, <2>2, <2>3 DEF SQLiteTypeOK, Outcomes
<1>5. InitedIsPrepared'
  BY <1>1, <1>2, <1>3 DEF Inv, InitedIsPrepared, Gone
<1>6. InitedIsOwn'
  BY DEF Inv, InitedIsOwn
<1>7. ResultsStayLive'
  BY <1>1, <1>2, <1>3 DEF Inv, ResultsStayLive, Live
<1> QED
  BY <1>4, <1>5, <1>6, <1>7 DEF Inv

(* insert() or update() is done with its statement.                        *)
LEMMA FinalizeStep ==
  ASSUME Inv, Outcomes, table' \in Seq(Row), UNCHANGED results,
         x.state = "inited", x.stmt \in 1..Len(stmts), stmts' = Finalized(x.stmt),
         x' \in Object(Len(stmts)), x'.state = "finished"
  PROVE  Inv'
<1> DEFINE s == x.stmt
           st == [Prepared(stmts[s].by, <<>>) EXCEPT !.finalized = TRUE]
<1>1. stmts \in Seq(Statement) /\ Len(stmts) \in Nat /\ s \in 1..Len(stmts)
  BY DEF Inv, SQLiteTypeOK
<1>2. st \in Statement /\ Len(st.bound) = Len(st.cols)
  <2> DEFINE by == stmts[s].by
             fresh == Prepared(by, <<>>)
  <2>1. stmts[s] \in Statement
    BY <1>1
  <2>2. by \in {"insert", "update", "select", "raw", "pragma"}
    BY <2>1 DEF Statement
  <2> HIDE DEF by
  <2>3. fresh \in Statement /\ Len(fresh.bound) = Len(fresh.cols)
    BY <2>2, PreparedType, EmptySequence
  <2> HIDE DEF fresh
  <2>4. /\ [fresh EXCEPT !.finalized = TRUE] \in Statement
        /\ [fresh EXCEPT !.finalized = TRUE].bound = fresh.bound
        /\ [fresh EXCEPT !.finalized = TRUE].cols = fresh.cols
    BY <2>3 DEF Statement
  <2>5. st = [fresh EXCEPT !.finalized = TRUE]
    BY DEF fresh, by
  <2> QED
    BY <2>3, <2>4, <2>5
<1>3. stmts' = [stmts EXCEPT ![s] = st]
  BY DEF Finalized
<1> HIDE DEF st
<1>4. /\ stmts' \in Seq(Statement) /\ Len(stmts') = Len(stmts)
      /\ \A k \in 1..Len(stmts) : k # s => stmts'[k] = stmts[k]
      /\ stmts'[s] = st
  BY <1>1, <1>2, <1>3
<1>5. \A r \in 1..Len(results) : results[r].stmt \in 0..Len(stmts) /\ results[r].stmt # s
  BY <1>1, OwnedStatements DEF Inv, InitedIsOwn
<1>6. SQLiteTypeOK'
  <2>1. \A k \in 1..Len(stmts') : Len(stmts'[k].bound) = Len(stmts'[k].cols)
    BY <1>1, <1>2, <1>4 DEF Inv, SQLiteTypeOK
  <2> QED
    BY <1>4, <1>5, <2>1 DEF Inv, SQLiteTypeOK, Outcomes, Object
<1>7. InitedIsPrepared' /\ InitedIsOwn'
  BY DEF InitedIsPrepared, InitedIsOwn
<1>8. ResultsStayLive'
  BY <1>1, <1>4, <1>5 DEF Inv, ResultsStayLive, Live
<1> QED
  BY <1>6, <1>7, <1>8 DEF Inv

(* select() hands the object's statement out.                              *)
LEMMA SelectStep ==
  ASSUME Inv, Outcomes, Select
  PROVE  Inv'
<1> DEFINE new == [stmt |-> x.stmt, started |-> FALSE, dead |-> ~Live(x.stmt)]
<1>1. /\ results \in Seq(Result) /\ Len(results) \in Nat
      /\ stmts \in Seq(Statement) /\ Len(stmts) \in Nat
      /\ x \in Object(Len(stmts))
  BY DEF Inv, SQLiteTypeOK, Object
<1>2. new \in Result
  <2>1. Live(x.stmt) \in BOOLEAN
    <3>1. CASE x.stmt = 0
      BY <3>1 DEF Live
    <3>2. CASE x.stmt # 0
      <4>1. stmts[x.stmt] \in Statement
        BY <1>1, <3>2 DEF Object
      <4> QED
        BY <4>1 DEF Live, Statement
    <3> QED
      BY <3>1, <3>2
  <2> QED
    BY <1>1, <2>1 DEF Result, Object
<1>3. new.stmt = x.stmt /\ (new.dead <=> ~Live(x.stmt)) /\ x.stmt \in 0..Len(stmts)
  BY <1>1 DEF Object
<1>4. results' = Append(results, new) /\ stmts' = stmts
  BY DEF Select
<1> HIDE DEF new
<1>5. /\ results' \in Seq(Result) /\ Len(results') = Len(results) + 1
      /\ \A r \in 1..Len(results) : results'[r] = results[r]
      /\ results'[Len(results) + 1] = new
  BY <1>1, <1>2, <1>4
<1>6. x' \in Object(Len(stmts)) /\ x'.state = "ready"
  BY <1>1 DEF Select, Object
<1>7. SQLiteTypeOK'
  <2>1. ASSUME NEW r \in 1..Len(results') PROVE results'[r].stmt <= Len(stmts)
    <3>1. CASE r \in 1..Len(results)
      BY <1>5, <3>1 DEF Inv, SQLiteTypeOK
    <3>2. CASE r = Len(results) + 1
      BY <1>1, <1>3, <1>5, <3>2
    <3> QED
      BY <1>1, <1>5, <3>1, <3>2
  <2>2. table' = table
    BY DEF Select
  <2> QED
    BY <1>4, <1>5, <1>6, <2>1, <2>2 DEF Inv, SQLiteTypeOK, Outcomes, Object
<1>8. InitedIsPrepared' /\ InitedIsOwn'
  BY <1>6 DEF InitedIsPrepared, InitedIsOwn
<1>9. ResultsStayLive'
  <2>1. ASSUME NEW k PROVE Live(k)' = Live(k)
    BY <1>4 DEF Live
  <2> QED
    BY <1>1, <1>3, <1>4, <1>5 DEF Inv, ResultsStayLive, Live
<1> QED
  BY <1>7, <1>8, <1>9 DEF Inv

-----------------------------------------------------------------------------
(* The actions.                                                            *)

(* The invariant holds before anything is prepared.                        *)
LEMMA InitInv == SQLiteInit => Inv
<1> SUFFICES ASSUME SQLiteInit PROVE Inv
  OBVIOUS
<1>1. stmts = <<>> /\ table = <<>> /\ results = <<>>
  BY DEF SQLiteInit
<1>2. stmts \in Seq(Statement) /\ table \in Seq(Row) /\ results \in Seq(Result)
      /\ Len(stmts) = 0 /\ Len(results) = 0
  BY <1>1, EmptySequence
<1> QED
  BY <1>2 DEF SQLiteInit, Inv, SQLiteTypeOK, InitedIsPrepared, InitedIsOwn, ResultsStayLive, Gone

(* A call that throws, or uses a finalized statement, changes nothing.     *)
LEMMA NothingStep ==
  ASSUME Inv, ThrowError \/ Undefined
  PROVE  Inv'
<1>1. UNCHANGED <<x, stmts, table, results>> /\ Outcomes
  BY DEF ThrowError, Undefined, Inv, SQLiteTypeOK, Outcomes
<1>2. table' \in Seq(Row) /\ x' \in Object(Len(stmts))
  BY <1>1 DEF Inv, SQLiteTypeOK, Object
<1> QED
  BY <1>1, <1>2, KeepStep

(* reset() keeps it.                                                       *)
LEMMA ResetStep == ASSUME Inv, Reset PROVE Inv'
<1>1. UNCHANGED <<stmts, table, results>> /\ Outcomes
  BY DEF Reset, Inv, SQLiteTypeOK, Outcomes
<1>2. table' \in Seq(Row)
  BY <1>1 DEF Inv, SQLiteTypeOK
<1>3. x' \in Object(Len(stmts)) /\ x'.stmt = x.stmt /\ x'.state = "ready"
  BY DEF Reset, WithoutQuery, Inv, SQLiteTypeOK, Object
<1> QED
  BY <1>1, <1>2, <1>3, KeepStep

(* An object takes over the statement just prepared.                       *)
LEMMA PreparedObject ==
  ASSUME NEW n \in Nat, NEW o \in Object(n), NEW state \in {"ready", "inited", "finished"},
         NEW new, new = [o EXCEPT !.stmt = n + 1, !.state = state]
  PROVE  new \in Object(n + 1) /\ new.stmt = n + 1 /\ new.state = state
<1> DEFINE mid == [o EXCEPT !.stmt = n + 1]
<1>1. mid \in Object(n + 1) /\ mid.stmt = n + 1
  BY DEF Object
<1>2. new = [mid EXCEPT !.state = state]
  OBVIOUS
<1> HIDE DEF mid
<1> QED
  BY <1>1, <1>2 DEF Object

(* Whether it succeeds or not: what is prepared is the object's.           *)
LEMMA InitRawQueryStep ==
  ASSUME Inv, Usable, NEW o \in Object(Len(stmts)),
         NEW by \in {"insert", "update", "raw"}, NEW cols \in ColumnList \cup {<<>>},
         InitRawQuery(o, by, cols), UNCHANGED <<table, results, open>>
  PROVE  Inv'
<1>1. Outcomes /\ Len(stmts) \in Nat /\ table' \in Seq(Row)
  BY DEF InitRawQuery, Inv, SQLiteTypeOK, Outcomes
<1>2. CASE stmts' = Append(stmts, Prepared(by, cols))
           /\ x' = [o EXCEPT !.stmt = Len(stmts) + 1, !.state = "inited"]
  <2>1. x' \in Object(Len(stmts) + 1) /\ x'.stmt = Len(stmts) + 1
    BY <1>1, <1>2, PreparedObject
  <2> QED
    BY <1>1, <1>2, <2>1, PreparedType, PrepareStep
<1>3. CASE x' = [o EXCEPT !.stmt = 0] /\ UNCHANGED stmts
  <2>1. x' \in Object(Len(stmts)) /\ x'.stmt = 0
    BY <1>1, <1>3 DEF Object
  <2> QED
    BY <1>1, <1>3, <2>1, KeepStep
<1> QED
  BY <1>2, <1>3 DEF InitRawQuery

(* The object keeps its type with its statement or without its query.      *)
LEMMA ObjectType ==
  ASSUME Inv
  PROVE  /\ x \in Object(Len(stmts)) /\ WithoutQuery(x) \in Object(Len(stmts))
         /\ WithoutQuery(x).stmt = x.stmt
BY DEF Inv, SQLiteTypeOK, Object, WithoutQuery

(* A raw query keeps it.                                                   *)
LEMMA InitRawStep == ASSUME Inv, InitRaw PROVE Inv'
BY ObjectType, InitRawQueryStep DEF InitRaw

(* Preparing an INSERT or an UPDATE keeps it.                              *)
LEMMA InitWriteStep ==
  ASSUME Inv, NEW by \in {"insert", "update"}, NEW cols \in ColumnList, InitWrite(by, cols)
  PROVE  Inv'
BY ObjectType, InitRawQueryStep DEF InitWrite

(* init_select() and pragma() prepare what is finalized when they return.  *)
LEMMA PrepareGoneStep ==
  ASSUME Inv, Outcomes, UNCHANGED <<table, results>>,
         NEW by \in {"select", "pragma"}, NEW state \in {"inited", "finished"},
         state = "inited" => by = "select",
         \/ /\ stmts' = Append(stmts, [Prepared(by, <<>>) EXCEPT !.finalized = TRUE])
            /\ x' = [WithoutQuery(x) EXCEPT !.stmt = Len(stmts) + 1, !.state = state]
         \/ x' = [WithoutQuery(x) EXCEPT !.stmt = 0] /\ UNCHANGED stmts
  PROVE  Inv'
<1> DEFINE fresh == Prepared(by, <<>>)
           st == [fresh EXCEPT !.finalized = TRUE]
           o == WithoutQuery(x)
<1>1. fresh \in Statement /\ Len(fresh.bound) = Len(fresh.cols) /\ fresh.by = by
  BY PreparedType, EmptySequence
<1>2. o \in Object(Len(stmts)) /\ Len(stmts) \in Nat /\ table' \in Seq(Row)
  BY ObjectType DEF Inv, SQLiteTypeOK
<1>3. \/ stmts' = Append(stmts, st) /\ x' = [o EXCEPT !.stmt = Len(stmts) + 1, !.state = state]
      \/ x' = [o EXCEPT !.stmt = 0] /\ UNCHANGED stmts
  OBVIOUS
<1> HIDE DEF fresh, o
<1>4. st \in Statement /\ Len(st.bound) = Len(st.cols) /\ st.by = by
  BY <1>1 DEF Statement
<1> HIDE DEF st
<1>5. CASE stmts' = Append(stmts, st)
           /\ x' = [o EXCEPT !.stmt = Len(stmts) + 1, !.state = state]
  <2>0. state \in {"ready", "inited", "finished"}
    OBVIOUS
  <2> DEFINE new == [o EXCEPT !.stmt = Len(stmts) + 1, !.state = state]
  <2>1. /\ new \in Object(Len(stmts) + 1) /\ new.stmt = Len(stmts) + 1
        /\ new.state = state
    BY <1>2, <2>0, PreparedObject
  <2>2. x' = new
    BY <1>5
  <2> HIDE DEF new
  <2> QED
    BY <1>4, <1>5, <2>1, <2>2, PrepareStep
<1>6. CASE x' = [o EXCEPT !.stmt = 0] /\ UNCHANGED stmts
  <2>1. x' \in Object(Len(stmts)) /\ x'.stmt = 0
    BY <1>2, <1>6 DEF Object
  <2> QED
    BY <1>2, <1>6, <2>1, KeepStep
<1> QED
  BY <1>3, <1>5, <1>6

(* Preparing a SELECT keeps it.                                            *)
LEMMA InitSelectStep == ASSUME Inv, InitSelect PROVE Inv'
<1>1. Outcomes /\ UNCHANGED <<table, results>>
  BY DEF InitSelect, Inv, SQLiteTypeOK, Outcomes
<1> QED
  BY <1>1, PrepareGoneStep DEF InitSelect

(* pragma() keeps it.                                                      *)
LEMMA PragmaStep == ASSUME Inv, Pragma PROVE Inv'
<1>1. Outcomes /\ UNCHANGED <<table, results>>
  BY DEF Pragma, Inv, SQLiteTypeOK, Outcomes
<1> QED
  BY <1>1, PrepareGoneStep DEF Pragma

(* bind(): a value more for the object's statement, or none.               *)
LEMMA BindStep ==
  ASSUME Inv, NEW idx \in Int, idx >= -1, NEW v \in Value \cup {Null}, Bind(idx, v)
  PROVE  Inv'
<1> DEFINE i == IF idx = -1 THEN x.next_idx + 1 ELSE idx + 1
           s == x.stmt
           old == stmts[s]
           taken == Live(s) /\ old.at = "ready" /\ i <= Len(old.cols)
<1>0. x \in Object(Len(stmts)) /\ Len(stmts) \in Nat /\ stmts \in Seq(Statement)
  BY ObjectType DEF Inv, SQLiteTypeOK
<1>1. CASE Gone(x.stmt)
  BY <1>1, NothingStep DEF Bind
<1>2. CASE ~Gone(x.stmt)
  <2>1. /\ x' = IF idx = -1 THEN [x EXCEPT !.next_idx = @ + 1] ELSE x
        /\ IF taken THEN stmts' = [stmts EXCEPT ![x.stmt].bound[i] = v]
                         /\ outcome' = "returned"
           ELSE outcome' = "thrown" /\ UNCHANGED stmts
        /\ UNCHANGED <<table, results, open>>
    BY <1>2 DEF Bind
  <2>2. x' \in Object(Len(stmts)) /\ x'.stmt = x.stmt /\ x'.state = x.state
    BY <1>0, <2>1 DEF Object
  <2>3. Outcomes /\ table' \in Seq(Row)
    BY <2>1 DEF Outcomes, Inv, SQLiteTypeOK
  <2>4. CASE ~taken
    BY <2>1, <2>2, <2>3, <2>4, KeepStep
  <2>5. CASE taken
    <3> DEFINE more == [old.bound EXCEPT ![i] = v]
               st == [old EXCEPT !.bound = more]
    <3>1. s \in 1..Len(stmts) /\ old \in Statement /\ Len(old.bound) = Len(old.cols)
      BY <1>0, <2>5 DEF Live, Object, Inv, SQLiteTypeOK
    <3>2. stmts' = [stmts EXCEPT ![s] = st]
      BY <2>1, <2>5
    <3> HIDE DEF old
    <3>3. old.bound \in Seq(Value \cup {Null})
      BY <3>1 DEF Statement
    <3> HIDE DEF i
    <3>4. more \in Seq(Value \cup {Null}) /\ Len(more) = Len(old.bound)
      BY <3>3, ChangedSequence
    <3> HIDE DEF more
    <3>5. /\ st \in Statement /\ st.bound = more /\ st.cols = old.cols /\ st.by = old.by
          /\ st.finalized = old.finalized
      BY <3>1, <3>4 DEF Statement
    <3> HIDE DEF st
    <3>6. Len(st.bound) = Len(st.cols) /\ st.by = stmts[s].by
          /\ st.finalized = stmts[s].finalized
      BY <3>1, <3>4, <3>5 DEF old
    <3>7. results' = results /\ results' \in Seq(Result)
      BY <2>1 DEF Inv, SQLiteTypeOK
    <3> QED
      BY <2>2, <2>3, <3>1, <3>2, <3>5, <3>6, <3>7, ChangeStep
  <2> QED
    BY <2>4, <2>5
<1> QED
  BY <1>1, <1>2

(* A step of a statement changes where it is, not what it is.              *)
LEMMA SteppedType ==
  ASSUME Inv, NEW s \in 1..Len(stmts), NEW ret
  PROVE  \E st \in Statement :
            /\ Stepped(s, ret) = [stmts EXCEPT ![s] = st]
            /\ Len(st.bound) = Len(st.cols)
            /\ st.by = stmts[s].by /\ st.finalized = stmts[s].finalized
<1> DEFINE old == stmts[s]
           at == IF ret = "row" THEN "row" ELSE "halted"
           row == IF ret = "row" THEN old.row + 1 ELSE 0
           st == [old EXCEPT !.at = at, !.row = row]
<1>1. old \in Statement /\ Len(old.bound) = Len(old.cols)
  BY DEF Inv, SQLiteTypeOK
<1>2. Stepped(s, ret) = [stmts EXCEPT ![s] = st]
  BY DEF Stepped
<1> HIDE DEF old
<1>3. at \in {"ready", "row", "halted"} /\ row \in Nat
  BY <1>1 DEF Statement
<1> HIDE DEF at, row
<1>4. /\ st \in Statement /\ st.bound = old.bound /\ st.cols = old.cols
      /\ st.by = old.by /\ st.finalized = old.finalized
  BY <1>1, <1>3 DEF Statement
<1> HIDE DEF st
<1> QED
  BY <1>1, <1>2, <1>4 DEF old

(* update() and insert(): the statement is stepped, or done and finalized. *)
LEMMA ExecuteStep ==
  ASSUME Inv, Usable, NEW o \in Object(Len(stmts)), o.stmt = x.stmt, Execute(o)
  PROVE  Inv'
<1>0. x \in Object(Len(stmts)) /\ Len(stmts) \in Nat
  BY ObjectType DEF Inv, SQLiteTypeOK
<1>1. CASE x.state # "inited" \/ x.stmt = 0 \/ Gone(x.stmt)
  BY <1>1, NothingStep DEF Execute, Gone
<1>2. CASE x.state = "inited" /\ x.stmt # 0 /\ ~Gone(x.stmt)
  <2>1. PICK ret \in Codes(x.stmt) :
          /\ IF ret = "done"
             THEN /\ table' = Executed(x.stmt) /\ stmts' = Finalized(x.stmt)
                  /\ x' = ExecutedObject(o)
                  /\ outcome' = "returned"
             ELSE /\ stmts' = Stepped(x.stmt, ret)
                  /\ outcome' = "thrown"
                  /\ UNCHANGED <<x, table>>
          /\ UNCHANGED <<results, open, asked>>
    BY <1>2 DEF Execute
  <2>2. x.stmt \in 1..Len(stmts) /\ Outcomes
    BY <1>0, <1>2, <2>1 DEF Object, Outcomes, Inv, SQLiteTypeOK
  <2>3. CASE ret = "done"
    <3>1. table' \in Seq(Row)
      BY <2>1, <2>2, <2>3, ExecutedType DEF Inv
    <3>2. x' \in Object(Len(stmts)) /\ x'.state = "finished"
      BY <2>1, <2>3 DEF ExecutedObject, Object
    <3> QED
      BY <1>2, <2>1, <2>2, <2>3, <3>1, <3>2, FinalizeStep
  <2>4. CASE ret # "done"
    <3>1. PICK st \in Statement :
             /\ Stepped(x.stmt, ret) = [stmts EXCEPT ![x.stmt] = st]
             /\ Len(st.bound) = Len(st.cols)
             /\ st.by = stmts[x.stmt].by /\ st.finalized = stmts[x.stmt].finalized
      BY <2>2, SteppedType
    <3>2. table' \in Seq(Row) /\ results' \in Seq(Result)
      BY <2>1, <2>4 DEF Inv, SQLiteTypeOK
    <3> QED
      BY <1>0, <2>1, <2>2, <2>4, <3>1, <3>2, ChangeStep
  <2> QED
    BY <2>3, <2>4
<1> QED
  BY <1>1, <1>2

(* An UPDATE keeps it.                                                     *)
LEMMA UpdateStep == ASSUME Inv, Update PROVE Inv'
BY ObjectType, ExecuteStep DEF Update

(* An INSERT, and the id it returns, keep it.                              *)
LEMMA InsertStep == ASSUME Inv, Insert PROVE Inv'
<1> DEFINE id == Len(IF Live(x.stmt) THEN Executed(x.stmt) ELSE table)
           o == [x EXCEPT !.last_insert_id = id]
<1>1. x \in Object(Len(stmts)) /\ Len(stmts) \in Nat /\ table \in Seq(Row)
  BY ObjectType DEF Inv, SQLiteTypeOK
<1>2. Live(x.stmt) => Executed(x.stmt) \in Seq(Row)
  BY <1>1, ExecutedType DEF Inv, Live, Object
<1>3. id \in Int
  BY <1>1, <1>2
<1>4. Usable /\ Execute(o)
  BY DEF Insert
<1> HIDE DEF id
<1>5. o \in Object(Len(stmts)) /\ o.stmt = x.stmt
  BY <1>1, <1>3 DEF Object
<1> QED
  BY <1>4, <1>5, ExecuteStep

(* Fetching a row of a result keeps it.                                    *)
LEMMA NextRowStep == ASSUME Inv, NEW r \in 1..Len(results), NextRow(r) PROVE Inv'
<1> DEFINE s == results[r].stmt
<1>1. s \in 0..Len(stmts) /\ Len(stmts) \in Nat /\ results \in Seq(Result)
  BY OwnedStatements DEF Inv, SQLiteTypeOK
<1>2. CASE s = 0 \/ Gone(s)
  BY <1>2, NothingStep DEF NextRow, Gone
<1>3. CASE s # 0 /\ ~Gone(s)
  <2>1. PICK ret \in Codes(s) :
          /\ stmts' = Stepped(s, ret)
          /\ table' = IF ret = "done" THEN Executed(s) ELSE table
          /\ results' = [results EXCEPT ![r].started = @ \/ ret = "row"]
          /\ outcome' = IF ret = "error" THEN "thrown" ELSE "returned"
          /\ UNCHANGED <<x, open, asked>>
    BY <1>3 DEF NextRow
  <2>2. s \in 1..Len(stmts) /\ Outcomes
    BY <1>1, <1>3, <2>1 DEF Outcomes, Inv, SQLiteTypeOK
  <2>3. PICK st \in Statement :
           /\ Stepped(s, ret) = [stmts EXCEPT ![s] = st]
           /\ Len(st.bound) = Len(st.cols)
           /\ st.by = stmts[s].by /\ st.finalized = stmts[s].finalized
    BY <2>2, SteppedType
  <2>4. table' \in Seq(Row)
    BY <2>1, <2>2, ExecutedType DEF Inv, SQLiteTypeOK
  <2>5. /\ results' \in Seq(Result) /\ Len(results') = Len(results)
        /\ \A q \in 1..Len(results) :
              results'[q].stmt = results[q].stmt /\ results'[q].dead = results[q].dead
    <3> DEFINE old == results[r]
               b == old.started \/ ret = "row"
               new == [old EXCEPT !.started = b]
    <3>1. old \in Result
      BY <1>1
    <3>2. results' = [results EXCEPT ![r] = new]
      BY <2>1
    <3> HIDE DEF old
    <3>3. b \in BOOLEAN
      BY <3>1 DEF Result
    <3> HIDE DEF b
    <3>4. new \in Result /\ new.stmt = old.stmt /\ new.dead = old.dead
      BY <3>1, <3>3 DEF Result
    <3> HIDE DEF new
    <3>5. /\ results' \in Seq(Result) /\ Len(results') = Len(results)
          /\ \A q \in 1..Len(results) : q # r => results'[q] = results[q]
          /\ results'[r] = new
      BY <1>1, <3>2, <3>4
    <3> QED
      BY <3>4, <3>5 DEF old
  <2>6. x' = x /\ x' \in Object(Len(stmts))
    BY <2>1 DEF Inv, SQLiteTypeOK, Object
  <2> HIDE DEF s
  <2> QED
    BY <2>1, <2>2, <2>3, <2>4, <2>5, <2>6, ChangeStep
<1> QED
  BY <1>2, <1>3

(* The script inserts rows by statements of its own.                       *)
LEMMA OtherSteps == ASSUME Inv, ExecSqlFn \/ Destroy PROVE Inv'
<1>1. UNCHANGED <<x, stmts, results>> /\ Outcomes
  BY DEF ExecSqlFn, Destroy, Inv, SQLiteTypeOK, Outcomes
<1>2. table' \in Seq(Row)
  <2>1. table \in Seq(Row)
    BY DEF Inv, SQLiteTypeOK
  <2>2. ASSUME NEW n \in 0..Len(Script) PROVE table \o SubSeq(Script, 1, n) \in Seq(Row)
    <3>1. SubSeq(Script, 1, n) \in Seq(Row)
      BY <2>2, ScriptAssumption
    <3> QED
      BY <2>1, <3>1
  <2> QED
    BY <2>1, <2>2 DEF ExecSqlFn, Destroy
<1>3. x' \in Object(Len(stmts))
  BY <1>1 DEF Inv, SQLiteTypeOK, Object
<1> QED
  BY <1>1, <1>2, <1>3, KeepStep

(* Inv is inductive.                                                       *)
THEOREM Inductive == SQLiteSpec => []Inv
<1>1. ASSUME Inv, [SQLiteNext]_sqliteVars PROVE Inv'
  <2>1. CASE UNCHANGED sqliteVars
    BY <1>1, <2>1 DEF sqliteVars, Inv, SQLiteTypeOK, InitedIsPrepared, InitedIsOwn, ResultsStayLive,
                      Gone, Live
  <2>2. CASE Reset
    BY <1>1, <2>2, ResetStep
  <2>3. CASE InitRaw
    BY <1>1, <2>3, InitRawStep
  <2>4. CASE InitSelect
    BY <1>1, <2>4, InitSelectStep
  <2>5. CASE \E by \in {"insert", "update"}, cols \in ColumnList : InitWrite(by, cols)
    BY <1>1, <2>5, InitWriteStep
  <2>6. CASE Bind(-1, Null) \/ \E idx \in -1..0, v \in Value : Bind(idx, v)
    BY <1>1, <2>6, BindStep
  <2>7. CASE Update
    BY <1>1, <2>7, UpdateStep
  <2>8. CASE Insert
    BY <1>1, <2>8, InsertStep
  <2>9. CASE Pragma
    BY <1>1, <2>9, PragmaStep
  <2>10. CASE Select
    <3>1. Outcomes
      BY <1>1, <2>10 DEF Select, Outcomes, Inv, SQLiteTypeOK
    <3> QED
      BY <1>1, <2>10, <3>1, SelectStep
  <2>11. CASE ExecSqlFn \/ Destroy
    BY <1>1, <2>11, OtherSteps
  <2>12. CASE \E r \in 1..Len(results) : NextRow(r)
    BY <1>1, <2>12, NextRowStep
  <2> QED
    BY <1>1, <2>1, <2>2, <2>3, <2>4, <2>5, <2>6, <2>7, <2>8, <2>9, <2>10, <2>11, <2>12
       DEF SQLiteNext
<1> QED
  BY <1>1, InitInv, PTL DEF SQLiteSpec

(* The object's statement and those of the results are ones that were      *)
(* prepared, and each has as many values as columns.                       *)
THEOREM TypeCorrect == SQLiteSpec => []SQLiteTypeOK
<1>1. Inv => SQLiteTypeOK
  BY DEF Inv
<1> QED
  BY <1>1, Inductive, PTL

(* insert() and update() step no finalized statement, unless it comes from *)
(* init_select().                                                          *)
THEOREM InitedPrepared == SQLiteSpec => []InitedIsPrepared
<1>1. Inv => InitedIsPrepared
  BY DEF Inv
<1> QED
  BY <1>1, Inductive, PTL

(* No call of the object finalizes the statement of a result it gave away. *)
THEOREM ResultsSafe == SQLiteSpec => []ResultsStayLive
<1>1. Inv => ResultsStayLive
  BY DEF Inv
<1> QED
  BY <1>1, Inductive, PTL

-----------------------------------------------------------------------------
(* insert() after init_insert(): that it is all or nothing rests on what   *)
(* its statement holds, which is what the caller has bound since.          *)

Inserting == x.state = "inited" /\ Live(x.stmt) /\ stmts[x.stmt].by = "insert"

Matched(bound, value, n) ==
    \A k \in 1..n : bound[k] = IF k \in DOMAIN value THEN value[k] ELSE Null

BoundAsAsked ==
    /\ asked.calls \in Nat /\ DOMAIN asked.value \subseteq Nat \ {0}
    /\ Inserting =>
          /\ asked.calls = x.next_idx
          /\ Matched(stmts[x.stmt].bound, asked.value, Len(stmts[x.stmt].cols))

(* Nothing is bound, and the object inserts from the statement it had, with *)
(* the values it had, if at all.                                           *)
LEMMA BoundKept ==
  ASSUME BoundAsAsked, asked' = asked,
         Inserting' => /\ Inserting /\ x'.next_idx = x.next_idx
                       /\ stmts'[x'.stmt].bound = stmts[x.stmt].bound
                       /\ stmts'[x'.stmt].cols = stmts[x.stmt].cols
  PROVE  BoundAsAsked'
BY DEF BoundAsAsked

(* What was bound is forgotten, with the statement it was bound to.        *)
LEMMA BoundForgotten ==
  ASSUME asked' = Nothing, ~Inserting'
  PROVE  BoundAsAsked'
BY DEF BoundAsAsked, Nothing

(* A new statement holds nothing, as nothing was bound.                    *)
LEMMA BoundFresh ==
  ASSUME Inv, NEW by \in {"insert", "update"}, NEW cols \in ColumnList, InitWrite(by, cols)
  PROVE  BoundAsAsked'
<1> DEFINE n == Len(stmts) + 1
           st == Prepared(by, cols)
<1>1. stmts \in Seq(Statement) /\ Len(stmts) \in Nat
  BY DEF Inv, SQLiteTypeOK
<1>2. asked' = Nothing
  BY DEF InitWrite
<1>3. CASE stmts' = Append(stmts, st)
           /\ x' = [WithoutQuery(x) EXCEPT !.stmt = n, !.state = "inited"]
  <2>1. WithoutQuery(x) \in Object(Len(stmts)) /\ WithoutQuery(x).next_idx = 0
    BY ObjectType DEF WithoutQuery, Inv, SQLiteTypeOK
  <2>2. x'.stmt = n /\ x'.next_idx = 0
    BY <1>3, <2>1 DEF Object
  <2>3. st \in Statement
    BY PreparedType
  <2>4. stmts'[n] = st
    BY <1>1, <1>3, <2>3
  <2>5. st.bound = [i \in 1..Len(cols) |-> Null] /\ st.cols = cols
    BY DEF Prepared
  <2> HIDE DEF st, n
  <2>6. DOMAIN asked'.value = {} /\ asked'.calls = 0
    BY <1>2 DEF Nothing
  <2>7. Matched(stmts'[x'.stmt].bound, asked'.value, Len(stmts'[x'.stmt].cols))
    BY <2>2, <2>4, <2>5, <2>6 DEF Matched
  <2> QED
    BY <2>2, <2>6, <2>7 DEF BoundAsAsked
<1>4. CASE x' = [WithoutQuery(x) EXCEPT !.stmt = 0]
  <2>1. x'.stmt = 0
    BY <1>4, ObjectType DEF Object
  <2> QED
    BY <1>2, <2>1, BoundForgotten DEF Inserting, Live
<1> QED
  BY <1>3, <1>4 DEF InitWrite, InitRawQuery

(* bind(): the value is where the caller expects it, the next one or that  *)
(* of the index given; what is refused is counted, but not bound.          *)
LEMMA BoundBind ==
  ASSUME Inv, BoundAsAsked, NEW idx \in Int, idx >= -1, NEW v \in Value \cup {Null},
         Bind(idx, v)
  PROVE  BoundAsAsked'
<1> DEFINE i == IF idx = -1 THEN x.next_idx + 1 ELSE idx + 1
           s == x.stmt
           old == stmts[s]
           taken == Live(s) /\ old.at = "ready" /\ i <= Len(old.cols)
           calls == asked.calls + IF idx = -1 THEN 1 ELSE 0
           at == IF idx = -1 THEN calls ELSE idx + 1
           more == [k \in DOMAIN asked.value \cup {at} |-> IF k = at THEN v ELSE asked.value[k]]
<1>0. x \in Object(Len(stmts)) /\ Len(stmts) \in Nat /\ stmts \in Seq(Statement)
  BY ObjectType DEF Inv, SQLiteTypeOK
<1>1. CASE Gone(x.stmt)
  BY <1>1, BoundKept DEF Bind, Undefined, Inserting, Live, Gone
<1>2. CASE ~Gone(x.stmt)
  <2>1. /\ x' = IF idx = -1 THEN [x EXCEPT !.next_idx = @ + 1] ELSE x
        /\ IF taken THEN stmts' = [stmts EXCEPT ![x.stmt].bound[i] = v]
           ELSE UNCHANGED stmts
        /\ asked' = Noted(idx, v, taken)
    BY <1>2 DEF Bind
  <2>2. /\ x'.stmt = x.stmt /\ x'.state = x.state
        /\ x'.next_idx = x.next_idx + IF idx = -1 THEN 1 ELSE 0
    BY <1>0, <2>1 DEF Object
  <2>3. asked'.calls = calls /\ asked'.value = IF taken THEN more ELSE asked.value
    BY <2>1 DEF Noted
  <2>4. CASE ~taken
    <3>1. stmts' = stmts /\ asked'.value = asked.value
      BY <2>1, <2>3, <2>4
    <3>2. Inserting' <=> Inserting
      BY <2>2, <3>1 DEF Inserting, Live
    <3> QED
      BY <2>2, <2>3, <3>1, <3>2 DEF BoundAsAsked
  <2>5. CASE taken
    <3>1. s \in 1..Len(stmts) /\ old \in Statement /\ Len(old.bound) = Len(old.cols)
      BY <1>0, <2>5 DEF Live, Object, Inv, SQLiteTypeOK
    <3>2. stmts' = [stmts EXCEPT ![s] = [old EXCEPT !.bound = [old.bound EXCEPT ![i] = v]]]
      BY <2>1, <2>5
    <3>3. stmts'[s] = [old EXCEPT !.bound = [old.bound EXCEPT ![i] = v]]
      BY <1>0, <3>1, <3>2
    <3> HIDE DEF old, i
    <3>4. /\ stmts'[s].bound = [old.bound EXCEPT ![i] = v] /\ stmts'[s].cols = old.cols
          /\ stmts'[s].by = old.by /\ stmts'[s].finalized = old.finalized
      BY <3>1, <3>3 DEF Statement
    <3>5. Inserting' <=> Inserting
      BY <2>2, <3>4 DEF Inserting, Live, old
    <3>6. asked'.value = more
      BY <2>3, <2>5
    <3>7. CASE ~Inserting
      <4>1. at \in Nat \ {0}
        BY DEF BoundAsAsked
      <4> QED
        BY <2>3, <3>5, <3>6, <3>7, <4>1 DEF BoundAsAsked
    <3>8. CASE Inserting
      <4>1. at = i /\ i \in Nat \ {0} /\ calls = x'.next_idx
        BY <1>0, <2>2, <3>8 DEF BoundAsAsked, i, Object
      <4>2. DOMAIN more \subseteq Nat \ {0}
        BY <4>1 DEF BoundAsAsked
      <4>3. ASSUME NEW k \in 1..Len(old.cols)
            PROVE  [old.bound EXCEPT ![i] = v][k]
                     = IF k \in DOMAIN more THEN more[k] ELSE Null
        <5>1. k \in DOMAIN old.bound
          BY <3>1 DEF Statement
        <5>2. old.bound[k] = IF k \in DOMAIN asked.value THEN asked.value[k] ELSE Null
          BY <3>8 DEF BoundAsAsked, Matched, old
        <5> HIDE DEF at
        <5> QED
          BY <4>1, <5>1, <5>2
      <4> HIDE DEF more, calls
      <4>4. Matched(stmts'[x'.stmt].bound, asked'.value, Len(stmts'[x'.stmt].cols))
        BY <2>2, <3>4, <3>6, <4>3 DEF Matched
      <4>5. calls \in Nat
        BY DEF BoundAsAsked, calls
      <4> QED
        BY <2>3, <3>6, <4>1, <4>2, <4>4, <4>5 DEF BoundAsAsked
    <3> QED
      BY <3>7, <3>8
  <2> QED
    BY <2>4, <2>5
<1> QED
  BY <1>1, <1>2

(* A step of a statement leaves it its values.                             *)
LEMMA SteppedKeeps ==
  ASSUME Inv, NEW s \in 1..Len(stmts), NEW ret, stmts' = Stepped(s, ret),
         NEW k \in 1..Len(stmts)
  PROVE  /\ stmts'[k].bound = stmts[k].bound /\ stmts'[k].cols = stmts[k].cols
         /\ stmts'[k].by = stmts[k].by /\ stmts'[k].finalized = stmts[k].finalized
<1> DEFINE old == stmts[s]
           at == IF ret = "row" THEN "row" ELSE "halted"
           row == IF ret = "row" THEN old.row + 1 ELSE 0
<1>1. stmts \in Seq(Statement) /\ k \in DOMAIN stmts
  BY DEF Inv, SQLiteTypeOK
<1>2. old \in Statement
  BY <1>1
<1>3. stmts' = [stmts EXCEPT ![s] = [old EXCEPT !.at = at, !.row = row]]
  BY DEF Stepped
<1> HIDE DEF at, row
<1>4. CASE k # s
  BY <1>1, <1>3, <1>4
<1>5. CASE k = s
  <2>1. stmts'[k] = [old EXCEPT !.at = at, !.row = row] /\ stmts[k] = old
    <3> DEFINE st == [old EXCEPT !.at = at, !.row = row]
    <3>1. stmts' = [stmts EXCEPT ![s] = st] /\ stmts[k] = old
      BY <1>3, <1>5
    <3> HIDE DEF st, old
    <3>2. stmts'[k] = st
      BY <1>1, <1>5, <3>1
    <3> QED
      BY <3>1, <3>2 DEF st
  <2> HIDE DEF old
  <2> QED
    BY <1>2, <2>1 DEF Statement
<1> QED
  BY <1>4, <1>5

(* An execution that is not done leaves the values bound; one that is      *)
(* leaves nothing to insert.                                               *)
LEMMA BoundExecute ==
  ASSUME Inv, BoundAsAsked, NEW o \in Object(Len(stmts)), Execute(o)
  PROVE  BoundAsAsked'
<1>0. x \in Object(Len(stmts)) /\ Len(stmts) \in Nat
  BY ObjectType DEF Inv, SQLiteTypeOK
<1>1. CASE ThrowError \/ Undefined
  BY <1>1, BoundKept DEF ThrowError, Undefined, Inserting, Live
<1>2. CASE ~(ThrowError \/ Undefined)
  <2>1. x.stmt # 0
    BY <1>2 DEF Execute
  <2>2. x.stmt \in 1..Len(stmts)
    BY <1>0, <2>1 DEF Object
  <2>3. PICK ret \in Codes(x.stmt) :
          /\ asked' = asked
          /\ \/ x' = ExecutedObject(o)
             \/ x' = x /\ stmts' = Stepped(x.stmt, ret)
    BY <1>2 DEF Execute
  <2>4. CASE x' = ExecutedObject(o)
    <3>1. x'.state = "finished"
      BY <2>4 DEF ExecutedObject, Object
    <3> QED
      BY <2>3, <3>1, BoundKept DEF Inserting
  <2>5. CASE x' = x /\ stmts' = Stepped(x.stmt, ret)
    <3>1. /\ stmts'[x.stmt].bound = stmts[x.stmt].bound
          /\ stmts'[x.stmt].cols = stmts[x.stmt].cols
          /\ stmts'[x.stmt].by = stmts[x.stmt].by
          /\ stmts'[x.stmt].finalized = stmts[x.stmt].finalized
      BY <2>2, <2>5, SteppedKeeps
    <3> QED
      BY <2>3, <2>5, <3>1, BoundKept DEF Inserting, Live
  <2> QED
    BY <2>3, <2>4, <2>5
<1> QED
  BY <1>1, <1>2

(* A result's step is none of the object's, though the statement may be.   *)
LEMMA BoundNextRow ==
  ASSUME Inv, BoundAsAsked, NEW r \in 1..Len(results), NextRow(r)
  PROVE  BoundAsAsked'
<1> DEFINE s == results[r].stmt
<1>0. s \in 0..Len(stmts) /\ x.stmt \in 0..Len(stmts) /\ Len(stmts) \in Nat
  BY OwnedStatements DEF Inv, SQLiteTypeOK
<1>1. CASE ThrowError \/ Undefined
  BY <1>1, BoundKept DEF ThrowError, Undefined, Inserting, Live
<1>2. CASE ~(ThrowError \/ Undefined)
  <2>1. s \in 1..Len(stmts)
    BY <1>0, <1>2 DEF NextRow
  <2>2. PICK ret \in Codes(s) : asked' = asked /\ x' = x /\ stmts' = Stepped(s, ret)
    BY <1>2 DEF NextRow
  <2>3. ASSUME x.stmt # 0
        PROVE  /\ stmts'[x.stmt].bound = stmts[x.stmt].bound
               /\ stmts'[x.stmt].cols = stmts[x.stmt].cols
               /\ stmts'[x.stmt].by = stmts[x.stmt].by
               /\ stmts'[x.stmt].finalized = stmts[x.stmt].finalized
    <3> HIDE DEF s
    <3> QED
      BY <1>0, <2>1, <2>2, <2>3, SteppedKeeps
  <2> QED
    BY <2>2, <2>3, BoundKept DEF Inserting, Live
<1> QED
  BY <1>1, <1>2

(* A statement of another method is nobody's to insert from.               *)
LEMMA BoundInitRaw ==
  ASSUME Inv, BoundAsAsked, InitRaw
  PROVE  BoundAsAsked'
<1> DEFINE st == Prepared("raw", <<>>)
<1>0. /\ x \in Object(Len(stmts)) /\ Len(stmts) \in Nat /\ stmts \in Seq(Statement)
  BY ObjectType DEF Inv, SQLiteTypeOK
<1>1. asked' = asked
  BY DEF InitRaw
<1>2. CASE stmts' = Append(stmts, st)
           /\ x' = [x EXCEPT !.stmt = Len(stmts) + 1, !.state = "inited"]
  <2>1. x'.stmt = Len(stmts) + 1
    BY <1>0, <1>2 DEF Object
  <2>2. st \in Statement /\ st.by = "raw"
    BY PreparedType
  <2>3. stmts'[Len(stmts) + 1] = st
    BY <1>0, <1>2, <2>2
  <2> QED
    BY <1>1, <2>1, <2>2, <2>3, BoundKept DEF Inserting
<1>3. CASE x' = [x EXCEPT !.stmt = 0]
  <2>1. x'.stmt = 0
    BY <1>0, <1>3 DEF Object
  <2> QED
    BY <1>1, <2>1, BoundKept DEF Inserting, Live
<1> QED
  BY <1>2, <1>3 DEF InitRaw, InitRawQuery

(* reset(), init_select() and pragma() leave nothing to insert.            *)
LEMMA BoundNothing ==
  ASSUME Inv, Reset \/ InitSelect \/ Pragma
  PROVE  BoundAsAsked'
<1> DEFINE o == WithoutQuery(x)
<1>0. /\ o \in Object(Len(stmts)) /\ o.state = "ready"
      /\ Len(stmts) \in Nat /\ stmts \in Seq(Statement)
  BY ObjectType DEF Inv, SQLiteTypeOK, WithoutQuery
<1>1. asked' = Nothing
  BY DEF Reset, InitSelect, Pragma
<1> DEFINE fresh == Prepared("select", <<>>)
           st == [fresh EXCEPT !.finalized = TRUE]
<1>2. \/ x' = o
      \/ x' = [o EXCEPT !.stmt = 0]
      \/ x' = [o EXCEPT !.stmt = Len(stmts) + 1, !.state = "finished"]
      \/ /\ x' = [o EXCEPT !.stmt = Len(stmts) + 1, !.state = "inited"]
         /\ stmts' = Append(stmts, st)
  BY DEF Reset, InitSelect, Pragma
<1>3. fresh \in Statement
  BY PreparedType
<1> HIDE DEF o, fresh
<1>4. st \in Statement /\ st.finalized
  BY <1>3 DEF Statement
<1> HIDE DEF st
<1>5. ~Inserting'
  <2>1. CASE x' = o
    BY <1>0, <2>1 DEF Inserting
  <2>2. CASE x' = [o EXCEPT !.stmt = 0]
    BY <1>0, <2>2 DEF Inserting, Object
  <2>3. CASE x' = [o EXCEPT !.stmt = Len(stmts) + 1, !.state = "finished"]
    BY <1>0, <2>3 DEF Inserting, Object
  <2>4. CASE /\ x' = [o EXCEPT !.stmt = Len(stmts) + 1, !.state = "inited"]
             /\ stmts' = Append(stmts, st)
    <3>1. x'.stmt = Len(stmts) + 1
      BY <1>0, <2>4 DEF Object
    <3>2. stmts'[Len(stmts) + 1] = st
      BY <1>0, <1>4, <2>4
    <3> QED
      BY <1>4, <3>1, <3>2 DEF Inserting, Live
  <2> QED
    BY <1>2, <2>1, <2>2, <2>3, <2>4
<1> QED
  BY <1>1, <1>5, BoundForgotten

(* select() leaves nothing to insert; the script and the destructor touch  *)
(* no statement.                                                           *)
LEMMA BoundOthers ==
  ASSUME Inv, BoundAsAsked, Select \/ ExecSqlFn \/ Destroy
  PROVE  BoundAsAsked'
<1>1. CASE Select
  <2>1. x'.state = "ready"
    BY <1>1, ObjectType DEF Select, Object
  <2> QED
    BY <1>1, <2>1, BoundKept DEF Select, Inserting
<1>2. CASE ExecSqlFn \/ Destroy
  BY <1>2, BoundKept DEF ExecSqlFn, Destroy, Inserting, Live
<1> QED
  BY <1>1, <1>2

(* The statement that insert() is about to execute holds exactly what has  *)
(* been bound since init_insert(), by position.                            *)
THEOREM BoundInvariant == SQLiteSpec => []BoundAsAsked
<1>1. SQLiteInit => BoundAsAsked
  BY DEF SQLiteInit, BoundAsAsked, Nothing, Inserting
<1>2. ASSUME Inv, BoundAsAsked, [SQLiteNext]_sqliteVars PROVE BoundAsAsked'
  <2>1. CASE UNCHANGED sqliteVars
    BY <1>2, <2>1 DEF sqliteVars, BoundAsAsked, Inserting, Live
  <2>2. CASE Reset \/ InitSelect \/ Pragma
    BY <1>2, <2>2, BoundNothing
  <2>3. CASE InitRaw
    BY <1>2, <2>3, BoundInitRaw
  <2>4. CASE \E by \in {"insert", "update"}, cols \in ColumnList : InitWrite(by, cols)
    BY <1>2, <2>4, BoundFresh
  <2>5. CASE Bind(-1, Null) \/ \E idx \in -1..0, v \in Value : Bind(idx, v)
    BY <1>2, <2>5, BoundBind
  <2>6. CASE Update
    BY <1>2, <2>6, ObjectType, BoundExecute DEF Update
  <2>7. CASE Insert
    <3> DEFINE id == Len(IF Live(x.stmt) THEN Executed(x.stmt) ELSE table)
               o == [x EXCEPT !.last_insert_id = id]
    <3>1. x \in Object(Len(stmts)) /\ Len(stmts) \in Nat /\ table \in Seq(Row)
      BY <1>2, ObjectType DEF Inv, SQLiteTypeOK
    <3>2. Live(x.stmt) => Executed(x.stmt) \in Seq(Row)
      BY <1>2, <3>1, ExecutedType DEF Inv, Live, Object
    <3>3. id \in Int
      BY <3>1, <3>2
    <3>4. Execute(o)
      BY <2>7 DEF Insert
    <3> HIDE DEF id
    <3>5. o \in Object(Len(stmts))
      BY <3>1, <3>3 DEF Object
    <3> QED
      BY <1>2, <3>4, <3>5, BoundExecute
  <2>8. CASE Select \/ ExecSqlFn \/ Destroy
    BY <1>2, <2>8, BoundOthers
  <2>9. CASE \E r \in 1..Len(results) : NextRow(r)
    BY <1>2, <2>9, BoundNextRow
  <2> QED
    BY <1>2, <2>1, <2>2, <2>3, <2>4, <2>5, <2>6, <2>7, <2>8, <2>9 DEF SQLiteNext
<1> QED
  BY <1>1, <1>2, Inductive, PTL DEF SQLiteSpec

-----------------------------------------------------------------------------
(* The row that insert() adds, as the caller sees it.                      *)
Wanted(cols, value) ==
    [c \in Column |-> IF \E k \in DOMAIN value : k <= Len(cols) /\ cols[k] = c
                      THEN value[Position(cols, c)] ELSE Null]

(* What a statement writes over a row of nulls, when it holds what has     *)
(* been bound, is that row.                                                *)
LEMMA WrittenIsWanted ==
  ASSUME NEW cols \in ColumnList \cup {<<>>}, NEW bound, NEW value,
         DOMAIN value \subseteq Nat \ {0}, Matched(bound, value, Len(cols))
  PROVE  Overwritten([c \in Column |-> Null], cols, bound) = Wanted(cols, value)
<1>0. cols \in Seq(Column)
  BY ColumnsAssumption, EmptySequence
<1>1. cols \in Seq(Column) /\ Len(cols) \in Nat
  BY <1>0
<1>2. \A i, k \in 1..Len(cols) : cols[i] = cols[k] => i = k
  BY <1>1, ColumnsAssumption DEF IsInjective
<1>3. ASSUME NEW c \in Column
      PROVE  (IF c \in ToSet(cols) THEN bound[Position(cols, c)] ELSE Null)
             = IF \E k \in DOMAIN value : k <= Len(cols) /\ cols[k] = c
               THEN value[Position(cols, c)] ELSE Null
  <2>1. CASE \E k \in 1..Len(cols) : cols[k] = c
    <3>1. PICK i \in 1..Len(cols) : cols[i] = c
      BY <2>1
    <3>2. Position(cols, c) = i
      BY <1>2, <3>1 DEF Position
    <3>3. c \in ToSet(cols)
      BY <1>1, <3>1 DEF ToSet
    <3>4. (\E k \in DOMAIN value : k <= Len(cols) /\ cols[k] = c) <=> i \in DOMAIN value
      BY <1>1, <1>2, <3>1
    <3> QED
      BY <3>1, <3>2, <3>3, <3>4 DEF Matched
  <2>2. CASE ~\E k \in 1..Len(cols) : cols[k] = c
    <3>1. c \notin ToSet(cols)
      BY <1>1, <2>2 DEF ToSet
    <3>2. ~\E k \in DOMAIN value : k <= Len(cols) /\ cols[k] = c
      BY <1>1, <2>2
    <3> QED
      BY <3>1, <3>2
  <2> QED
    BY <2>1, <2>2
<1> QED
  BY <1>3 DEF Overwritten, Wanted

(* One step of insert().                                                   *)
LEMMA InsertKeepsOrAppends ==
  ASSUME Inv, BoundAsAsked, Insert
  PROVE  /\ outcome' = "thrown" => table' = table
         /\ (outcome' = "returned" /\ stmts[x.stmt].by = "insert") =>
               /\ table' = Append(table, Wanted(stmts[x.stmt].cols, asked.value))
               /\ x'.last_insert_id = Len(table')
<1> DEFINE s == x.stmt
           old == stmts[s]
           id == Len(IF Live(s) THEN Executed(s) ELSE table)
           o == [x EXCEPT !.last_insert_id = id]
<1>0. x \in Object(Len(stmts)) /\ Len(stmts) \in Nat /\ stmts \in Seq(Statement)
  BY ObjectType DEF Inv, SQLiteTypeOK
<1>1. Execute(o)
  BY DEF Insert
<1>2. outcome' = "thrown" => table' = table
  BY <1>1 DEF Execute, ThrowError, Undefined
<1>3. ASSUME outcome' = "returned", old.by = "insert"
      PROVE  /\ table' = Append(table, Wanted(old.cols, asked.value))
             /\ x'.last_insert_id = Len(table')
  <2>1. /\ x.state = "inited" /\ s # 0 /\ ~Gone(s)
        /\ table' = Executed(s) /\ x' = ExecutedObject(o)
    BY <1>1, <1>3 DEF Execute, ThrowError, Undefined
  <2>2. Live(s) /\ s \in 1..Len(stmts)
    BY <1>0, <2>1 DEF Live, Gone, Object
  <2>3. Inserting
    BY <1>3, <2>1, <2>2 DEF Inserting
  <2>4. Matched(old.bound, asked.value, Len(old.cols)) /\ DOMAIN asked.value \subseteq Nat \ {0}
    BY <2>3 DEF BoundAsAsked
  <2>5. old.cols \in ColumnList \cup {<<>>}
    <3>1. old \in Statement
      BY <1>0, <2>2
    <3> HIDE DEF old
    <3> QED
      BY <3>1 DEF Statement
  <2>6. Executed(s)
          = Append(table, Overwritten([c \in Column |-> Null], old.cols, old.bound))
    BY <1>3 DEF Executed
  <2>7. x'.last_insert_id = id
    <3> HIDE DEF id
    <3> QED
      BY <1>0, <2>1 DEF ExecutedObject, Object
  <2> QED
    BY <2>1, <2>2, <2>4, <2>5, <2>6, <2>7, WrittenIsWanted
<1> QED
  BY <1>2, <1>3

(* insert() after init_insert() is all or nothing, and what it adds is     *)
(* what was bound.                                                         *)
THEOREM InsertIsAllOrNothing == SQLiteSpec => InsertIsAtomic
<1>1. ASSUME Inv, BoundAsAsked, [SQLiteNext]_sqliteVars
      PROVE  [Insert =>
                /\ outcome' = "thrown" => table' = table
                /\ (outcome' = "returned" /\ stmts[x.stmt].by = "insert") =>
                      LET cols == stmts[x.stmt].cols
                          row == [c \in Column |->
                                    IF \E k \in DOMAIN asked.value : k <= Len(cols) /\ cols[k] = c
                                    THEN asked.value[Position(cols, c)] ELSE Null]
                      IN  table' = Append(table, row) /\ x'.last_insert_id = Len(table')]_sqliteVars
  BY <1>1, InsertKeepsOrAppends DEF Wanted
<1> QED
  BY <1>1, Inductive, BoundInvariant, PTL DEF SQLiteSpec, InsertIsAtomic

-----------------------------------------------------------------------------
(***************************************************************************)
(* TemplateParser: who owns a tree.                                        *)
(***************************************************************************)

(* What matters of a parser and of a tree for who owns what.  The other    *)
(* fields may hold anything.                                               *)
IsParser(o) == {"alive", "main", "tree"} \subseteq DOMAIN o /\ o.alive \in BOOLEAN /\ o.main \in BOOLEAN
IsTree(tree) == "alive" \in DOMAIN tree /\ tree.alive \in BOOLEAN

(* The main parsers that are alive and have the tree t.                    *)
Owners(t) == {p \in 1..Len(parsers) : parsers[p].alive /\ parsers[p].main /\ parsers[p].tree = t}

(* The owners of all trees, of which a parser has none that is yet to come.*)
Owned ==
    /\ IsSequence(parsers) /\ IsSequence(trees)
    /\ \A p \in 1..Len(parsers) :
          /\ IsParser(parsers[p])
          /\ parsers[p].alive /\ parsers[p].main => parsers[p].tree \in 1..Len(trees)
    /\ \A t \in 1..Len(trees) : IsTree(trees[t])
    /\ TreesAreOwned

(* A tree that has an owner has one, and one that lives has one.           *)
LEMMA OwnersOf ==
    ASSUME Owned, NEW t \in 1..Len(trees)
    PROVE  /\ IF trees[t].alive THEN \E q \in Owners(t) : Owners(t) = {q} ELSE Owners(t) = {}
           /\ \A p \in Owners(t) : Owners(t) = {p}
<1>1. IF trees[t].alive THEN \E q \in Owners(t) : Owners(t) = {q} ELSE Owners(t) = {}
    BY DEF Owned, TreesAreOwned, Owners
<1> QED
    BY <1>1

(* The same owner, whatever else has changed.                              *)
SameOwner(r, o) == IsParser(r) /\ r.alive = o.alive /\ r.main = o.main /\ r.tree = o.tree

(* New parsers and trees are some.                                         *)
LEMMA NewOnes ==
    /\ \A pieces : IsTree(NewTree(pieces)) /\ NewTree(pieces).alive
    /\ \A main \in BOOLEAN : \A t, node, path, subs :
              /\ IsParser(NewParser(main, t, node, path, subs))
              /\ NewParser(main, t, node, path, subs).alive
              /\ NewParser(main, t, node, path, subs).main = main
              /\ NewParser(main, t, node, path, subs).tree = t
BY DEF NewTree, NewParser, IsTree, IsParser

(* Rendering and setting keys change no owner.                             *)
LEMMA RenderedOwner ==
    ASSUME NEW p, IsParser(parsers[p])
    PROVE  SameOwner(Rendered(p).parser, parsers[p])
BY DEF Rendered, SameOwner, IsParser

(* Setting a key, or an item of a loop, changes no owner.                  *)
LEMMA WithKeyOwner ==
    ASSUME NEW o, IsParser(o), NEW k, NEW val
    PROVE  SameOwner(WithKey(o, k, val), o) /\ SameOwner(WithItem(o, k, val), o)
BY DEF WithKey, WithItem, SameOwner, IsParser

(* A tree that is deleted is still a tree, and the others are the same.    *)
LEMMA DeletedTree ==
    ASSUME IsSequence(trees), \A t \in 1..Len(trees) : IsTree(trees[t]), NEW t \in 1..Len(trees),
           NEW after, after = [trees EXCEPT ![t].alive = FALSE]
    PROVE  /\ IsSequence(after) /\ Len(after) = Len(trees)
           /\ \A u \in 1..Len(trees) : /\ IsTree(after[u])
                                       /\ u # t => after[u] = trees[u]
           /\ ~ after[t].alive
<1> DEFINE tree == [trees[t] EXCEPT !.alive = FALSE]
<1>1. after = [trees EXCEPT ![t] = tree]
    OBVIOUS
<1>2. IsTree(tree) /\ ~ tree.alive
    BY DEF IsTree
<1> HIDE DEF tree
<1>3. DOMAIN trees = 1..Len(trees)
    BY SequenceLen
<1>4. \A u \in 1..Len(trees) : after[u] = IF u = t THEN tree ELSE trees[u]
    BY <1>1, <1>3
<1>5. IsSequence(after) /\ Len(after) = Len(trees)
  <2>1. LET r == [trees EXCEPT ![t] = tree] IN IsSequence(r) /\ Len(r) = Len(trees)
      BY ExceptIsSequence
  <2> QED
      BY <1>1, <2>1, Zenon
<1> QED
    BY <1>2, <1>4, <1>5

(* A step that changes no owner, nor the life of a tree.                   *)
LEMMA SameOwnersStep ==
    ASSUME Owned, IsSequence(parsers'), Len(parsers') = Len(parsers), trees' = trees,
           \A p \in 1..Len(parsers) : SameOwner(parsers'[p], parsers[p])
    PROVE  Owned'
<1>1. \A t \in 1..Len(trees) : Owners(t)' = Owners(t)
    BY DEF Owners, SameOwner
<1>2. TreesAreOwned'
    BY <1>1 DEF Owned, TreesAreOwned, Owners
<1> QED
    BY <1>2 DEF Owned, SameOwner

(* Overwriting one parser by one with the same owner.                      *)
LEMMA SameOwnerStep ==
    ASSUME Owned, NEW p \in 1..Len(parsers), NEW o, SameOwner(o, parsers[p]),
           parsers' = [parsers EXCEPT ![p] = o], trees' = trees
    PROVE  Owned'
<1>1. DOMAIN parsers = 1..Len(parsers)
    BY SequenceLen DEF Owned
<1>2. \A q \in 1..Len(parsers) : parsers'[q] = IF q = p THEN o ELSE parsers[q]
    BY <1>1
<1>3. \A q \in 1..Len(parsers) : SameOwner(parsers'[q], parsers[q])
    BY <1>2 DEF SameOwner, Owned
<1>4. IsSequence(parsers') /\ Len(parsers') = Len(parsers)
    BY ExceptIsSequence DEF Owned
<1> QED
    BY <1>3, <1>4, SameOwnersStep

(* Two of them at once.                                                    *)
LEMMA SameOwnersBothStep ==
    ASSUME Owned, NEW p \in 1..Len(parsers), NEW q \in 1..Len(parsers), p # q,
           NEW o, SameOwner(o, parsers[p]), NEW r, SameOwner(r, parsers[q]),
           parsers' = [parsers EXCEPT ![p] = o, ![q] = r], trees' = trees
    PROVE  Owned'
<1> DEFINE mid == [parsers EXCEPT ![p] = o]
<1>1. DOMAIN parsers = 1..Len(parsers)
    BY SequenceLen DEF Owned
<1>2. \A i \in 1..Len(parsers) : parsers'[i] = IF i = q THEN r ELSE IF i = p THEN o ELSE parsers[i]
    BY <1>1
<1>3. \A i \in 1..Len(parsers) : SameOwner(parsers'[i], parsers[i])
    BY <1>2 DEF SameOwner, Owned
<1>4. IsSequence(mid) /\ Len(mid) = Len(parsers)
    BY ExceptIsSequence DEF Owned
<1>5. parsers' = [mid EXCEPT ![q] = r]
    OBVIOUS
<1> HIDE DEF mid
<1>6. IsSequence(parsers') /\ Len(parsers') = Len(parsers)
  <2>1. LET s == [mid EXCEPT ![q] = r] IN IsSequence(s) /\ Len(s) = Len(mid)
      BY <1>4, ExceptIsSequence
  <2> QED
      BY <1>4, <1>5, <2>1, Zenon
<1> QED
    BY <1>3, <1>6, SameOwnersStep

(* The constructor makes a tree and its owner.                             *)
LEMMA ConstructStep ==
    ASSUME Owned, NEW path, Construct(path)
    PROVE  Owned'
<1>0. PICK t, n : t = Len(trees) + 1 /\ n = Len(parsers) + 1
    OBVIOUS
<1> DEFINE tree == NewTree(files[path])
           o == NewParser(TRUE, t, 1, path, Entered(None, t, tree.nodes))
<1>1. /\ trees' = Append(trees, tree) /\ parsers' = Append(parsers, o)
      /\ IsTree(tree) /\ tree.alive
      /\ IsParser(o) /\ o.alive /\ o.main /\ o.tree = t
  <2>1. IsTree(tree) /\ tree.alive
      BY NewOnes
  <2>2. IsParser(o) /\ o.alive /\ o.main /\ o.tree = t
    <3> DEFINE subs == Entered(None, t, tree.nodes)
    <3>1. o = NewParser(TRUE, t, 1, path, subs)
        OBVIOUS
    <3> HIDE DEF subs, o
    <3>2. /\ IsParser(NewParser(TRUE, t, 1, path, subs)) /\ NewParser(TRUE, t, 1, path, subs).alive
          /\ NewParser(TRUE, t, 1, path, subs).main /\ NewParser(TRUE, t, 1, path, subs).tree = t
        BY DEF NewParser, IsParser
    <3> QED
        BY <3>1, <3>2
  <2> QED
      BY <1>0, <2>1, <2>2 DEF Construct
<1> HIDE DEF tree, o
<1>2. /\ IsSequence(parsers') /\ Len(parsers') = n /\ parsers'[n] = o
      /\ \A p \in 1..Len(parsers) : parsers'[p] = parsers[p]
      /\ IsSequence(trees') /\ Len(trees') = t /\ trees'[t] = tree
      /\ \A u \in 1..Len(trees) : trees'[u] = trees[u]
      /\ Len(parsers) \in Nat /\ Len(trees) \in Nat
      /\ t = Len(trees) + 1 /\ n = Len(parsers) + 1
    BY <1>0, <1>1, AppendIsSequence, SequenceLen DEF Owned
<1>3. \A u \in 1..Len(trees) : Owners(u)' = Owners(u)
    BY <1>1, <1>2 DEF Owners
<1>4. Owners(t)' = {n}
  <2>1. \A p \in 1..Len(parsers) : p \notin Owners(t)'
      BY <1>2 DEF Owners, Owned
  <2>2. n \in Owners(t)' /\ Owners(t)' \subseteq 1..n
      BY <1>1, <1>2 DEF Owners
  <2> QED
      BY <1>2, <2>1, <2>2
<1>5. TreesAreOwned'
  <2>1. ASSUME NEW u \in 1..Len(trees)'
        PROVE  IF trees'[u].alive THEN \E q \in Owners(u)' : Owners(u)' = {q} ELSE Owners(u)' = {}
    <3>1. CASE u = t
        BY <1>1, <1>2, <1>4, <3>1
    <3>2. CASE u # t
      <4>1. u \in 1..Len(trees) /\ trees'[u] = trees[u] /\ Owners(u)' = Owners(u)
          BY <1>2, <1>3, <3>2
      <4> QED
          BY <4>1, OwnersOf
    <3> QED
        BY <3>1, <3>2
  <2> QED
      BY <2>1 DEF TreesAreOwned, Owners
<1> QED
    BY <1>1, <1>2, <1>5 DEF Owned

(* replace_template() deletes the tree and makes another one.              *)
LEMMA ReplaceTemplateStep ==
    ASSUME Owned, NEW p \in 1..Len(parsers), NEW path, ReplaceTemplate(p, path)
    PROVE  Owned'
<1>0. PICK old, t : old = parsers[p].tree /\ t = Len(trees) + 1
    OBVIOUS
<1> DEFINE mid == [trees EXCEPT ![old].alive = FALSE]
           tree == NewTree(files[path])
           o == ReplacedTemplate(parsers[p], t, path)
<1>1. parsers[p].alive /\ parsers[p].main /\ old \in 1..Len(trees) /\ IsParser(parsers[p])
    BY <1>0 DEF ReplaceTemplate, Running, Owned
<1>2. /\ trees' = Append(mid, tree) /\ parsers' = [parsers EXCEPT ![p] = o]
      /\ IsTree(tree) /\ tree.alive
      /\ IsParser(o) /\ o.alive /\ o.main /\ o.tree = t
  <2>1. IsParser(o) /\ o.alive /\ o.main /\ o.tree = t
      BY <1>1 DEF ReplacedTemplate, IsParser
  <2>2. IsTree(tree) /\ tree.alive
      BY NewOnes
  <2> QED
      BY <1>0, <2>1, <2>2 DEF ReplaceTemplate
<1> HIDE DEF tree, o
<1>3. /\ IsSequence(mid) /\ Len(mid) = Len(trees)
      /\ \A u \in 1..Len(trees) : IsTree(mid[u]) /\ (u # old => mid[u] = trees[u])
      /\ ~ mid[old].alive
    BY <1>1, DeletedTree DEF Owned
<1> HIDE DEF mid
<1>4. /\ IsSequence(trees') /\ Len(trees') = t /\ trees'[t] = tree
      /\ \A u \in 1..Len(trees) : trees'[u] = mid[u]
      /\ Len(parsers) \in Nat /\ Len(trees) \in Nat /\ t = Len(trees) + 1
    BY <1>0, <1>2, <1>3, AppendIsSequence, SequenceLen DEF Owned
<1>5. /\ IsSequence(parsers') /\ Len(parsers') = Len(parsers) /\ parsers'[p] = o
      /\ \A q \in 1..Len(parsers) : q # p => parsers'[q] = parsers[q]
  <2>1. DOMAIN parsers = 1..Len(parsers)
      BY SequenceLen DEF Owned
  <2> QED
      BY <1>2, <2>1, ExceptIsSequence DEF Owned
<1>6. \A u \in 1..Len(trees) : u # old => Owners(u)' = Owners(u)
    BY <1>0, <1>1, <1>2, <1>4, <1>5 DEF Owners
<1>7. Owners(t)' = {p}
  <2>1. \A q \in 1..Len(parsers) : q # p => q \notin Owners(t)'
      BY <1>4, <1>5 DEF Owners, Owned
  <2>2. p \in Owners(t)' /\ Owners(t)' \subseteq 1..Len(parsers)
      BY <1>2, <1>5 DEF Owners
  <2> QED
      BY <2>1, <2>2
<1>8. Owners(old)' = {}
  <2>1. Owners(old) = {p}
    <3>1. p \in Owners(old)
        BY <1>0, <1>1 DEF Owners
    <3> QED
        BY <1>1, <3>1, OwnersOf
  <2>2. p \notin Owners(old)' /\ Owners(old)' \subseteq 1..Len(parsers)
      BY <1>1, <1>2, <1>4, <1>5 DEF Owners
  <2>3. \A q \in 1..Len(parsers) : q # p => (q \in Owners(old)' <=> q \in Owners(old))
      BY <1>5 DEF Owners
  <2> QED
      BY <2>1, <2>2, <2>3
<1>9. TreesAreOwned'
  <2>1. ASSUME NEW u \in 1..Len(trees)'
        PROVE  IF trees'[u].alive THEN \E q \in Owners(u)' : Owners(u)' = {q} ELSE Owners(u)' = {}
    <3>1. CASE u = t
        BY <1>2, <1>4, <1>7, <3>1
    <3>2. CASE u = old
        BY <1>1, <1>3, <1>4, <1>8, <3>2
    <3>3. CASE u # t /\ u # old
      <4>1. u \in 1..Len(trees) /\ trees'[u] = trees[u] /\ Owners(u)' = Owners(u)
          BY <1>3, <1>4, <1>6, <3>3
      <4> QED
          BY <4>1 DEF Owned, TreesAreOwned, Owners
    <3> QED
        BY <3>1, <3>2, <3>3
  <2> QED
      BY <2>1 DEF TreesAreOwned, Owners
<1>10. \A u \in 1..Len(trees)' : IsTree(trees'[u])
    BY <1>2, <1>3, <1>4
<1>11. \A q \in 1..Len(parsers)' :
          /\ IsParser(parsers'[q])
          /\ parsers'[q].alive /\ parsers'[q].main => parsers'[q].tree \in 1..Len(trees)'
    BY <1>2, <1>4, <1>5 DEF Owned
<1> QED
    BY <1>4, <1>5, <1>9, <1>10, <1>11 DEF Owned

(* A sub-parser owns nothing.                                              *)
LEMMA NewSubtemplateStep ==
    ASSUME Owned, NEW p \in 1..Len(parsers), NEW s, NewSubtemplate(p, s)
    PROVE  Owned'
<1>0. PICK n : n = Len(parsers) + 1
    OBVIOUS
<1>1. PICK o : parsers' = Append(parsers, o) /\ IsParser(o) /\ ~ o.main
    BY NewOnes DEF NewSubtemplate
<1>2. /\ IsSequence(parsers') /\ Len(parsers') = n /\ parsers'[n] = o
      /\ \A q \in 1..Len(parsers) : parsers'[q] = parsers[q]
      /\ Len(parsers) \in Nat /\ n = Len(parsers) + 1
    BY <1>0, <1>1, AppendIsSequence, SequenceLen DEF Owned
<1>3. trees' = trees
    BY DEF NewSubtemplate
<1>4. \A u : Owners(u)' = Owners(u)
    BY <1>1, <1>2 DEF Owners
<1>5. TreesAreOwned'
    BY <1>3, <1>4 DEF Owned, TreesAreOwned, Owners
<1> QED
    BY <1>1, <1>2, <1>3, <1>5 DEF Owned

(* The destructor deletes the tree of a main parser with it.               *)
LEMMA DestroyParserStep ==
    ASSUME Owned, NEW p \in 1..Len(parsers), DestroyParser(p)
    PROVE  Owned'
<1>0. PICK old : old = parsers[p].tree
    OBVIOUS
<1>1. parsers[p].alive /\ IsParser(parsers[p]) /\ (parsers[p].main => old \in 1..Len(trees))
    BY <1>0 DEF DestroyParser, Running, Owned
<1>2. PICK o : parsers' = [parsers EXCEPT ![p] = o] /\ IsParser(o) /\ ~ o.alive
    <2>1. LET o == Deleted(parsers[p]) IN IsParser(o) /\ ~ o.alive
        BY <1>1 DEF Deleted, NewParser, IsParser
    <2> QED
        BY <2>1 DEF DestroyParser
<1>3. /\ IsSequence(parsers') /\ Len(parsers') = Len(parsers) /\ parsers'[p] = o
      /\ \A q \in 1..Len(parsers) : q # p => parsers'[q] = parsers[q]
  <2>1. DOMAIN parsers = 1..Len(parsers)
      BY SequenceLen DEF Owned
  <2> QED
      BY <1>2, <2>1, ExceptIsSequence DEF Owned
<1>4. CASE ~ parsers[p].main
  <2>1. trees' = trees
      BY <1>4 DEF DestroyParser
  <2>2. \A u : Owners(u)' = Owners(u)
      BY <1>2, <1>3, <1>4 DEF Owners
  <2>3. TreesAreOwned'
      BY <2>1, <2>2 DEF Owned, TreesAreOwned, Owners
  <2> QED
      BY <1>2, <1>3, <2>1, <2>3 DEF Owned
<1>5. CASE parsers[p].main
  <2>1. /\ IsSequence(trees') /\ Len(trees') = Len(trees)
        /\ \A u \in 1..Len(trees) : IsTree(trees'[u]) /\ (u # old => trees'[u] = trees[u])
        /\ ~ trees'[old].alive
    <3> DEFINE mid == [trees EXCEPT ![old].alive = FALSE]
    <3>1. trees' = mid
        BY <1>0, <1>5 DEF DestroyParser
    <3>2. IsSequence(trees) /\ \A u \in 1..Len(trees) : IsTree(trees[u])
        BY DEF Owned
    <3>3. /\ IsSequence(mid) /\ Len(mid) = Len(trees)
          /\ \A u \in 1..Len(trees) : IsTree(mid[u]) /\ (u # old => mid[u] = trees[u])
          /\ ~ mid[old].alive
        BY <1>1, <1>5, <3>2, DeletedTree
    <3> HIDE DEF mid
    <3> QED
        BY <3>1, <3>3
  <2>2. \A u \in 1..Len(trees) : u # old => Owners(u)' = Owners(u)
      BY <1>0, <1>2, <1>3 DEF Owners
  <2>3. Owners(old)' = {}
    <3>1. p \in Owners(old)
        BY <1>0, <1>1, <1>5 DEF Owners
    <3>2. Owners(old) = {p}
        BY <1>1, <1>5, <3>1, OwnersOf
    <3>3. p \notin Owners(old)' /\ Owners(old)' \subseteq 1..Len(parsers)
        BY <1>1, <1>2, <1>3 DEF Owners
    <3>4. \A q \in 1..Len(parsers) : q # p => (q \in Owners(old)' <=> q \in Owners(old))
        BY <1>3 DEF Owners
    <3> QED
        BY <3>2, <3>3, <3>4
  <2>4. TreesAreOwned'
    <3>1. ASSUME NEW u \in 1..Len(trees)'
          PROVE  IF trees'[u].alive THEN \E q \in Owners(u)' : Owners(u)' = {q} ELSE Owners(u)' = {}
      <4>1. CASE u = old
          BY <2>1, <2>3, <4>1
      <4>2. CASE u # old
        <5>1. u \in 1..Len(trees) /\ trees'[u] = trees[u] /\ Owners(u)' = Owners(u)
            BY <2>1, <2>2, <4>2
        <5> QED
            BY <5>1 DEF Owned, TreesAreOwned, Owners
      <4> QED
          BY <4>1, <4>2
    <3> QED
        BY <3>1 DEF TreesAreOwned, Owners
  <2> QED
      BY <1>2, <1>3, <2>1, <2>4 DEF Owned
<1> QED
    BY <1>4, <1>5

(* The calls that change what a parser knows or has rendered.              *)
LEMMA ValueSteps ==
    ASSUME Owned, NEW p \in 1..Len(parsers), NEW q \in 1..Len(parsers), NEW k, NEW val, NEW path,
           \/ SetKey(p, k, val) \/ AddToKey(p, k, val)
           \/ SetKeyToParser(p, k, q) \/ AddParserToKey(p, k, q)
           \/ Render(p) \/ SaveTo(p, path)
    PROVE  Owned'
<1>1. IsParser(parsers[p]) /\ IsParser(parsers[q])
    BY DEF Owned
<1>2. CASE SetKey(p, k, val)
    BY <1>1, <1>2, WithKeyOwner, SameOwnerStep DEF SetKey
<1>3. CASE AddToKey(p, k, val)
    BY <1>1, <1>3, WithKeyOwner, SameOwnerStep DEF AddToKey
<1>4. CASE SetKeyToParser(p, k, q)
    BY <1>1, <1>4, WithKeyOwner, RenderedOwner, SameOwnersBothStep DEF SetKeyToParser
<1>5. CASE AddParserToKey(p, k, q)
    BY <1>1, <1>5, WithKeyOwner, RenderedOwner, SameOwnersBothStep DEF AddParserToKey
<1>6. CASE Render(p)
    BY <1>1, <1>6, RenderedOwner, SameOwnerStep DEF Render
<1>7. CASE SaveTo(p, path)
    BY <1>1, <1>7, RenderedOwner, SameOwnerStep DEF SaveTo
<1> QED
    BY <1>2, <1>3, <1>4, <1>5, <1>6, <1>7

(* A tree lives as long as the one main parser that has it, and sub-parsers *)
(* neither keep nor delete it.                                             *)
THEOREM TreesOwned == ParserSpec => []TreesAreOwned
<1>1. ParserInit => Owned
  <2> SUFFICES ASSUME ParserInit PROVE Owned
      OBVIOUS
  <2>1. <<>> \in Seq({}) /\ Len(<<>>) = 0
      OBVIOUS
  <2>2. IsSequence(parsers) /\ IsSequence(trees) /\ Len(parsers) = 0 /\ Len(trees) = 0
      BY <2>1, SequenceOf DEF ParserInit
  <2>3. 1..Len(parsers) = {} /\ 1..Len(trees) = {}
      BY <2>2
  <2> QED
      BY <2>2, <2>3 DEF Owned, TreesAreOwned
<1>2. Owned /\ [ParserNext]_parserVars => Owned'
  <2> SUFFICES ASSUME Owned, [ParserNext]_parserVars PROVE Owned'
      OBVIOUS
  <2>1. ASSUME NEW path \in Path, Construct(path) PROVE Owned'
      BY <2>1, ConstructStep
  <2>2. ASSUME NEW p \in 1..Len(parsers), NEW path \in Path, ReplaceTemplate(p, path) PROVE Owned'
      BY <2>2, ReplaceTemplateStep
  <2>3. ASSUME NEW p \in 1..Len(parsers), NEW s \in DOMAIN parsers[p].subs, NewSubtemplate(p, s)
        PROVE  Owned'
      BY <2>3, NewSubtemplateStep
  <2>4. ASSUME NEW p \in 1..Len(parsers), DestroyParser(p) PROVE Owned'
      BY <2>4, DestroyParserStep
  <2>5. ASSUME NEW p \in 1..Len(parsers), NEW path, SaveTo(p, path) PROVE Owned'
      BY <2>5, ValueSteps
  <2>6. ASSUME NEW p \in 1..Len(parsers), Render(p) PROVE Owned'
      BY <2>6, ValueSteps
  <2>7. ASSUME NEW p \in 1..Len(parsers), NEW k, NEW val, SetKey(p, k, val) \/ AddToKey(p, k, val)
        PROVE  Owned'
      BY <2>7, ValueSteps
  <2>8. ASSUME NEW p \in 1..Len(parsers), NEW q \in 1..Len(parsers), NEW k,
               SetKeyToParser(p, k, q) \/ AddParserToKey(p, k, q)
        PROVE  Owned'
      BY <2>8, ValueSteps
  <2>9. CASE UNCHANGED parserVars
    <3>1. parsers' = parsers /\ trees' = trees
        BY <2>9 DEF parserVars
    <3> QED
        BY <3>1 DEF Owned, TreesAreOwned
  <2> QED
      BY <2>1, <2>2, <2>3, <2>4, <2>5, <2>6, <2>7, <2>8, <2>9 DEF ParserNext, SaveToFile, Save
<1>3. Owned => TreesAreOwned
    BY DEF Owned
<1> QED
    BY <1>1, <1>2, <1>3, PTL DEF ParserSpec
=============================================================================
