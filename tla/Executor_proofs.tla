-------------------------- MODULE Executor_proofs --------------------------
(* Theorems about Executor: for any scripts, pipes, buffer and number of   *)
(* children, what the reads return and what the status says.               *)
EXTENDS Executor, SequenceTheorems, TLAPS

(* What a script is made of, and what may be in a pipe.                    *)
Operation == UNION {{s[i] : i \in DOMAIN s} : s \in Script}
Unit == {o.arg : o \in Operation} \cup {"text", "newline"}

(* A script, or what is left of one: it ends in exit or die.               *)
EndsOnce(q) == \A j \in 1..Len(q) : q[j].op \in Last <=> j = Len(q)

(* The children are started in order, one that is not over has something   *)
(* left to do, and the parent reads and writes only when it has a pipe.    *)
ChildrenInv ==
    /\ rest \in [Child -> Seq(Operation)] /\ \A i \in Child : EndsOnce(rest[i])
    /\ \A i \in Child : state[i] \in {"forked", "running"} => rest[i] # <<>>
    /\ status \in [Child -> Nat] /\ \A i \in Child : status[i] < 65536
    /\ pipe \in [Child -> [Streams -> Seq(Unit)]]
    /\ \A j \in Child : state[j] # "none" <=> j <= pid
    /\ call \in Outputs \cup Parts => chan # NoChild

-----------------------------------------------------------------------------
(* A sequence with a length is not empty.                                  *)
LEMMA NotEmpty == ASSUME NEW q, Len(q) > 0 PROVE q # <<>>
OBVIOUS

(* A script is a sequence of operations, and ends once.                    *)
LEMMA ScriptProperties ==
    ASSUME NEW s \in Script
    PROVE  s \in Seq(Operation) /\ s # <<>> /\ EndsOnce(s)
<1>1. s \in Seq({s[i] : i \in DOMAIN s}) /\ s # <<>> /\ EndsOnce(s)
    BY ExecutorAssumption DEF ExecutorAssumption, EndsOnce
<1>2. {s[i] : i \in DOMAIN s} \subseteq Operation
    BY DEF Operation
<1> QED
    BY <1>1, <1>2

(* Exit codes have eight bits, and signals seven.                          *)
LEMMA OperationProperties ==
    ASSUME NEW o \in Operation
    PROVE  /\ o.op = "exit" => ExitWord(o.arg) \in Nat /\ ExitWord(o.arg) < 65536
           /\ o.op = "die" => o.arg \in Nat /\ o.arg < 65536
           /\ o.arg \in Unit
<1>0. PICK s \in Script : o \in {s[i] : i \in DOMAIN s}
    BY DEF Operation
<1>1. PICK i \in DOMAIN s : o = s[i]
    BY <1>0
<1>2. i \in 1..Len(s)
    BY ScriptProperties, LenProperties
<1>3. /\ o.op = "exit" => o.arg \in Nat /\ o.arg < 256
      /\ o.op = "die" => o.arg \in Nat /\ o.arg < 128
  <2>1. /\ s[i].op = "exit" => s[i].arg \in Nat /\ s[i].arg < 256
        /\ s[i].op = "die" => s[i].arg \in Nat /\ 0 < s[i].arg /\ s[i].arg < 128
    <3>1. \A t \in Script : \A j \in 1..Len(t) :
             /\ t[j].op \in Last <=> j = Len(t)
             /\ t[j].op = "exit" => t[j].arg \in Nat /\ t[j].arg < 256
             /\ t[j].op = "die" => t[j].arg \in Nat /\ 0 < t[j].arg /\ t[j].arg < 128
        BY ExecutorAssumption, Zenon DEF ExecutorAssumption
    <3> QED
        BY <3>1, <1>2
  <2> QED
      BY <1>1, <2>1
<1>4. o.op = "exit" => ExitWord(o.arg) \in Nat /\ ExitWord(o.arg) < 65536
    BY <1>3 DEF ExitWord
<1>5. o.op = "die" => o.arg \in Nat /\ o.arg < 65536
    BY <1>3
<1>6. o.arg \in Unit
    BY DEF Unit
<1> QED
    BY <1>4, <1>5, <1>6

(* What a child does next, and what is left after it.                      *)
LEMMA NextOperation ==
    ASSUME ChildrenInv, NEW i \in Child, state[i] \in {"forked", "running"}
    PROVE  /\ Op(i) \in Operation
           /\ Op(i).op \notin Last => /\ Tail(rest[i]) \in Seq(Operation)
                                      /\ Tail(rest[i]) # <<>> /\ EndsOnce(Tail(rest[i]))
<1>1. rest[i] \in Seq(Operation) /\ rest[i] # <<>> /\ EndsOnce(rest[i])
  <2>1. rest \in [Child -> Seq(Operation)] /\ EndsOnce(rest[i])
      BY DEF ChildrenInv
  <2>2. rest[i] # <<>>
      BY DEF ChildrenInv
  <2> QED
      BY <2>1, <2>2
<1>2. /\ Op(i) \in Operation /\ Tail(rest[i]) \in Seq(Operation)
      /\ Len(Tail(rest[i])) = Len(rest[i]) - 1
      /\ \A j \in 1..Len(Tail(rest[i])) : Tail(rest[i])[j] = rest[i][j + 1]
      /\ Len(rest[i]) \in Nat /\ Len(rest[i]) > 0 /\ Op(i) = rest[i][1]
    BY <1>1, HeadTailProperties, LenProperties DEF Op
<1>3. ASSUME Op(i).op \notin Last
      PROVE  Tail(rest[i]) # <<>> /\ EndsOnce(Tail(rest[i]))
  <2>1. Len(rest[i]) > 1
      BY <1>1, <1>2, <1>3 DEF EndsOnce
  <2>2. ASSUME NEW j \in 1..Len(Tail(rest[i]))
        PROVE  Tail(rest[i])[j].op \in Last <=> j = Len(Tail(rest[i]))
      BY <1>1, <1>2, <2>2 DEF EndsOnce
  <2>3. EndsOnce(Tail(rest[i]))
      BY <2>2 DEF EndsOnce
  <2>4. Len(Tail(rest[i])) > 0
      BY <1>2, <2>1
  <2>5. Tail(rest[i]) # <<>>
      BY <2>4, NotEmpty
  <2> QED
      BY <2>3, <2>5
<1> QED
    BY <1>2, <1>3

-----------------------------------------------------------------------------
(* At the start no child was started and nothing is in a pipe.             *)
LEMMA TypesInit == Init => TypeOK /\ ChildrenInv
<1> SUFFICES ASSUME Init PROVE TypeOK /\ ChildrenInv
    OBVIOUS
<1> USE ExecutorAssumption DEF ExecutorAssumption
<1>1. /\ pid = NoChild /\ chan = NoChild /\ result = -1 /\ ~ init_done /\ call = "idle"
      /\ NoChild \notin Child /\ \A j \in Child : ~ (j <= NoChild)
    BY DEF Init, NoChild, Child
<1>2. TypeOK
  <2>1. \A i \in Child, q \in Streams : Len(pipe[i][q]) <= Cap
      BY DEF Init
  <2>2. state \in [Child -> {"none", "forked", "running", "zombie", "reaped"}]
        /\ piped \in [Child -> BOOLEAN] /\ lines \in [Child -> 0..MaxLine]
      BY DEF Init
  <2>3. init_done \in BOOLEAN
      BY DEF Init
  <2> QED
      BY <1>1, <2>1, <2>2, <2>3 DEF TypeOK
<1>3. ChildrenInv
  <2>1. rest \in [Child -> Seq(Operation)] /\ \A i \in Child : EndsOnce(rest[i])
      BY DEF Init, EndsOnce
  <2>2. pipe \in [Child -> [Streams -> Seq(Unit)]]
      BY DEF Init
  <2>3. /\ \A i \in Child : state[i] = "none"
        /\ status \in [Child -> Nat] /\ \A i \in Child : status[i] < 65536
      BY DEF Init
  <2>4. call \notin Outputs \cup Parts
      BY <1>1 DEF Outputs, Parts
  <2> QED
      BY <1>1, <2>1, <2>2, <2>3, <2>4 DEF ChildrenInv
<1> QED
    BY <1>2, <1>3

(* A new child: the first that was not started, with all of its script.    *)
LEMMA ForkKeepsTypes ==
    ASSUME TypeOK, ChildrenInv, NEW with_pipes \in BOOLEAN, Fork(with_pipes)
    PROVE  /\ pid' \in Child /\ result' = result /\ lines' = lines /\ pipe' = pipe
           /\ state' \in [Child -> {"none", "forked", "running", "zombie", "reaped"}]
           /\ piped' \in [Child -> BOOLEAN]
           /\ rest' \in [Child -> Seq(Operation)] /\ \A i \in Child : EndsOnce(rest'[i])
           /\ \A i \in Child : state'[i] \in {"forked", "running"} => rest'[i] # <<>>
           /\ status' = status
           /\ \A j \in Child : state'[j] # "none" <=> j <= pid'
<1>1. PICK i \in Child, s \in Script :
          /\ state[i] = "none" /\ \A j \in Child : j < i => state[j] # "none"
          /\ pid' = i
          /\ state' = [state EXCEPT ![i] = "forked"]
          /\ piped' = [piped EXCEPT ![i] = with_pipes]
          /\ rest' = [rest EXCEPT ![i] = s]
          /\ UNCHANGED <<result, buffer, status, sent, pipe, taken, lines, got>>
    BY Zenon DEF Fork
<1>2. s \in Seq(Operation) /\ s # <<>> /\ EndsOnce(s)
    BY ScriptProperties
<1>3. rest' \in [Child -> Seq(Operation)] /\ (\A j \in Child : EndsOnce(rest'[j]))
      /\ \A j \in Child : state'[j] \in {"forked", "running"} => rest'[j] # <<>>
    BY <1>1, <1>2 DEF ChildrenInv, TypeOK
<1>4. state' \in [Child -> {"none", "forked", "running", "zombie", "reaped"}]
      /\ piped' \in [Child -> BOOLEAN]
    BY <1>1 DEF TypeOK
<1>5. ASSUME NEW j \in Child
      PROVE  state'[j] # "none" <=> j <= i
  <2>1. j \in Int /\ i \in Int
      BY DEF Child
  <2>2. CASE j = i
      BY <1>1, <2>1, <2>2 DEF TypeOK
  <2>3. CASE j < i
      BY <1>1, <2>1, <2>3 DEF TypeOK
  <2>4. CASE j > i
    <3>1. state[j] = "none"
      <4>1. ~ (i <= pid) /\ pid \in Int
          BY <1>1 DEF ChildrenInv, TypeOK, NoChild, Child
      <4>2. ~ (j <= pid)
          BY <2>1, <2>4, <4>1
      <4> QED
          BY <4>2 DEF ChildrenInv
    <3> QED
        BY <1>1, <2>1, <2>4, <3>1 DEF TypeOK
  <2> QED
      BY <2>1, <2>2, <2>3, <2>4
<1> QED
    BY <1>1, <1>3, <1>4, <1>5

(* waitpid() stores the status word of a child that has ended, or nothing. *)
LEMMA WaitpidCases ==
    ASSUME TypeOK, ChildrenInv, Waitpid
    PROVE  \/ /\ pid \in Child /\ state[pid] = "zombie"
              /\ result' = status[pid] /\ state' = [state EXCEPT ![pid] = "reaped"]
           \/ result' = result /\ state' = state
BY DEF Waitpid, TypeOK

(* So it keeps the types, and starts and ends nobody.                      *)
LEMMA WaitpidKeepsTypes ==
    ASSUME TypeOK, ChildrenInv, Waitpid
    PROVE  /\ result' \in Int /\ -1 <= result' /\ result' < 256 * 256
           /\ state' \in [Child -> {"none", "forked", "running", "zombie", "reaped"}]
           /\ \A j \in Child : state'[j] # "none" <=> state[j] # "none"
           /\ \A j \in Child : state'[j] \in {"forked", "running"} => state[j] \in {"forked", "running"}
<1>1. CASE result' = result /\ state' = state
    BY <1>1 DEF TypeOK
<1>2. CASE /\ pid \in Child /\ state[pid] = "zombie"
           /\ result' = status[pid] /\ state' = [state EXCEPT ![pid] = "reaped"]
  <2>1. status[pid] \in Nat /\ status[pid] < 65536
      BY <1>2 DEF ChildrenInv
  <2>2. result' \in Int /\ -1 <= result' /\ result' < 256 * 256
      BY <1>2, <2>1
  <2> QED
      BY <1>2, <2>2 DEF TypeOK
<1> QED
    BY <1>1, <1>2, WaitpidCases

(* The end of a child that was forked or runs.                             *)
LEMMA EndKeepsTypes ==
    ASSUME TypeOK, ChildrenInv, NEW i \in Child, state[i] \in {"forked", "running"},
           NEW w, w \in Nat /\ w < 65536, End(i, w), UNCHANGED <<exe, lines, call>>
    PROVE  TypeOK' /\ ChildrenInv'
<1>1. /\ state' = [state EXCEPT ![i] = "zombie"] /\ status' = [status EXCEPT ![i] = w]
      /\ rest' = [rest EXCEPT ![i] = <<>>]
      /\ UNCHANGED <<piped, pipe, pid, result, init_done, chan, lines, call>>
    BY DEF End, exe
<1>2. TypeOK'
    BY <1>1 DEF TypeOK
<1>3. rest' \in [Child -> Seq(Operation)] /\ \A j \in Child : EndsOnce(rest'[j])
    BY <1>1 DEF ChildrenInv, EndsOnce
<1>4. \A j \in Child : state'[j] \in {"forked", "running"} => rest'[j] # <<>>
    BY <1>1 DEF ChildrenInv, TypeOK
<1>5. status' \in [Child -> Nat] /\ \A j \in Child : status'[j] < 65536
    BY <1>1 DEF ChildrenInv
<1>6. \A j \in Child : state'[j] # "none" <=> j <= pid'
    BY <1>1 DEF ChildrenInv, TypeOK
<1> QED
    BY <1>1, <1>2, <1>3, <1>4, <1>5, <1>6 DEF ChildrenInv

(* One operation of a script is done, with what it does to the child's     *)
(* pipes.                                                                  *)
LEMMA DoneKeepsTypes ==
    ASSUME TypeOK, ChildrenInv, NEW i \in Child, state[i] = "running",
           rest' = rest \/ (Done(i) /\ Op(i).op \notin Last),
           pipe' \in [Child -> [Streams -> Seq(Unit)]],
           \A j \in Child, q \in Streams : Len(pipe'[j][q]) <= Cap,
           UNCHANGED <<exe, state, piped, status, lines, call>>
    PROVE  TypeOK' /\ ChildrenInv'
<1>1. UNCHANGED <<state, piped, status, pid, result, init_done, chan, lines, call>>
    BY DEF exe
<1>2. TypeOK'
    BY <1>1 DEF TypeOK
<1>3. /\ rest' \in [Child -> Seq(Operation)] /\ (\A j \in Child : EndsOnce(rest'[j]))
      /\ \A j \in Child : state[j] \in {"forked", "running"} => rest'[j] # <<>>
  <2>1. CASE rest' = rest
      BY <2>1 DEF ChildrenInv
  <2>2. CASE Done(i) /\ Op(i).op \notin Last
    <3>1. rest' = [rest EXCEPT ![i] = Tail(rest[i])]
        BY <2>2 DEF Done
    <3>2. Tail(rest[i]) \in Seq(Operation) /\ Tail(rest[i]) # <<>> /\ EndsOnce(Tail(rest[i]))
        BY <2>2, NextOperation
    <3> QED
        BY <3>1, <3>2 DEF ChildrenInv
  <2> QED
      BY <2>1, <2>2
<1> QED
    BY <1>1, <1>2, <1>3 DEF ChildrenInv

(* Of the pipes only one may have changed, by a unit more or less.         *)
LEMMA PipesChange ==
    ASSUME TypeOK, ChildrenInv, NEW i \in Child, NEW q \in Streams, NEW content \in Seq(Unit),
           Len(content) <= Cap, pipe' = [pipe EXCEPT ![i][q] = content]
    PROVE  /\ pipe' \in [Child -> [Streams -> Seq(Unit)]]
           /\ \A j \in Child, r \in Streams : Len(pipe'[j][r]) <= Cap
<1>1. pipe' \in [Child -> [Streams -> Seq(Unit)]]
    BY DEF ChildrenInv
<1>2. ASSUME NEW j \in Child, NEW r \in Streams
      PROVE  pipe'[j][r] = IF j = i /\ r = q THEN content ELSE pipe[j][r]
    BY DEF ChildrenInv
<1> QED
    BY <1>1, <1>2 DEF TypeOK

(* What happens in a child.                                                *)
LEMMA ChildKeepsTypes ==
    ASSUME TypeOK, ChildrenInv, NEW i \in Child, ChildStep(i)
    PROVE  TypeOK' /\ ChildrenInv'
<1> USE ExecutorAssumption DEF ExecutorAssumption
<1>0. UNCHANGED <<exe, lines, call>>
    BY DEF ChildStep
<1>1. CASE Exec(i)
  <2>1. state[i] = "forked"
      BY <1>1 DEF Exec
  <2>2. ASSUME NEW w \in ExecFailure, End(i, w)
        PROVE  TypeOK' /\ ChildrenInv'
    <3>1. w \in Nat /\ w < 65536
        BY DEF ExecFailure, ExitWord
    <3> QED
        BY <1>0, <2>1, <2>2, <3>1, EndKeepsTypes
  <2>3. CASE state' = [state EXCEPT ![i] = "running"] /\ UNCHANGED <<piped, rest, status, sent, pipe>>
    <3>1. UNCHANGED <<piped, rest, status, pipe, pid, result, init_done, chan, lines, call>>
        BY <1>0, <2>3 DEF exe
    <3>2. TypeOK'
        BY <2>3, <3>1 DEF TypeOK
    <3>3. \A j \in Child : /\ state'[j] # "none" <=> state[j] # "none"
                           /\ state'[j] \in {"forked", "running"} => state[j] \in {"forked", "running"}
        BY <2>1, <2>3 DEF TypeOK
    <3> QED
        BY <3>1, <3>2, <3>3 DEF ChildrenInv
  <2> QED
      BY <1>1, <2>2, <2>3 DEF Exec
<1>2. CASE state[i] = "running" /\ WriteOutput(i)
  <2>1. /\ Op(i).op \in Outputs /\ Op(i).op \notin Last /\ Op(i).op \in Streams /\ Op(i).arg \in Unit
      BY <1>2, NextOperation, OperationProperties DEF WriteOutput, Outputs, Last, Streams
  <2>2. CASE Done(i) /\ UNCHANGED <<state, piped, status, sent, pipe>>
    <3>1. /\ pipe' \in [Child -> [Streams -> Seq(Unit)]]
          /\ \A j \in Child, r \in Streams : Len(pipe'[j][r]) <= Cap
        BY <2>2 DEF TypeOK, ChildrenInv
    <3> QED
        BY <1>0, <1>2, <2>1, <2>2, <3>1, DoneKeepsTypes
  <2>3. CASE /\ Len(pipe[i][Op(i).op]) < Cap /\ Done(i)
             /\ pipe' = [pipe EXCEPT ![i][Op(i).op] = Append(pipe[i][Op(i).op], Op(i).arg)]
             /\ UNCHANGED <<state, piped, status>>
    <3>1. pipe[i][Op(i).op] \in Seq(Unit)
        BY <2>1 DEF ChildrenInv
    <3>2. Append(pipe[i][Op(i).op], Op(i).arg) \in Seq(Unit)
          /\ Len(Append(pipe[i][Op(i).op], Op(i).arg)) <= Cap
        BY <2>1, <2>3, <3>1, AppendProperties, LenProperties
    <3>3. /\ pipe' \in [Child -> [Streams -> Seq(Unit)]]
          /\ \A j \in Child, r \in Streams : Len(pipe'[j][r]) <= Cap
        BY <2>1, <2>3, <3>2, PipesChange
    <3> QED
        BY <1>0, <1>2, <2>1, <2>3, <3>3, DoneKeepsTypes
  <2>4. CASE End(i, SIGPIPE)
    <3>1. SIGPIPE \in Nat /\ SIGPIPE < 65536
        BY DEF SIGPIPE
    <3> QED
        BY <1>0, <1>2, <2>4, <3>1, EndKeepsTypes
  <2> QED
      BY <1>2, <2>2, <2>3, <2>4 DEF WriteOutput
<1>3. CASE state[i] = "running" /\ ReadInput(i)
  <2>1. Op(i).op \notin Last /\ "in" \in Streams
      BY <1>3 DEF ReadInput, Last, Streams
  <2>2. UNCHANGED <<state, piped, status>> /\ (rest' = rest \/ Done(i))
      BY <1>3 DEF ReadInput
  <2>3. CASE pipe' = pipe
    <3>1. /\ pipe' \in [Child -> [Streams -> Seq(Unit)]]
          /\ \A j \in Child, r \in Streams : Len(pipe'[j][r]) <= Cap
        BY <2>3 DEF TypeOK, ChildrenInv
    <3> QED
        BY <1>0, <1>3, <2>1, <2>2, <3>1, DoneKeepsTypes
  <2>4. CASE pipe[i]["in"] # <<>> /\ pipe' = [pipe EXCEPT ![i]["in"] = Tail(pipe[i]["in"])]
    <3>1. pipe[i]["in"] \in Seq(Unit) /\ Len(pipe[i]["in"]) <= Cap
        BY <2>1 DEF ChildrenInv, TypeOK
    <3>2. Tail(pipe[i]["in"]) \in Seq(Unit) /\ Len(Tail(pipe[i]["in"])) <= Cap
        BY <2>4, <3>1, HeadTailProperties, LenProperties
    <3>3. /\ pipe' \in [Child -> [Streams -> Seq(Unit)]]
          /\ \A j \in Child, r \in Streams : Len(pipe'[j][r]) <= Cap
        BY <2>1, <2>4, <3>2, PipesChange
    <3> QED
        BY <1>0, <1>3, <2>1, <2>2, <3>3, DoneKeepsTypes
  <2> QED
      BY <1>3, <2>3, <2>4 DEF ReadInput
<1>4. CASE state[i] = "running" /\ EndChild(i)
  <2>1. Op(i) \in Operation
      BY <1>4, NextOperation
  <2>2. CASE Op(i).op = "exit" /\ End(i, ExitWord(Op(i).arg))
    <3>1. ExitWord(Op(i).arg) \in Nat /\ ExitWord(Op(i).arg) < 65536
        BY <2>1, <2>2, OperationProperties
    <3> QED
        BY <1>0, <1>4, <2>2, <3>1, EndKeepsTypes
  <2>3. CASE Op(i).op = "die" /\ End(i, Op(i).arg)
    <3>1. Op(i).arg \in Nat /\ Op(i).arg < 65536
        BY <2>1, <2>3, OperationProperties
    <3> QED
        BY <1>0, <1>4, <2>3, <3>1, EndKeepsTypes
  <2> QED
      BY <1>4, <2>2, <2>3 DEF EndChild
<1> QED
    BY <1>1, <1>2, <1>3, <1>4 DEF ChildStep

(* The parent turns from one call to another and does at most something    *)
(* with a pipe.                                                            *)
LEMMA ParentKeepsTypes ==
    ASSUME TypeOK, ChildrenInv, UNCHANGED <<pid, result, init_done, chan, kids>>,
           pipe' \in [Child -> [Streams -> Seq(Unit)]],
           \A j \in Child, r \in Streams : Len(pipe'[j][r]) <= Cap,
           lines' \in [Child -> 0..MaxLine],
           call' \in {"idle", "gone"} \cup Parts \cup Outputs \cup Waits,
           call' \in Outputs \cup Parts => chan # NoChild
    PROVE  TypeOK' /\ ChildrenInv'
<1>1. UNCHANGED <<pid, result, init_done, chan, state, piped, rest, status>>
    BY DEF kids
<1>2. TypeOK'
    BY <1>1 DEF TypeOK
<1>3. ChildrenInv'
    BY <1>1 DEF ChildrenInv
<1> QED
    BY <1>2, <1>3

(* The pipes as they are.                                                  *)
LEMMA PipesStay ==
    ASSUME TypeOK, ChildrenInv, UNCHANGED pipe
    PROVE  /\ pipe' \in [Child -> [Streams -> Seq(Unit)]]
           /\ \A j \in Child, r \in Streams : Len(pipe'[j][r]) <= Cap
BY DEF TypeOK, ChildrenInv

(* The calls there are.                                                    *)
LEMMA Calls ==
    /\ Outputs \cap Parts = {} /\ Waits \cap (Outputs \cup Parts) = {}
    /\ "idle" \notin Outputs \cup Parts /\ "gone" \notin Outputs \cup Parts
    /\ "wait" \in Waits /\ "run" \in Waits /\ "newline" \in Parts
    /\ "text" \in Parts /\ "text only" \in Parts /\ "idle" \notin Waits
BY DEF Outputs, Parts, Waits

(* What the parent asks for.                                               *)
LEMMA CallKeepsTypes ==
    ASSUME TypeOK, ChildrenInv, Call
    PROVE  TypeOK' /\ ChildrenInv'
<1>0. lines \in [Child -> 0..MaxLine]
    BY DEF TypeOK
<1>1. ASSUME NEW with_pipes \in BOOLEAN, Fork(with_pipes),
             \/ chan' = pid' /\ init_done' = TRUE /\ call' = "idle"
             \/ UNCHANGED <<chan, init_done>> /\ call' = "run"
      PROVE  TypeOK' /\ ChildrenInv'
  <2>1. /\ pid' \in Child /\ result' = result /\ lines' = lines /\ pipe' = pipe
        /\ state' \in [Child -> {"none", "forked", "running", "zombie", "reaped"}]
        /\ piped' \in [Child -> BOOLEAN]
        /\ rest' \in [Child -> Seq(Operation)] /\ (\A i \in Child : EndsOnce(rest'[i]))
        /\ \A i \in Child : state'[i] \in {"forked", "running"} => rest'[i] # <<>>
        /\ status' = status
        /\ \A j \in Child : state'[j] # "none" <=> j <= pid'
      BY <1>1, ForkKeepsTypes
  <2>2. pid' # NoChild
      BY <2>1 DEF NoChild, Child
  <2>3. call' \notin Outputs \cup Parts /\ call' \in {"idle", "gone"} \cup Parts \cup Outputs \cup Waits
      BY <1>1, Calls
  <2>4. init_done' \in BOOLEAN
      BY <1>1 DEF TypeOK
  <2>5. chan' \in {NoChild} \cup Child /\ (init_done' => chan' # NoChild)
      BY <1>1, <2>1, <2>2 DEF TypeOK
  <2>6. TypeOK'
      BY <2>1, <2>3, <2>4, <2>5 DEF TypeOK
  <2>7. ChildrenInv'
      BY <2>1, <2>3 DEF ChildrenInv
  <2> QED
      BY <2>6, <2>7
<1>2. CASE Communicate
    BY <1>1, <1>2 DEF Communicate, Enters
<1>3. CASE Run
    BY <1>1, <1>3 DEF Run, Enters
<1>4. CASE Exit \/ CheckBlocking
  <2>1. UNCHANGED <<exe, kids, pipe, lines>> /\ call' \in {"gone", "wait"}
      BY <1>4 DEF Exit, CheckBlocking, Enters
  <2>2. UNCHANGED <<pid, result, init_done, chan, kids>>
      BY <2>1 DEF exe
  <2>3. call' \notin Outputs \cup Parts /\ call' \in {"idle", "gone"} \cup Parts \cup Outputs \cup Waits
      BY <2>1, Calls
  <2> QED
      BY <1>0, <2>1, <2>2, <2>3, PipesStay, ParentKeepsTypes
<1>5. CASE WriteCall
  <2>1. UNCHANGED <<exe, kids, pipe>> /\ call' \in Parts /\ init_done
        /\ lines' = [lines EXCEPT ![chan] = lines[chan] + 1] /\ lines[chan] < MaxLine
      BY <1>5, Calls DEF WriteCall, Enters
  <2>2. chan \in Child /\ chan # NoChild
      BY <2>1 DEF TypeOK
  <2>3. lines' \in [Child -> 0..MaxLine]
      BY <1>0, <2>1, <2>2, ExecutorAssumption DEF ExecutorAssumption
  <2>4. UNCHANGED <<pid, result, init_done, chan, kids>>
      BY <2>1 DEF exe
  <2> QED
      BY <2>1, <2>2, <2>3, <2>4, PipesStay, ParentKeepsTypes
<1>6. CASE CheckNonBlocking
  <2>1. /\ Waitpid /\ call' = "idle"
        /\ UNCHANGED <<pid, init_done, buffer, chan, piped, rest, status, sent, pipe, taken, lines, got>>
      BY <1>6 DEF CheckNonBlocking, Returns
  <2>2. TypeOK'
      BY <2>1, WaitpidKeepsTypes DEF TypeOK
  <2>3. ChildrenInv'
    <3>1. call' \notin Outputs \cup Parts
        BY <2>1, Calls
    <3> QED
        BY <2>1, <3>1, WaitpidKeepsTypes DEF ChildrenInv
  <2> QED
      BY <2>2, <2>3
<1>7. ASSUME NEW q \in Outputs, ReadCall(q)
      PROVE  TypeOK' /\ ChildrenInv'
  <2>1. UNCHANGED <<exe, kids, pipe, lines>> /\ call' \in Outputs /\ init_done
      BY <1>7 DEF ReadCall, Enters
  <2>2. UNCHANGED <<pid, result, init_done, chan, kids>>
      BY <2>1 DEF exe
  <2>3. chan # NoChild
      BY <2>1 DEF TypeOK
  <2> QED
      BY <1>0, <2>1, <2>2, <2>3, PipesStay, ParentKeepsTypes
<1> QED
    BY <1>2, <1>3, <1>4, <1>5, <1>6, <1>7 DEF Call

(* What a call does once it has been made.                                 *)
LEMMA InCallKeepsTypes ==
    ASSUME TypeOK, ChildrenInv, InCall
    PROVE  TypeOK' /\ ChildrenInv'
<1>0. lines \in [Child -> 0..MaxLine]
    BY DEF TypeOK
<1>1. ASSUME NEW q \in Outputs, ReadChunk(q)
      PROVE  TypeOK' /\ ChildrenInv'
  <2> DEFINE n == Min(Len(pipe[chan][q]), BufSize - 1)
  <2>1. /\ call = q /\ n > 0 /\ UNCHANGED <<pid, result, init_done, chan, kids, lines, call>>
        /\ pipe' = [pipe EXCEPT ![chan][q] = Drop(pipe[chan][q], n)]
      BY <1>1 DEF ReadChunk
  <2>2. chan \in Child /\ chan # NoChild /\ q \in Streams
      BY <2>1 DEF TypeOK, ChildrenInv, Streams
  <2>3. pipe[chan][q] \in Seq(Unit) /\ Len(pipe[chan][q]) \in Nat /\ Len(pipe[chan][q]) <= Cap
      BY <2>2, LenProperties DEF ChildrenInv, TypeOK
  <2>4. n \in Nat /\ n <= Len(pipe[chan][q])
      BY <2>1, <2>3, ExecutorAssumption DEF Min, ExecutorAssumption
  <2> HIDE DEF n
  <2>5. Drop(pipe[chan][q], n) \in Seq(Unit) /\ Len(Drop(pipe[chan][q], n)) <= Cap
    <3>1. \A i \in n + 1..Len(pipe[chan][q]) : pipe[chan][q][i] \in Unit
        BY <2>3, <2>4, LenProperties
    <3> QED
        BY <2>3, <2>4, <3>1, SubSeqProperties, ExecutorAssumption DEF Drop, ExecutorAssumption
  <2>6. /\ pipe' \in [Child -> [Streams -> Seq(Unit)]]
        /\ \A j \in Child, r \in Streams : Len(pipe'[j][r]) <= Cap
      BY <2>1, <2>2, <2>5, PipesChange
  <2>7. call' \in Outputs /\ lines' \in [Child -> 0..MaxLine]
      BY <1>0, <2>1
  <2> QED
      BY <2>1, <2>2, <2>6, <2>7, ParentKeepsTypes
<1>2. ASSUME NEW q \in Outputs, ReadEnd(q)
      PROVE  TypeOK' /\ ChildrenInv'
  <2>1. UNCHANGED <<exe, kids, pipe, lines>> /\ call' = "idle"
      BY <1>2 DEF ReadEnd, Returns
  <2>2. UNCHANGED <<pid, result, init_done, chan, kids>>
      BY <2>1 DEF exe
  <2> QED
      BY <1>0, <2>1, <2>2, Calls, PipesStay, ParentKeepsTypes
<1>3. ASSUME NEW part \in Parts, WritePart(part)
      PROVE  TypeOK' /\ ChildrenInv'
  <2>1. call = part /\ UNCHANGED <<exe, kids, lines>> /\ call' \in {"idle", "gone", "newline"}
      BY <1>3 DEF WritePart, Enters
  <2>2. UNCHANGED <<pid, result, init_done, chan, kids>>
      BY <2>1 DEF exe
  <2>3. chan \in Child /\ chan # NoChild /\ "in" \in Streams
      BY <2>1 DEF TypeOK, ChildrenInv, Streams
  <2>4. call' \in {"idle", "gone"} \cup Parts \cup Outputs \cup Waits
      BY <2>1, Calls
  <2>5. CASE pipe' = pipe
      BY <1>0, <2>1, <2>2, <2>3, <2>4, <2>5, PipesStay, ParentKeepsTypes
  <2>6. ASSUME NEW u \in {"text", "newline"}, Len(pipe[chan]["in"]) < Cap,
               pipe' = [pipe EXCEPT ![chan]["in"] = Append(pipe[chan]["in"], u)]
        PROVE  TypeOK' /\ ChildrenInv'
    <3>1. u \in Unit
        BY DEF Unit
    <3>2. pipe[chan]["in"] \in Seq(Unit)
        BY <2>3 DEF ChildrenInv
    <3>3. Append(pipe[chan]["in"], u) \in Seq(Unit) /\ Len(Append(pipe[chan]["in"], u)) <= Cap
        BY <2>6, <3>1, <3>2, AppendProperties, LenProperties, ExecutorAssumption DEF ExecutorAssumption
    <3>4. /\ pipe' \in [Child -> [Streams -> Seq(Unit)]]
          /\ \A j \in Child, r \in Streams : Len(pipe'[j][r]) <= Cap
        BY <2>3, <2>6, <3>3, PipesChange
    <3> QED
        BY <1>0, <2>1, <2>2, <2>3, <2>4, <3>4, ParentKeepsTypes
  <2> QED
      BY <1>3, <2>5, <2>6 DEF WritePart
<1>4. ASSUME NEW c \in Waits, WaitEnd(c)
      PROVE  TypeOK' /\ ChildrenInv'
  <2>1. /\ Waitpid /\ call' = "idle"
        /\ init_done' = IF c = "run" THEN FALSE ELSE init_done
        /\ UNCHANGED <<pid, buffer, chan, piped, rest, status, sent, pipe, taken, lines, got>>
      BY <1>4 DEF WaitEnd, Returns
  <2>2. init_done' \in BOOLEAN /\ (init_done' => chan # NoChild)
      BY <2>1 DEF TypeOK
  <2>3. TypeOK'
      BY <2>1, <2>2, WaitpidKeepsTypes DEF TypeOK
  <2>4. ChildrenInv'
    <3>1. call' \notin Outputs \cup Parts
        BY <2>1, Calls
    <3> QED
        BY <2>1, <3>1, WaitpidKeepsTypes DEF ChildrenInv
  <2> QED
      BY <2>3, <2>4
<1> QED
    BY <1>1, <1>2, <1>3, <1>4 DEF InCall

(* Every step keeps both.                                                  *)
LEMMA TypesStep ==
    ASSUME TypeOK, ChildrenInv, [Next]_vars
    PROVE  TypeOK' /\ ChildrenInv'
<1>1. CASE UNCHANGED vars
    BY <1>1 DEF vars, exe, kids, TypeOK, ChildrenInv
<1> QED
    BY <1>1, ChildKeepsTypes, CallKeepsTypes, InCallKeepsTypes DEF Next

(* The types, and that the object reads and writes only a child that was   *)
(* started with pipes, and no child acts that is over.                     *)
THEOREM TypeCorrect == Spec => [](TypeOK /\ ChildrenInv)
<1>1. Init => TypeOK /\ ChildrenInv
    BY TypesInit
<1>2. TypeOK /\ ChildrenInv /\ [Next]_vars => TypeOK' /\ ChildrenInv'
    BY TypesStep
<1> QED
    BY <1>1, <1>2, PTL DEF Spec

-----------------------------------------------------------------------------
(* Whoever was not started yet has no status, and the one that was reaped  *)
(* keeps its own.                                                          *)
StatusInv ==
    /\ TypeOK /\ ChildrenInv /\ StatusIsAChilds
    /\ pid = NoChild => result = -1

(* A step that collects nobody.                                            *)
LEMMA StatusKept ==
    ASSUME StatusInv, result' = result, pid' = pid,
           \A j \in Child : /\ state'[j] = "reaped" <=> state[j] = "reaped"
                            /\ state[j] = "reaped" => status'[j] = status[j],
           ret'.call = "check" => ret' = ret
    PROVE  StatusIsAChilds' /\ (pid' = NoChild => result' = -1)
<1>1. ASSUME pid' = 1
      PROVE  /\ result' = IF state'[1] = "reaped" THEN status'[1] ELSE -1
             /\ ret'.call = "check" => ret'.val = Answer(result')
  <2>1. 1 \in Child
      BY <1>1 DEF StatusInv, TypeOK, NoChild
  <2>2. /\ result = IF state[1] = "reaped" THEN status[1] ELSE -1
        /\ ret.call = "check" => ret.val = Answer(result)
      BY <1>1 DEF StatusInv, StatusIsAChilds
  <2> QED
      BY <2>1, <2>2
<1>2. ASSUME result' # -1
      PROVE  \E i \in Child : state'[i] = "reaped" /\ result' = status'[i]
    BY <1>2 DEF StatusInv, StatusIsAChilds
<1>3. StatusIsAChilds'
    BY <1>1, <1>2 DEF StatusIsAChilds
<1> QED
    BY <1>3 DEF StatusInv

(* A new child does not touch the status; the first one finds it at -1.    *)
LEMMA StatusOfFork ==
    ASSUME StatusInv, NEW with_pipes \in BOOLEAN, Fork(with_pipes), ret'.call # "check"
    PROVE  StatusIsAChilds' /\ (pid' = NoChild => result' = -1)
<1>1. PICK i \in Child, s \in Script :
          /\ state[i] = "none" /\ \A j \in Child : j < i => state[j] # "none"
          /\ pid' = i
          /\ state' = [state EXCEPT ![i] = "forked"]
          /\ piped' = [piped EXCEPT ![i] = with_pipes]
          /\ rest' = [rest EXCEPT ![i] = s]
          /\ UNCHANGED <<result, buffer, status, sent, pipe, taken, lines, got>>
    BY Zenon DEF Fork
<1>2. \A j \in Child : state'[j] = "reaped" <=> state[j] = "reaped"
    BY <1>1 DEF StatusInv, TypeOK
<1>3. pid' # NoChild
    BY <1>1 DEF NoChild, Child
<1>4. ASSUME pid' = 1
      PROVE  result' = -1 /\ state'[1] # "reaped"
  <2>1. pid = NoChild
    <3>1. ~ (1 <= pid) /\ 1 \in Child
        BY <1>1, <1>4 DEF StatusInv, ChildrenInv
    <3> QED
        BY <3>1 DEF StatusInv, TypeOK, Child, NoChild
  <2>2. result' = -1
      BY <1>1, <2>1 DEF StatusInv
  <2>3. state'[1] # "reaped"
      BY <1>1, <1>2, <1>4
  <2> QED
      BY <2>2, <2>3
<1>5. ASSUME result' # -1
      PROVE  \E j \in Child : state'[j] = "reaped" /\ result' = status'[j]
    BY <1>1, <1>2, <1>5 DEF StatusInv, StatusIsAChilds
<1>6. StatusIsAChilds'
    BY <1>4, <1>5 DEF StatusIsAChilds
<1> QED
    BY <1>3, <1>6

(* waitpid() stores the status of the child it collects.                   *)
LEMMA StatusOfWaitpid ==
    ASSUME StatusInv, Waitpid, pid' = pid, status' = status,
           ret'.call = "check" => ret'.val = Answer(result')
    PROVE  StatusIsAChilds' /\ (pid' = NoChild => result' = -1)
<1>0. TypeOK /\ ChildrenInv
    BY DEF StatusInv
<1>1. CASE /\ pid \in Child /\ state[pid] = "zombie"
           /\ result' = status[pid] /\ state' = [state EXCEPT ![pid] = "reaped"]
  <2>1. state'[pid] = "reaped" /\ result' = status'[pid]
      BY <1>0, <1>1 DEF TypeOK
  <2>2. pid' # NoChild
      BY <1>1 DEF Child, NoChild
  <2>3. StatusIsAChilds'
      BY <1>1, <2>1 DEF StatusIsAChilds
  <2> QED
      BY <2>2, <2>3
<1>2. CASE result' = result /\ state' = state
    BY <1>2 DEF StatusInv, StatusIsAChilds
<1> QED
    BY <1>0, <1>1, <1>2, WaitpidCases

(* What a child does to the status words: an end sets its own, once.       *)
LEMMA StatusOfChildren ==
    ASSUME StatusInv, NEW i \in Child, ChildStep(i)
    PROVE  /\ result' = result /\ pid' = pid /\ ret' = ret
           /\ \A j \in Child : /\ state'[j] = "reaped" <=> state[j] = "reaped"
                               /\ state[j] = "reaped" => status'[j] = status[j]
<1>1. result' = result /\ pid' = pid /\ ret' = ret
    BY DEF ChildStep, exe
<1>2. state[i] \in {"forked", "running"}
    BY DEF ChildStep, Exec
<1>3. ASSUME NEW w, End(i, w), NEW j \in Child
      PROVE  /\ state'[j] = "reaped" <=> state[j] = "reaped"
             /\ state[j] = "reaped" => status'[j] = status[j]
    BY <1>2, <1>3 DEF End, StatusInv, TypeOK, ChildrenInv
<1>4. ASSUME state' = state \/ state' = [state EXCEPT ![i] = "running"], status' = status,
             NEW j \in Child
      PROVE  /\ state'[j] = "reaped" <=> state[j] = "reaped"
             /\ state[j] = "reaped" => status'[j] = status[j]
    BY <1>2, <1>4 DEF StatusInv, TypeOK
<1>5. \/ \E w : End(i, w)
      \/ (state' = state \/ state' = [state EXCEPT ![i] = "running"]) /\ status' = status
    BY DEF ChildStep, Exec, WriteOutput, ReadInput, EndChild
<1> QED
    BY <1>1, <1>3, <1>4, <1>5

(* Every step keeps the status a child's.                                  *)
LEMMA StatusStep ==
    ASSUME StatusInv, [Next]_vars
    PROVE  StatusInv'
<1>0. TypeOK' /\ ChildrenInv'
    BY TypesStep DEF StatusInv
<1> SUFFICES StatusIsAChilds' /\ (pid' = NoChild => result' = -1)
    BY <1>0 DEF StatusInv
<1>1. ASSUME UNCHANGED <<result, pid, state, status>>,
             ret' = ret \/ ret'.call # "check"
      PROVE  StatusIsAChilds' /\ (pid' = NoChild => result' = -1)
    BY <1>1, StatusKept
<1>2. CASE UNCHANGED vars
    BY <1>1, <1>2 DEF vars, exe, kids
<1>3. CASE Communicate \/ Run
  <2>1. ret' = NoReturn
      BY <1>3 DEF Communicate, Run, Enters
  <2>2. ret'.call # "check"
      BY <2>1 DEF NoReturn
  <2>3. CASE Fork(TRUE)
      BY <2>2, <2>3, StatusOfFork
  <2>4. CASE Fork(FALSE)
      BY <2>2, <2>4, StatusOfFork
  <2> QED
      BY <1>3, <2>3, <2>4 DEF Communicate, Run
<1>4. CASE Exit \/ WriteCall \/ CheckBlocking \/ \E q \in Outputs : ReadCall(q)
  <2>1. ret' = NoReturn /\ UNCHANGED <<exe, kids>>
      BY <1>4 DEF Exit, WriteCall, CheckBlocking, ReadCall, Enters
  <2> QED
      BY <1>1, <2>1 DEF exe, kids, NoReturn
<1>5. CASE CheckNonBlocking
  <2>1. Waitpid /\ pid' = pid /\ status' = status /\ ret'.val = Answer(result')
      BY <1>5 DEF CheckNonBlocking, Returns, Answer
  <2> QED
      BY <2>1, StatusOfWaitpid
<1>6. ASSUME NEW q \in Outputs, ReadChunk(q) \/ ReadEnd(q)
      PROVE  StatusIsAChilds' /\ (pid' = NoChild => result' = -1)
  <2>1. (ret' = ret \/ ret'.call = q) /\ UNCHANGED <<result, pid, kids>>
      BY <1>6 DEF ReadChunk, ReadEnd, Returns, exe
  <2>2. q # "check"
      BY DEF Outputs
  <2> QED
      BY <1>1, <2>1, <2>2 DEF kids
<1>7. ASSUME NEW part \in Parts, WritePart(part)
      PROVE  StatusIsAChilds' /\ (pid' = NoChild => result' = -1)
  <2>1. ret' = NoReturn /\ UNCHANGED <<exe, kids>>
      BY <1>7 DEF WritePart, Enters
  <2> QED
      BY <1>1, <2>1 DEF exe, kids, NoReturn
<1>8. ASSUME NEW c \in Waits, WaitEnd(c)
      PROVE  StatusIsAChilds' /\ (pid' = NoChild => result' = -1)
  <2>1. Waitpid /\ pid' = pid /\ status' = status /\ ret'.call = c
      BY <1>8 DEF WaitEnd, Returns
  <2>2. c # "check"
      BY DEF Waits
  <2> QED
      BY <2>1, <2>2, StatusOfWaitpid
<1>9. ASSUME NEW i \in Child, ChildStep(i)
      PROVE  StatusIsAChilds' /\ (pid' = NoChild => result' = -1)
    BY <1>9, StatusOfChildren, StatusKept
<1> QED
    BY <1>2, <1>3, <1>4, <1>5, <1>6, <1>7, <1>8, <1>9 DEF Next, Call, InCall

(* check_for_exit() of an Executor that started one child answers -1 until *)
(* it has been collected and its own status from then on; and whatever was *)
(* started before, the status word is always -1 or some collected child's. *)
THEOREM StatusCorrect == Spec => []StatusIsAChilds
<1>1. Init => StatusInv
  <2>1. ASSUME Init PROVE StatusInv
    <3>1. TypeOK /\ ChildrenInv
        BY <2>1, TypesInit
    <3>2. result = -1 /\ pid = NoChild /\ pid # 1
        BY <2>1 DEF Init, NoChild
    <3> QED
        BY <3>1, <3>2 DEF StatusInv, StatusIsAChilds
  <2> QED
      BY <2>1
<1>2. StatusInv /\ [Next]_vars => StatusInv'
    BY StatusStep
<1>3. StatusInv => StatusIsAChilds
    BY DEF StatusInv
<1> QED
    BY <1>1, <1>2, <1>3, PTL DEF Spec

-----------------------------------------------------------------------------
(* What the read under way has of a stream and not handed out yet.         *)
Held(i, q) == IF call = q /\ chan = i THEN got ELSE <<>>

Joined(a, b, c) == (a \o b) \o c

(* Nothing is lost, changed or repeated on the way: what a child wrote is  *)
(* what was taken, what is held and what is still in the pipe.             *)
StreamInv(i, q) ==
    NoNul(sent[i][q]) =>
        /\ taken[i][q] \in Seq(Unit) /\ Held(i, q) \in Seq(Unit)
        /\ sent[i][q] = Joined(taken[i][q], Held(i, q), pipe[i][q])

StreamsInv ==
    /\ buffer = Blank
    /\ sent \in [Child -> [Outputs -> Seq(Unit)]]
    /\ DOMAIN taken = Child /\ \A i \in Child : DOMAIN taken[i] = Outputs
    /\ \A i \in Child, q \in Outputs : StreamInv(i, q)

(* Who has just got an answer has a child it came from.                    *)
AnswerInv == ReadIsComplete /\ (ret.call \in Outputs => chan \in Child)

ReadsInv == TypeOK /\ ChildrenInv /\ StreamsInv /\ AnswerInv

(* The C string in a cleared buffer that n characters were read into.      *)
LEMMA CStringOfChunk ==
    ASSUME NEW p \in Seq(Unit), NoNul(p), NEW n \in Nat, n < BufSize, n <= Len(p)
    PROVE  CString([i \in 1..BufSize |-> IF i <= n THEN p[i] ELSE NUL]) = SubSeq(p, 1, n)
<1> DEFINE filled == [i \in 1..BufSize |-> IF i <= n THEN p[i] ELSE NUL]
           ends == {i \in 1..BufSize : filled[i] = NUL}
           first == CHOOSE i \in ends : \A j \in ends : i <= j
<1>0. BufSize \in Nat /\ Len(p) \in Nat
    BY ExecutorAssumption, LenProperties DEF ExecutorAssumption
<1>1. \A i \in 1..n : i \in 1..BufSize /\ i \in 1..Len(p) /\ filled[i] = p[i] /\ p[i] \in Unit
    BY <1>0, LenProperties
<1>2. ends = n + 1..BufSize
  <2>1. ASSUME NEW i \in 1..BufSize PROVE filled[i] = NUL <=> i > n
      BY <1>0, <1>1 DEF NoNul
  <2> QED
      BY <1>0, <2>1
<1>3. first = n + 1
  <2> HIDE DEF ends
  <2>1. n + 1 \in ends /\ \A j \in ends : n + 1 <= j
      BY <1>0, <1>2
  <2>2. \A i \in ends : (\A j \in ends : i <= j) => i = n + 1
      BY <1>0, <1>2
  <2> QED
      BY <2>1, <2>2
<1>4. CString(filled) = SubSeq(filled, 1, first - 1)
    BY Zenon DEF CString
<1> HIDE DEF filled, first
<1>5. first - 1 = n
    BY <1>3
<1>6. SubSeq(filled, 1, n) = SubSeq(p, 1, n)
  <2>1. /\ SubSeq(filled, 1, n) \in Seq(Unit) /\ Len(SubSeq(filled, 1, n)) = n
        /\ \A i \in 1..n : SubSeq(filled, 1, n)[i] = filled[i]
      BY <1>1, SubSeqProperties
  <2>2. /\ SubSeq(p, 1, n) \in Seq(Unit) /\ Len(SubSeq(p, 1, n)) = n
        /\ \A i \in 1..n : SubSeq(p, 1, n)[i] = p[i]
      BY <1>1, SubSeqProperties
  <2> QED
      BY <1>1, <2>1, <2>2, SeqEqual
<1> QED
    BY <1>4, <1>5, <1>6 DEF filled

(* Pieces of output, put together.                                         *)
Cat(a, b) == a \o b

(* It does not matter in which order.                                      *)
LEMMA PiecesJoin ==
    ASSUME NEW a \in Seq(Unit), NEW b \in Seq(Unit), NEW c \in Seq(Unit)
    PROVE  Cat(a, b) \in Seq(Unit) /\ Cat(Cat(a, b), c) = Cat(a, Cat(b, c))
BY ConcatAssociative DEF Cat

(* What follows the second of three pieces may go with the third.          *)
LEMMA PieceMoves ==
    ASSUME NEW a \in Seq(Unit), NEW b \in Seq(Unit), NEW c \in Seq(Unit), NEW d \in Seq(Unit)
    PROVE  Joined(a, Cat(b, c), d) = Joined(a, b, Cat(c, d))
<1>1. Cat(Cat(a, Cat(b, c)), d) = Cat(Cat(a, b), Cat(c, d))
    BY PiecesJoin
<1> QED
    BY <1>1 DEF Joined, Cat

(* A chunk goes from the front of the pipe to the end of what is held.     *)
LEMMA ChunkMoves ==
    ASSUME NEW t \in Seq(Unit), NEW h \in Seq(Unit), NEW p \in Seq(Unit),
           NEW n \in Nat, n <= Len(p)
    PROVE  /\ h \o SubSeq(p, 1, n) \in Seq(Unit)
           /\ Joined(t, h \o SubSeq(p, 1, n), Drop(p, n)) = Joined(t, h, p)
<1> DEFINE chunk == SubSeq(p, 1, n)
           left == Drop(p, n)
<1>0. Len(p) \in Nat /\ \A i \in 1..Len(p) : p[i] \in Unit
    BY LenProperties
<1>1. chunk \in Seq(Unit)
    BY <1>0, SubSeqProperties
<1>2. left \in Seq(Unit)
    BY <1>0, SubSeqProperties DEF Drop
<1>3. chunk \o left = p
  <2>1. 1 \in 1..Len(p) + 1 /\ n \in 1 - 1..Len(p) /\ Len(p) \in n..Len(p)
      BY <1>0
  <2>2. SubSeq(p, 1, n) \o SubSeq(p, n + 1, Len(p)) = SubSeq(p, 1, Len(p))
      BY <2>1, ConcatAdjacentSubSeq
  <2> QED
      BY <2>2, SubSeqFull DEF Drop
<1> HIDE DEF chunk, left
<1>4. h \o chunk \in Seq(Unit)
    BY <1>1, ConcatProperties
<1>5. Cat(chunk, left) = p
    BY <1>3 DEF Cat
<1>6. Joined(t, Cat(h, chunk), left) = Joined(t, h, p)
    BY <1>1, <1>2, <1>5, PieceMoves
<1> QED
    BY <1>4, <1>6 DEF chunk, left, Cat

(* Without a NUL in the whole there is none in its end.                    *)
LEMMA NoNulAtTheEnd ==
    ASSUME NEW a \in Seq(Unit), NEW p \in Seq(Unit), NoNul(a \o p)
    PROVE  NoNul(p)
<1>1. ASSUME NEW i \in 1..Len(p) PROVE p[i] # NUL
  <2>1. Len(a) \in Nat /\ Len(p) \in Nat
      BY LenProperties
  <2>2. Len(a \o p) = Len(a) + Len(p) /\ Len(a) + i \in 1..Len(a \o p)
      BY <2>1, ConcatProperties
  <2>3. (a \o p)[Len(a) + i] = p[i]
      BY <2>1, ConcatProperties
  <2> QED
      BY <2>2, <2>3 DEF NoNul
<1> QED
    BY <1>1 DEF NoNul

(* One more character at the end of the pipe and of what was sent.         *)
LEMMA CharacterSent ==
    ASSUME NEW a \in Seq(Unit), NEW p \in Seq(Unit), NEW u \in Unit
    PROVE  Append(a \o p, u) = a \o Append(p, u)
<1>1. /\ Append(a \o p, u) = (a \o p) \o <<u>> /\ Append(p, u) = p \o <<u>>
      /\ <<u>> \in Seq(Unit)
    BY ConcatProperties, AppendIsConcat
<1> QED
    BY <1>1, ConcatAssociative

(* A step that leaves the two outputs alone, and what is held of them.     *)
LEMMA StreamsStay ==
    ASSUME StreamsInv, UNCHANGED <<buffer, sent, taken>>,
           \A i \in Child, q \in Outputs : pipe'[i][q] = pipe[i][q] /\ Held(i, q)' = Held(i, q)
    PROVE  StreamsInv'
<1>1. ASSUME NEW i \in Child, NEW q \in Outputs
      PROVE  StreamInv(i, q)'
  <2>1. StreamInv(i, q)
      BY DEF StreamsInv
  <2> HIDE DEF Held
  <2> QED
      BY <2>1 DEF StreamInv
<1> QED
    BY <1>1 DEF StreamsInv, Blank

(* Outside of the reads nothing is held.                                   *)
LEMMA NothingHeld ==
    ASSUME NEW i, NEW q, call # q, call' # q
    PROVE  Held(i, q)' = Held(i, q)
BY DEF Held

(* What a finished read answered stays true.                               *)
LEMMA AnswerStays ==
    ASSUME AnswerInv,
           \/ ret'.call \notin Outputs
           \/ /\ UNCHANGED <<ret, chan, taken>>
              /\ chan \in Child /\ Ended(chan) =>
                    state'[chan] \in {"zombie", "reaped"} /\ sent'[chan] = sent[chan]
    PROVE  AnswerInv'
BY DEF AnswerInv, ReadIsComplete, Ended

(* What a child does to its outputs: it writes one character, or nothing.  *)
LEMMA ChildWrites ==
    ASSUME TypeOK, ChildrenInv, NEW i \in Child, ChildStep(i)
    PROVE  /\ UNCHANGED <<buffer, chan, taken, call, got, ret>>
           /\ state[i] \in {"forked", "running"}
           /\ \A j \in Child \ {i} : state'[j] = state[j]
           /\ \/ UNCHANGED sent /\ \A j \in Child, q \in Outputs : pipe'[j][q] = pipe[j][q]
              \/ \E o \in Outputs, u \in Unit :
                    /\ pipe' = [pipe EXCEPT ![i][o] = Append(@, u)]
                    /\ sent' = [sent EXCEPT ![i][o] = Append(@, u)]
<1>1. UNCHANGED <<buffer, chan, taken, call, got, ret>>
    BY DEF ChildStep, exe
<1>2. state[i] \in {"forked", "running"}
    BY DEF ChildStep, Exec
<1>3. \A j \in Child \ {i} : state'[j] = state[j]
  <2>1. \/ UNCHANGED state
        \/ state' = [state EXCEPT ![i] = "zombie"]
        \/ state' = [state EXCEPT ![i] = "running"]
      BY DEF ChildStep, Exec, WriteOutput, ReadInput, EndChild, End
  <2> QED
      BY <2>1 DEF TypeOK
<1>4. CASE state[i] = "running" /\ WriteOutput(i)
  <2>1. Op(i).op \in Outputs /\ Op(i).arg \in Unit
      BY <1>4, NextOperation, OperationProperties DEF WriteOutput
  <2>2. \/ UNCHANGED <<sent, pipe>>
        \/ /\ pipe' = [pipe EXCEPT ![i][Op(i).op] = Append(@, Op(i).arg)]
           /\ sent' = [sent EXCEPT ![i][Op(i).op] = Append(@, Op(i).arg)]
      BY <1>4 DEF WriteOutput, End
  <2> QED
      BY <1>1, <1>2, <1>3, <2>1, <2>2
<1>5. CASE state[i] = "running" /\ ReadInput(i)
  <2>1. UNCHANGED sent /\ (pipe' = pipe \/ pipe' = [pipe EXCEPT ![i]["in"] = Tail(@)])
      BY <1>5 DEF ReadInput
  <2>2. "in" \notin Outputs /\ Outputs \subseteq Streams
      BY DEF Outputs, Streams
  <2>3. ASSUME NEW j \in Child, NEW q \in Outputs
        PROVE  pipe'[j][q] = pipe[j][q]
    <3>1. pipe \in [Child -> [Streams -> Seq(Unit)]]
        BY DEF ChildrenInv
    <3>2. q # "in" /\ q \in Streams
        BY <2>2
    <3> QED
        BY <2>1, <3>1, <3>2
  <2> QED
      BY <1>1, <1>2, <1>3, <2>1, <2>3
<1>6. CASE Exec(i) \/ (state[i] = "running" /\ EndChild(i))
  <2>1. UNCHANGED <<sent, pipe>>
      BY <1>6 DEF Exec, EndChild, End
  <2> QED
      BY <1>1, <1>2, <1>3, <2>1
<1> QED
    BY <1>4, <1>5, <1>6 DEF ChildStep

(* A child's step keeps the streams whole and a finished answer true.      *)
LEMMA StreamsOfChild ==
    ASSUME ReadsInv, NEW i \in Child, ChildStep(i)
    PROVE  StreamsInv' /\ AnswerInv'
<1>0. TypeOK /\ ChildrenInv /\ StreamsInv /\ AnswerInv
    BY DEF ReadsInv
<1>1. /\ UNCHANGED <<buffer, chan, taken, call, got, ret>>
      /\ state[i] \in {"forked", "running"}
      /\ \A j \in Child \ {i} : state'[j] = state[j]
    BY <1>0, ChildWrites
<1>2. \A j \in Child, q \in Outputs : Held(j, q)' = Held(j, q)
    BY <1>1 DEF Held
<1>3. CASE UNCHANGED sent /\ \A j \in Child, q \in Outputs : pipe'[j][q] = pipe[j][q]
  <2>1. StreamsInv'
      BY <1>0, <1>1, <1>2, <1>3, StreamsStay
  <2>2. ASSUME chan \in Child, Ended(chan)
        PROVE  state'[chan] \in {"zombie", "reaped"} /\ sent'[chan] = sent[chan]
    <3>1. chan # i
        BY <1>1, <2>2 DEF Ended
    <3> QED
        BY <1>1, <1>3, <2>2, <3>1 DEF Ended
  <2> QED
      BY <1>0, <1>1, <2>1, <2>2, AnswerStays
<1>4. ASSUME NEW o \in Outputs, NEW u \in Unit,
             pipe' = [pipe EXCEPT ![i][o] = Append(@, u)],
             sent' = [sent EXCEPT ![i][o] = Append(@, u)]
      PROVE  StreamsInv' /\ AnswerInv'
  <2>1. /\ sent \in [Child -> [Outputs -> Seq(Unit)]] /\ pipe \in [Child -> [Streams -> Seq(Unit)]]
        /\ Outputs \subseteq Streams /\ o \in Streams
      BY <1>0 DEF StreamsInv, ChildrenInv, Outputs, Streams
  <2>2. Append(sent[i][o], u) \in Seq(Unit)
      BY <2>1, AppendProperties
  <2>3. sent' \in [Child -> [Outputs -> Seq(Unit)]]
      BY <1>4, <2>1, <2>2
  <2>4. ASSUME NEW j \in Child, NEW q \in Outputs
        PROVE  StreamInv(j, q)'
    <3>1. StreamInv(j, q) /\ taken'[j][q] = taken[j][q] /\ Held(j, q)' = Held(j, q)
        BY <1>0, <1>1, <1>2 DEF StreamsInv
    <3>2. CASE j = i /\ q = o
      <4>1. sent'[j][q] = Append(sent[j][q], u) /\ pipe'[j][q] = Append(pipe[j][q], u)
          BY <1>4, <2>1, <3>2
      <4>2. sent[j][q] \in Seq(Unit) /\ pipe[j][q] \in Seq(Unit)
          BY <2>1
      <4>3. ASSUME NoNul(sent'[j][q])
            PROVE  NoNul(sent[j][q])
        <5>1. /\ Len(sent'[j][q]) = Len(sent[j][q]) + 1 /\ Len(sent[j][q]) \in Nat
              /\ \A k \in 1..Len(sent[j][q]) : sent'[j][q][k] = sent[j][q][k]
            BY <4>1, <4>2, AppendProperties, LenProperties
        <5> QED
            BY <4>3, <5>1 DEF NoNul
      <4>4. ASSUME NoNul(sent[j][q])
            PROVE  /\ taken[j][q] \in Seq(Unit) /\ Held(j, q) \in Seq(Unit)
                   /\ sent'[j][q] = Joined(taken[j][q], Held(j, q), pipe'[j][q])
        <5>1. /\ taken[j][q] \in Seq(Unit) /\ Held(j, q) \in Seq(Unit)
              /\ sent[j][q] = Joined(taken[j][q], Held(j, q), pipe[j][q])
            BY <3>1, <4>4 DEF StreamInv
        <5>2. taken[j][q] \o Held(j, q) \in Seq(Unit)
            BY <5>1, ConcatProperties
        <5>3. Append((taken[j][q] \o Held(j, q)) \o pipe[j][q], u)
                 = (taken[j][q] \o Held(j, q)) \o Append(pipe[j][q], u)
            BY <4>2, <5>2, CharacterSent
        <5> QED
            BY <4>1, <5>1, <5>3 DEF Joined
      <4> QED
          BY <3>1, <4>3, <4>4 DEF StreamInv
    <3>3. CASE j # i \/ q # o
      <4>1. sent'[j][q] = sent[j][q] /\ pipe'[j][q] = pipe[j][q]
          BY <1>4, <2>1, <3>3
      <4> QED
          BY <3>1, <4>1 DEF StreamInv
    <3> QED
        BY <3>2, <3>3
  <2>5. StreamsInv'
      BY <1>0, <1>1, <2>3, <2>4 DEF StreamsInv, Blank
  <2>6. ASSUME chan \in Child, Ended(chan)
        PROVE  state'[chan] \in {"zombie", "reaped"} /\ sent'[chan] = sent[chan]
    <3>1. chan # i
        BY <1>1, <2>6 DEF Ended
    <3> QED
        BY <1>1, <1>4, <2>1, <2>6, <3>1 DEF Ended
  <2> QED
      BY <1>0, <1>1, <2>5, <2>6, AnswerStays
<1> QED
    BY <1>0, <1>3, <1>4, ChildWrites

(* A turn of the read loop moves characters from the pipe to what is held. *)
LEMMA StreamsOfChunk ==
    ASSUME ReadsInv, NEW q \in Outputs, ReadChunk(q)
    PROVE  StreamsInv' /\ AnswerInv'
<1>0. TypeOK /\ ChildrenInv /\ StreamsInv /\ AnswerInv
    BY DEF ReadsInv
<1> DEFINE n == Min(Len(pipe[chan][q]), BufSize - 1)
           filled == [i \in 1..BufSize |-> IF i <= n THEN pipe[chan][q][i] ELSE buffer[i]]
<1>1. /\ call = q /\ n > 0 /\ got' = got \o CString(filled) /\ buffer' = Blank
      /\ pipe' = [pipe EXCEPT ![chan][q] = Drop(@, n)]
      /\ UNCHANGED <<pid, result, init_done, chan, kids, taken, lines, call, ret>>
    BY DEF ReadChunk
<1>2. UNCHANGED <<chan, state, sent, taken, call, ret>> /\ buffer' = Blank
    BY <1>1 DEF kids
<1>3. chan \in Child /\ q \in Streams
    BY <1>0, <1>1 DEF TypeOK, ChildrenInv, Streams
<1>4. pipe \in [Child -> [Streams -> Seq(Unit)]]
    BY <1>0 DEF ChildrenInv
<1>5. pipe[chan][q] \in Seq(Unit) /\ Len(pipe[chan][q]) \in Nat
    BY <1>3, <1>4, LenProperties
<1>6. n \in Nat /\ n <= Len(pipe[chan][q]) /\ n < BufSize
    BY <1>1, <1>5, ExecutorAssumption DEF Min, ExecutorAssumption
<1>7. filled = [i \in 1..BufSize |-> IF i <= n THEN pipe[chan][q][i] ELSE NUL]
    BY <1>0 DEF StreamsInv, Blank
<1> HIDE DEF n, filled
<1>8. ASSUME NEW j \in Child, NEW r \in Outputs
      PROVE  StreamInv(j, r)'
  <2>1. StreamInv(j, r)
      BY <1>0 DEF StreamsInv
  <2>2. CASE j = chan /\ r = q
    <3>1. ASSUME NoNul(sent[j][r])
          PROVE  /\ taken[j][r] \in Seq(Unit) /\ got' \in Seq(Unit)
                 /\ sent[j][r] = Joined(taken[j][r], got', pipe'[j][r])
      <4>1. /\ taken[j][r] \in Seq(Unit) /\ got \in Seq(Unit)
            /\ sent[j][r] = Joined(taken[j][r], got, pipe[j][r])
          BY <1>1, <2>1, <2>2, <3>1 DEF StreamInv, Held
      <4>2. NoNul(pipe[j][r])
        <5>1. taken[j][r] \o got \in Seq(Unit)
            BY <4>1, ConcatProperties
        <5>2. NoNul((taken[j][r] \o got) \o pipe[j][r])
            BY <3>1, <4>1 DEF Joined
        <5> QED
            BY <1>5, <2>2, <5>1, <5>2, NoNulAtTheEnd
      <4>3. CString(filled) = SubSeq(pipe[j][r], 1, n)
          BY <1>5, <1>6, <1>7, <2>2, <4>2, CStringOfChunk
      <4>4. got' = got \o SubSeq(pipe[j][r], 1, n) /\ pipe'[j][r] = Drop(pipe[j][r], n)
          BY <1>1, <1>3, <1>4, <2>2, <4>3
      <4>5. pipe[j][r] \in Seq(Unit) /\ n <= Len(pipe[j][r])
          BY <1>5, <1>6, <2>2
      <4>6. /\ got \o SubSeq(pipe[j][r], 1, n) \in Seq(Unit)
            /\ Joined(taken[j][r], got \o SubSeq(pipe[j][r], 1, n), Drop(pipe[j][r], n))
                  = Joined(taken[j][r], got, pipe[j][r])
          BY <1>6, <4>1, <4>5, ChunkMoves
      <4> QED
          BY <4>1, <4>4, <4>6
    <3>2. Held(j, r)' = got'
        BY <1>1, <1>2, <2>2 DEF Held
    <3> QED
        BY <1>2, <3>1, <3>2 DEF StreamInv
  <2>3. CASE j # chan \/ r # q
    <3>1. pipe'[j][r] = pipe[j][r]
      <4>1. r \in Streams
          BY DEF Streams
      <4> QED
          BY <1>1, <1>3, <1>4, <2>3, <4>1
    <3>2. Held(j, r) = <<>> /\ Held(j, r)' = <<>>
        BY <1>1, <1>2, <2>3 DEF Held
    <3> QED
        BY <1>2, <2>1, <3>1, <3>2 DEF StreamInv
  <2> QED
      BY <2>2, <2>3
<1>9. StreamsInv'
    BY <1>0, <1>2, <1>8 DEF StreamsInv, Blank
<1>10. AnswerInv'
    BY <1>0, <1>2, AnswerStays DEF Ended
<1> QED
    BY <1>9, <1>10

(* The end of a read hands out what it holds; with the pipe empty that is  *)
(* the rest of what the child wrote.                                       *)
LEMMA StreamsOfReadEnd ==
    ASSUME ReadsInv, NEW q \in Outputs, ReadEnd(q)
    PROVE  StreamsInv' /\ AnswerInv'
<1>0. TypeOK /\ ChildrenInv /\ StreamsInv /\ AnswerInv
    BY DEF ReadsInv
<1>1. /\ call = q /\ (BufSize = 1 \/ (pipe[chan][q] = <<>> /\ Ended(chan)))
      /\ taken' = [taken EXCEPT ![chan][q] = taken[chan][q] \o got]
      /\ call' = "idle" /\ ret'.call = q
      /\ UNCHANGED <<chan, state, sent, buffer, pipe>>
    BY DEF ReadEnd, Returns, exe, kids
<1>2. chan \in Child
    BY <1>0, <1>1 DEF TypeOK, ChildrenInv
<1>3. /\ DOMAIN taken = Child /\ \A j \in Child : DOMAIN taken[j] = Outputs
      /\ sent \in [Child -> [Outputs -> Seq(Unit)]]
    BY <1>0 DEF StreamsInv
<1>4. /\ DOMAIN taken' = Child /\ \A j \in Child : DOMAIN taken'[j] = Outputs
      /\ taken'[chan][q] = taken[chan][q] \o got
      /\ \A j \in Child, r \in Outputs : (j # chan \/ r # q) => taken'[j][r] = taken[j][r]
    BY <1>1, <1>2, <1>3
<1>5. \A j, r : call' # r => Held(j, r)' = <<>>
    BY DEF Held
<1>6. ASSUME NEW j \in Child, NEW r \in Outputs
      PROVE  StreamInv(j, r)'
  <2>1. StreamInv(j, r) /\ Held(j, r)' = <<>>
      BY <1>0, <1>1, <1>5, Calls DEF StreamsInv
  <2>2. CASE j = chan /\ r = q
    <3>1. ASSUME NoNul(sent[j][r])
          PROVE  /\ taken'[j][r] \in Seq(Unit)
                 /\ sent[j][r] = Joined(taken'[j][r], <<>>, pipe[j][r])
      <4>1. /\ taken[j][r] \in Seq(Unit) /\ got \in Seq(Unit)
            /\ sent[j][r] = Joined(taken[j][r], got, pipe[j][r])
          BY <1>1, <2>1, <2>2, <3>1 DEF StreamInv, Held
      <4>2. taken[j][r] \o got \in Seq(Unit)
          BY <4>1, ConcatProperties
      <4>3. taken'[j][r] = taken[j][r] \o got
          BY <1>4, <2>2
      <4>4. (taken[j][r] \o got) \o <<>> = taken[j][r] \o got
          BY <4>2, ConcatEmptySeq
      <4> QED
          BY <4>1, <4>2, <4>3, <4>4 DEF Joined
    <3>2. <<>> \in Seq(Unit)
        BY EmptySeq
    <3> QED
        BY <1>1, <2>1, <3>1, <3>2 DEF StreamInv
  <2>3. CASE j # chan \/ r # q
    <3>1. taken'[j][r] = taken[j][r]
        BY <1>4, <2>3
    <3>2. Held(j, r) = <<>>
        BY <1>1, <2>3 DEF Held
    <3> QED
        BY <1>1, <2>1, <3>1, <3>2 DEF StreamInv
  <2> QED
      BY <2>2, <2>3
<1>7. StreamsInv'
    BY <1>0, <1>1, <1>4, <1>6 DEF StreamsInv, Blank
<1>8. ASSUME BufSize > 1
      PROVE  Ended(chan) /\ (NoNul(sent[chan][q]) => taken'[chan][q] = sent[chan][q])
  <2>1. pipe[chan][q] = <<>> /\ Ended(chan)
      BY <1>1, <1>8
  <2>2. ASSUME NoNul(sent[chan][q])
        PROVE  taken'[chan][q] = sent[chan][q]
    <3>1. /\ taken[chan][q] \in Seq(Unit) /\ got \in Seq(Unit)
          /\ sent[chan][q] = Joined(taken[chan][q], got, <<>>)
        BY <1>0, <1>1, <1>2, <2>1, <2>2 DEF StreamsInv, StreamInv, Held
    <3>2. taken[chan][q] \o got \in Seq(Unit)
        BY <3>1, ConcatProperties
    <3> QED
        BY <1>4, <3>1, <3>2, ConcatEmptySeq DEF Joined
  <2> QED
      BY <2>1, <2>2
<1>9. ReadIsComplete'
    BY <1>1, <1>8 DEF ReadIsComplete, Ended
<1>10. AnswerInv'
    BY <1>1, <1>2, <1>9 DEF AnswerInv
<1> QED
    BY <1>7, <1>10

(* Every other step of the parent holds nothing and answers no read.       *)
LEMMA StreamsOfOthers ==
    ASSUME ReadsInv, UNCHANGED <<buffer, sent, taken>>, ret'.call \notin Outputs,
           call \notin Outputs, call' \in Outputs => got' = <<>>,
           \A i \in Child, q \in Outputs : pipe'[i][q] = pipe[i][q]
    PROVE  StreamsInv' /\ AnswerInv'
<1>0. StreamsInv /\ AnswerInv
    BY DEF ReadsInv
<1>1. \A i \in Child, q \in Outputs : Held(i, q)' = Held(i, q)
    BY DEF Held
<1> QED
    BY <1>0, <1>1, StreamsStay, AnswerStays

(* Every step keeps the streams whole and the answers true.                *)
LEMMA ReadsStep ==
    ASSUME ReadsInv, [Next]_vars
    PROVE  ReadsInv'
<1>0. TypeOK /\ ChildrenInv /\ StreamsInv /\ AnswerInv
    BY DEF ReadsInv
<1>1. TypeOK' /\ ChildrenInv'
    BY <1>0, TypesStep
<1> SUFFICES StreamsInv' /\ AnswerInv'
    BY <1>1 DEF ReadsInv
<1>2. CASE UNCHANGED vars
  <2>1. UNCHANGED <<buffer, chan, state, sent, pipe, taken, call, got, ret>>
      BY <1>2 DEF vars, exe, kids
  <2>2. \A i \in Child, q \in Outputs : Held(i, q)' = Held(i, q)
      BY <2>1 DEF Held
  <2> QED
      BY <1>0, <2>1, <2>2, StreamsStay, AnswerStays DEF Ended
<1>3. ret' = NoReturn => ret'.call \notin Outputs
    BY DEF NoReturn, Outputs
<1>4. CASE Communicate \/ Run
  <2>1. ret' = NoReturn /\ call = "idle" /\ call' \in {"idle", "run"}
      BY <1>4 DEF Communicate, Run, Enters
  <2>2. UNCHANGED <<buffer, sent, pipe, taken>>
      BY <1>4 DEF Communicate, Run, Fork
  <2> QED
      BY <1>3, <2>1, <2>2, Calls, StreamsOfOthers
<1>5. CASE Exit \/ WriteCall \/ CheckBlocking
  <2>1. /\ ret' = NoReturn /\ call = "idle" /\ call' \in {"gone", "wait"} \cup Parts
        /\ UNCHANGED <<exe, kids, pipe, taken>>
      BY <1>5 DEF Exit, WriteCall, CheckBlocking, Enters, Parts
  <2>2. UNCHANGED <<buffer, sent, pipe, taken>>
      BY <2>1 DEF exe, kids
  <2> QED
      BY <1>3, <2>1, <2>2, Calls, StreamsOfOthers
<1>6. CASE CheckNonBlocking
  <2>1. /\ ret'.call = "check" /\ call = "idle" /\ call' = "idle"
        /\ UNCHANGED <<buffer, sent, pipe, taken>>
      BY <1>6 DEF CheckNonBlocking, Returns
  <2>2. "check" \notin Outputs
      BY DEF Outputs
  <2> QED
      BY <2>1, <2>2, Calls, StreamsOfOthers
<1>7. ASSUME NEW q \in Outputs, ReadCall(q)
      PROVE  StreamsInv' /\ AnswerInv'
  <2>1. ret' = NoReturn /\ call = "idle" /\ got' = <<>> /\ UNCHANGED <<exe, kids, pipe, taken>>
      BY <1>7 DEF ReadCall, Enters
  <2>2. UNCHANGED <<buffer, sent, pipe, taken>>
      BY <2>1 DEF exe, kids
  <2> QED
      BY <1>3, <2>1, <2>2, Calls, StreamsOfOthers
<1>8. ASSUME NEW part \in Parts, WritePart(part)
      PROVE  StreamsInv' /\ AnswerInv'
  <2>1. /\ ret' = NoReturn /\ call = part /\ call' \in {"gone", "newline", "idle"}
        /\ UNCHANGED <<exe, kids, taken>>
      BY <1>8 DEF WritePart, Enters
  <2>2. UNCHANGED <<buffer, sent, taken>>
      BY <2>1 DEF exe, kids
  <2>3. \/ pipe' = pipe
        \/ \E u : pipe' = [pipe EXCEPT ![chan]["in"] = Append(@, u)]
      BY <1>8 DEF WritePart
  <2>4. ASSUME NEW i \in Child, NEW q \in Outputs
        PROVE  pipe'[i][q] = pipe[i][q]
    <3>1. pipe \in [Child -> [Streams -> Seq(Unit)]]
        BY <1>0 DEF ChildrenInv
    <3>2. q # "in" /\ q \in Streams
        BY DEF Outputs, Streams
    <3> QED
        BY <2>3, <3>1, <3>2
  <2>5. call \notin Outputs /\ call' \notin Outputs
      BY <2>1, Calls
  <2> QED
      BY <1>3, <2>1, <2>2, <2>4, <2>5, StreamsOfOthers
<1>9. ASSUME NEW c \in Waits, WaitEnd(c)
      PROVE  StreamsInv' /\ AnswerInv'
  <2>1. /\ ret'.call = c /\ call = c /\ call' = "idle"
        /\ UNCHANGED <<buffer, sent, pipe, taken>>
      BY <1>9 DEF WaitEnd, Returns
  <2>2. c \notin Outputs /\ call' \notin Outputs
      BY <2>1, Calls
  <2> QED
      BY <2>1, <2>2, StreamsOfOthers
<1>10. ASSUME NEW q \in Outputs, ReadChunk(q) \/ ReadEnd(q)
       PROVE  StreamsInv' /\ AnswerInv'
    BY <1>10, StreamsOfChunk, StreamsOfReadEnd
<1>11. ASSUME NEW i \in Child, ChildStep(i)
       PROVE  StreamsInv' /\ AnswerInv'
    BY <1>11, StreamsOfChild
<1> QED
    BY <1>2, <1>4, <1>5, <1>6, <1>7, <1>8, <1>9, <1>10, <1>11 DEF Next, Call, InCall

(* A read returns when the child has ended and not before, and the reads   *)
(* together return all that the child wrote, in order, whatever the sizes  *)
(* of the pipe and of the buffer (of two bytes at least), as long as it    *)
(* wrote no NUL.                                                           *)
THEOREM ReadsCorrect == Spec => []ReadIsComplete
<1>1. Init => ReadsInv
  <2>1. ASSUME Init PROVE ReadsInv
    <3>1. TypeOK /\ ChildrenInv
        BY <2>1, TypesInit
    <3>2. /\ buffer = Blank /\ call = "idle" /\ ret = NoReturn
          /\ sent = [i \in Child |-> [q \in Outputs |-> <<>>]]
          /\ taken = [i \in Child |-> [q \in Outputs |-> <<>>]]
          /\ pipe = [i \in Child |-> [q \in Streams |-> <<>>]]
        BY <2>1 DEF Init
    <3>3. ASSUME NEW i \in Child, NEW q \in Outputs
          PROVE  StreamInv(i, q)
      <4>1. sent[i][q] = <<>> /\ taken[i][q] = <<>> /\ pipe[i][q] = <<>> /\ Held(i, q) = <<>>
        <5>1. q \in Streams /\ call # q
            BY <3>2, Calls DEF Streams
        <5> QED
            BY <3>2, <5>1 DEF Held
      <4>2. <<>> \in Seq(Unit) /\ Joined(<<>>, <<>>, <<>>) = <<>>
          BY EmptySeq, ConcatEmptySeq DEF Joined
      <4> QED
          BY <4>1, <4>2 DEF StreamInv
    <3>4. StreamsInv
      <4>1. <<>> \in Seq(Unit)
          BY EmptySeq
      <4> QED
          BY <3>2, <3>3, <4>1 DEF StreamsInv
    <3>5. ret.call \notin Outputs
        BY <3>2 DEF NoReturn, Outputs
    <3> QED
        BY <3>1, <3>4, <3>5 DEF ReadsInv, AnswerInv, ReadIsComplete
  <2> QED
      BY <2>1
<1>2. ReadsInv /\ [Next]_vars => ReadsInv'
    BY ReadsStep
<1>3. ReadsInv => ReadIsComplete
    BY DEF ReadsInv, AnswerInv
<1> QED
    BY <1>1, <1>2, <1>3, PTL DEF Spec
=============================================================================
