------------------------------ MODULE Executor -----------------------------
(***************************************************************************)
(* Executor of platform/executor.cc: a parent process that starts child    *)
(* processes, talks to them through three pipes, and collects their exit   *)
(* status.  One Executor object may start several children one after the   *)
(* other: communicate() and run() overwrite pid, and communicate() the     *)
(* pipe descriptors too.                                                   *)
(*                                                                         *)
(* The program a child executes is a script, a sequence of operations:     *)
(*   out c, err c   write character c                                      *)
(*   line           read a line from stdin                                 *)
(*   eof            read stdin to its end                                  *)
(*   exit n, die n  exit(n), or be killed by signal n                      *)
(* and every script ends in exit or die.                                   *)
(***************************************************************************)
EXTENDS Integers, Sequences, FiniteSets

CONSTANTS
    Script,     \* the scripts
    Cap,        \* capacity of a pipe
    BufSize,    \* BUF_SIZE
    NUL,        \* the character that ends a C string
    MaxChild,   \* bound: children started
    MaxLine     \* bound: lines written to one child

Child == 1..MaxChild
NoChild == 0            \* pid == -1
Last == {"exit", "die"}

ASSUME ExecutorAssumption ==
    /\ Cap \in Nat \ {0} /\ BufSize \in Nat \ {0}
    /\ MaxChild \in Nat /\ MaxLine \in Nat
    /\ \A s \in Script :
          /\ s # <<>> /\ s \in Seq({s[i] : i \in DOMAIN s})
          /\ \A i \in 1..Len(s) :
                /\ s[i].op \in Last <=> i = Len(s)
                /\ s[i].op = "exit" => s[i].arg \in Nat /\ s[i].arg < 256
                /\ s[i].op = "die" => s[i].arg \in Nat /\ 0 < s[i].arg /\ s[i].arg < 128

VARIABLES
    pid,        \* the child `pid' names
    result,     \* the raw status word of waitpid(), -1 at first
    init_done,
    buffer,     \* the read buffer, a sequence of BufSize characters
    chan,       \* the child at the other end of fdin, fdout and fderr
    state,      \* per child: "none", "forked", "running", "zombie", "reaped"
    piped,      \* started by communicate(), not by run()?
    rest,       \* what a child has still to do of its script
    status,     \* its status word once it has ended
    pipe,       \* per child and stream: what is in the pipe
    sent,       \* history: what each child wrote to stdout and stderr
    taken,      \* history: what the parent's reads returned of it
    lines,      \* history: lines written to each child
    call,       \* the API call the parent is in
    got,        \* the string `out' a read has built so far
    ret         \* history: the call that just returned, and its int

exe  == <<pid, result, init_done, buffer, chan>>
kids == <<state, piped, rest, status, sent>>
vars == <<exe, kids, pipe, taken, lines, call, got, ret>>

Outputs == {"out", "err"}
Streams == {"in"} \cup Outputs
Waits   == {"wait", "run"}
Parts   == {"text", "text only", "newline"}
NoReturn == [call |-> "none", val |-> 0]

Blank == [i \in 1..BufSize |-> NUL]

Init ==
    /\ pid = NoChild /\ result = -1 /\ init_done = FALSE
    /\ buffer = Blank /\ chan = NoChild
    /\ state = [i \in Child |-> "none"]
    /\ piped = [i \in Child |-> FALSE]
    /\ rest = [i \in Child |-> <<>>]
    /\ status = [i \in Child |-> 0]
    /\ pipe = [i \in Child |-> [s \in Streams |-> <<>>]]
    /\ sent = [i \in Child |-> [s \in Outputs |-> <<>>]]
    /\ taken = [i \in Child |-> [s \in Outputs |-> <<>>]]
    /\ lines = [i \in Child |-> 0]
    /\ call = "idle" /\ got = <<>> /\ ret = NoReturn

(* <sys/wait.h>: the low seven bits hold the signal, the next byte but one *)
(* the exit code.                                                          *)
ExitWord(n)    == 256 * n
WIFEXITED(r)   == r % 128 = 0
WEXITSTATUS(r) == (r \div 256) % 256

Ended(i) == state[i] \in {"zombie", "reaped"}
Max(a, b) == IF a > b THEN a ELSE b
Min(a, b) == IF a < b THEN a ELSE b
Drop(s, n) == SubSeq(s, n + 1, Len(s))

-----------------------------------------------------------------------------
(* The parent.                                                             *)

Returns(name, v) == call' = "idle" /\ ret' = [call |-> name, val |-> v]
Enters(c) == call' = c /\ ret' = NoReturn

Fork(with_pipes) ==
    \E i \in Child, s \in Script :
        /\ state[i] = "none" /\ \A j \in Child : j < i => state[j] # "none"
        /\ pid' = i
        /\ state' = [state EXCEPT ![i] = "forked"]
        /\ piped' = [piped EXCEPT ![i] = with_pipes]
        /\ rest' = [rest EXCEPT ![i] = s]
        /\ UNCHANGED <<result, buffer, status, sent, pipe, taken, lines, got>>

(* communicate(): new pipes and a new child, whatever became of the last.  *)
Communicate ==
    /\ call = "idle"
    /\ Fork(TRUE)
    /\ chan' = pid'
    /\ init_done' = TRUE
    /\ Enters("idle")

(* run(): fork, then check_for_exit(true).                                 *)
Run ==
    /\ call = "idle"
    /\ Fork(FALSE)
    /\ Enters("run")
    /\ UNCHANGED <<chan, init_done>>

(* out += buffer: the characters before the first NUL.                     *)
CString(b) ==
    LET ends == {i \in 1..BufSize : b[i] = NUL}
    IN  SubSeq(b, 1, (CHOOSE i \in ends : \A j \in ends : i <= j) - 1)

(* read_stdout() and read_stderr() throw CommunicationNotInited unless     *)
(* init_done.                                                              *)
ReadCall(s) ==
    /\ call = "idle" /\ init_done
    /\ Enters(s) /\ got' = <<>>
    /\ UNCHANGED <<exe, kids, pipe, taken, lines>>

\* Mutant: the buffer is not cleared between two chunks.
ReadChunkStale(s) ==
    LET n == Min(Len(pipe[chan][s]), BufSize - 1)
        filled == [i \in 1..BufSize |->
                      IF i <= n THEN pipe[chan][s][i] ELSE buffer[i]]
    IN  /\ call = s /\ n > 0
        /\ got' = got \o CString(filled)
        /\ buffer' = filled
        /\ pipe' = [pipe EXCEPT ![chan][s] = Drop(@, n)]
        /\ UNCHANGED <<pid, result, init_done, chan, kids, taken, lines, call, ret>>

(* One turn of read_from_fd's loop: read() takes what is there, up to      *)
(* BUF_SIZE - 1 bytes; then the buffer is cleared.                         *)
ReadChunk(s) ==
    LET n == Min(Len(pipe[chan][s]), BufSize - 1)
        filled == [i \in 1..BufSize |->
                      IF i <= n THEN pipe[chan][s][i] ELSE buffer[i]]
    IN  /\ call = s /\ n > 0
        /\ got' = got \o CString(filled)
        /\ buffer' = Blank
        /\ pipe' = [pipe EXCEPT ![chan][s] = Drop(@, n)]
        /\ UNCHANGED <<pid, result, init_done, chan, kids, taken, lines, call, ret>>

\* Mutant: the parent keeps its copy of fdin[1] and fderr[1] open.
ReadEndHeld(s) ==
    /\ call = s
    /\ BufSize = 1 \/ (pipe[chan][s] = <<>> /\ Ended(chan) /\ call = "gone")
    /\ taken' = [taken EXCEPT ![chan][s] = @ \o got]
    /\ Returns(s, 0) /\ got' = <<>>
    /\ UNCHANGED <<exe, kids, pipe, lines>>

(* read() returns 0: the pipe is empty and its only writer, the child, has *)
(* ended, or there is no room in the buffer.  A child of the model closes  *)
(* no stream before its end and passes none on to a process of its own,    *)
(* and no read() fails: the loop would take -1 for the end as well.        *)
ReadEnd(s) ==
    /\ call = s
    /\ BufSize = 1 \/ (pipe[chan][s] = <<>> /\ Ended(chan))
    /\ taken' = [taken EXCEPT ![chan][s] = @ \o got]
    /\ Returns(s, 0) /\ got' = <<>>
    /\ UNCHANGED <<exe, kids, pipe, lines>>

(* write_stdin(input, newline): a write() of the text, and if asked for a  *)
(* second one of the newline.                                              *)
WriteCall ==
    /\ call = "idle" /\ init_done /\ lines[chan] < MaxLine
    /\ \E part \in {"text", "text only"} : Enters(part)
    /\ lines' = [lines EXCEPT ![chan] = @ + 1]
    /\ UNCHANGED <<exe, kids, pipe, taken, got>>

(* A write() blocks while the pipe is full; without a reader SIGPIPE ends  *)
(* the parent.                                                             *)
WritePart(part) ==
    /\ call = part
    /\ \/ /\ Ended(chan) /\ Enters("gone")
          /\ UNCHANGED pipe
       \/ /\ ~Ended(chan) /\ Len(pipe[chan]["in"]) < Cap
          /\ pipe' = [pipe EXCEPT ![chan]["in"] =
                        Append(@, IF part = "newline" THEN "newline" ELSE "text")]
          /\ IF part = "text" THEN Enters("newline")
                              ELSE Enters("idle")
    /\ UNCHANGED <<exe, kids, taken, lines, got>>

\* Mutant: the status is cleared before the call.
WaitpidClearing ==
    IF pid # NoChild /\ state[pid] = "zombie"
    THEN result' = status[pid] /\ state' = [state EXCEPT ![pid] = "reaped"]
    ELSE result' = 0 /\ UNCHANGED state

(* What waitpid(pid, &result, ...) does when it does not block: `result'   *)
(* is assigned only when a child is reaped, not when it still runs and not *)
(* on ECHILD (no child, or reaped before).                                 *)
Waitpid ==
    IF pid # NoChild /\ state[pid] = "zombie"
    THEN result' = status[pid] /\ state' = [state EXCEPT ![pid] = "reaped"]
    ELSE UNCHANGED <<result, state>>

(* check_for_exit(false).                                                  *)
CheckNonBlocking ==
    /\ call = "idle"
    /\ Waitpid
    /\ Returns("check", IF ~WIFEXITED(result') THEN result' ELSE WEXITSTATUS(result'))
    /\ UNCHANGED <<pid, init_done, buffer, chan, piped, rest, status, sent,
                   pipe, taken, lines, got>>

CheckBlocking ==
    /\ call = "idle"
    /\ Enters("wait")
    /\ UNCHANGED <<exe, kids, pipe, taken, lines, got>>

\* Mutant: wait() for all children instead of waitpid() for one.
WaitEndAll(c) ==
    /\ call = c
    /\ \A i \in Child : state[i] = "none" \/ Ended(i)
    /\ Waitpid
    /\ init_done' = IF c = "run" THEN FALSE ELSE init_done
    /\ Returns(c, WEXITSTATUS(result'))
    /\ UNCHANGED <<pid, buffer, chan, piped, rest, status, sent, pipe, taken, lines, got>>

\* Mutant: run() leaves the object as communicate() does.
WaitEndInited(c) ==
    /\ call = c
    /\ pid # NoChild => Ended(pid)
    /\ Waitpid
    /\ init_done' = IF c = "run" THEN TRUE ELSE init_done
    /\ Returns(c, WEXITSTATUS(result'))
    /\ UNCHANGED <<pid, buffer, chan, piped, rest, status, sent, pipe, taken, lines, got>>

(* check_for_exit(true) comes back: for run(), init_done is reset as well. *)
WaitEnd(c) ==
    /\ call = c
    /\ pid # NoChild => Ended(pid)
    /\ Waitpid
    /\ init_done' = IF c = "run" THEN FALSE ELSE init_done
    /\ Returns(c, WEXITSTATUS(result'))
    /\ UNCHANGED <<pid, buffer, chan, piped, rest, status, sent, pipe, taken, lines, got>>

(* The parent exits; ~Executor, if it runs at all, closes no descriptor.   *)
Exit ==
    /\ call = "idle" /\ Enters("gone")
    /\ UNCHANGED <<exe, kids, pipe, taken, lines, got>>

-----------------------------------------------------------------------------
(* A child.                                                                *)

\* Mutant: the child does not close its copies of the parent's ends.
HeldOpenByItself(i) ==
    \/ call # "gone"
    \/ \E j \in Child : j >= i /\ state[j] \in {"forked", "running"}

(* The parent's ends of the pipes of child i are open as long as the       *)
(* parent lives, which never closes them, or a child that was forked later *)
(* and inherited them.                                                     *)
HeldOpen(i) ==
    \/ call # "gone"
    \/ \E j \in Child : j > i /\ state[j] \in {"forked", "running"}

(* execvp() succeeds, or execute() goes on: its clean-up loop has no end   *)
(* condition (`args.size() + 1') and frees what lies behind cargs, until   *)
(* the child aborts, faults, or is ended by the handler of exception.cc.   *)
ExecFailure == {6, 11, ExitWord(1)}
SIGPIPE == 13

End(i, word) ==
    /\ state' = [state EXCEPT ![i] = "zombie"]
    /\ status' = [status EXCEPT ![i] = word]
    /\ rest' = [rest EXCEPT ![i] = <<>>]
    /\ UNCHANGED <<piped, sent, pipe>>

Exec(i) ==
    /\ state[i] = "forked"
    /\ \/ state' = [state EXCEPT ![i] = "running"]
          /\ UNCHANGED <<piped, rest, status, sent, pipe>>
       \/ \E w \in ExecFailure : End(i, w)

Op(i) == Head(rest[i])
Done(i) == rest' = [rest EXCEPT ![i] = Tail(@)]

(* A child of run() writes to the parent's own stdout and stderr.  A pipe  *)
(* nobody can read any more is SIGPIPE, one that is full blocks.           *)
WriteOutput(i) ==
    /\ Op(i).op \in Outputs
    /\ \/ /\ ~piped[i]
          /\ Done(i)
          /\ UNCHANGED <<state, piped, status, sent, pipe>>
       \/ /\ piped[i] /\ HeldOpen(i) /\ Len(pipe[i][Op(i).op]) < Cap
          /\ Done(i)
          /\ pipe' = [pipe EXCEPT ![i][Op(i).op] = Append(@, Op(i).arg)]
          /\ sent' = [sent EXCEPT ![i][Op(i).op] = Append(@, Op(i).arg)]
          /\ UNCHANGED <<state, piped, status>>
       \/ piped[i] /\ ~HeldOpen(i) /\ End(i, SIGPIPE)

(* Reading a line, or to the end of stdin, which comes when nobody holds   *)
(* the writing end any more; the terminal of a run() child answers.        *)
ReadInput(i) ==
    /\ Op(i).op \in {"line", "eof"}
    /\ \/ /\ ~piped[i] \/ (pipe[i]["in"] = <<>> /\ ~HeldOpen(i))
          /\ Done(i) /\ UNCHANGED pipe
       \/ /\ pipe[i]["in"] # <<>>
          /\ pipe' = [pipe EXCEPT ![i]["in"] = Tail(@)]
          /\ IF Op(i).op = "line" /\ Head(pipe[i]["in"]) = "newline"
             THEN Done(i) ELSE UNCHANGED rest
    /\ UNCHANGED <<state, piped, status, sent>>

EndChild(i) ==
    \/ Op(i).op = "exit" /\ End(i, ExitWord(Op(i).arg))
    \/ Op(i).op = "die" /\ End(i, Op(i).arg)

ChildStep(i) ==
    /\ \/ Exec(i)
       \/ state[i] = "running" /\ (WriteOutput(i) \/ ReadInput(i) \/ EndChild(i))
    /\ UNCHANGED <<exe, taken, lines, call, got, ret>>

-----------------------------------------------------------------------------
(* What goes on by itself once a call has been made.                       *)
InCall ==
    \/ \E s \in Outputs : ReadChunk(s) \/ ReadEnd(s)
    \/ \E part \in Parts : WritePart(part)
    \/ \E c \in Waits : WaitEnd(c)

Call ==
    \/ Communicate \/ Run \/ Exit \/ WriteCall \/ CheckNonBlocking \/ CheckBlocking
    \/ \E s \in Outputs : ReadCall(s)

Next == Call \/ InCall \/ \E i \in Child : ChildStep(i)

(* The system runs every process that can run; what the program asks of    *)
(* the Executor, and when, is up to it.                                    *)
ExecutorFairness == WF_vars(InCall) /\ \A i \in Child : WF_vars(ChildStep(i))

Spec == Init /\ [][Next]_vars /\ ExecutorFairness

-----------------------------------------------------------------------------
TypeOK ==
    /\ pid \in {NoChild} \cup Child /\ chan \in {NoChild} \cup Child
    /\ result \in Int /\ -1 <= result /\ result < 256 * 256
    /\ init_done \in BOOLEAN /\ (init_done => chan # NoChild)
    /\ state \in [Child -> {"none", "forked", "running", "zombie", "reaped"}]
    /\ piped \in [Child -> BOOLEAN]
    /\ \A i \in Child, s \in Streams : Len(pipe[i][s]) <= Cap
    /\ lines \in [Child -> 0..MaxLine]
    /\ call \in {"idle", "gone"} \cup Parts \cup Outputs \cup Waits

(* A read returns when the child has ended and not before, and all reads   *)
(* together return what the child wrote, in order; a NUL hides the rest of *)
(* the chunk it came in.                                                   *)
NoNul(s) == \A i \in 1..Len(s) : s[i] # NUL

ReadIsComplete ==
    ret.call \in Outputs /\ BufSize > 1 =>
        /\ Ended(chan)
        /\ NoNul(sent[chan][ret.call]) => taken[chan][ret.call] = sent[chan][ret.call]

(* The status of an Executor that started one child: -1 until the child    *)
(* has been collected, and that child's own status from then on, however   *)
(* often it is asked.  Of one that is used again no status is made up: it  *)
(* is -1 or what some child ended with.                                    *)
Answer(r) == IF WIFEXITED(r) THEN WEXITSTATUS(r) ELSE r

StatusIsAChilds ==
    /\ pid = 1 =>
         /\ result = IF state[1] = "reaped" THEN status[1] ELSE -1
         /\ ret.call = "check" => ret.val = Answer(result)
    /\ result # -1 => \E i \in Child : state[i] = "reaped" /\ result = status[i]

(* tests/executor.cc:86: asked without blocking while the child runs,      *)
(* check_for_exit() answers -1.                                            *)
RunningMeansMinusOne ==
    (ret.call = "check" /\ call = "idle" /\ pid # NoChild) =>
        (state[pid] \in {"forked", "running"} => ret.val = -1)

(* Can a child end while the parent serves only the streams in `served'?   *)
(* What it still has to write must fit in the other pipes, the lines it    *)
(* still reads must have been written, and it must not wait for the end of *)
(* its stdin.                                                              *)
Count(s, test(_)) == Cardinality({i \in 1..Len(s) : test(s[i])})

CanEnd(i, served) ==
    piped[i] /\ ~Ended(i) =>
        /\ Count(rest[i], LAMBDA o : o.op = "eof") = 0
        /\ Count(rest[i], LAMBDA o : o.op = "line")
              <= Count(pipe[i]["in"], LAMBDA u : u = "newline")
        /\ \A s \in Outputs \ served :
              Len(pipe[i][s]) + Count(rest[i], LAMBDA o : o.op = s) <= Cap

(* The calls that wait for the child come back if the child can end.       *)
ReadReturns ==
    \A s \in Outputs : call = s /\ CanEnd(chan, {s}) ~> call # s
WaitReturns ==
    \A c \in Waits : call = c /\ (pid # NoChild => CanEnd(pid, {})) ~> call # c

(* Every child ends once the parent is gone: the descriptors that keep its *)
(* stdin open are those of the parent and of younger children only.        *)
OrphansEnd == call = "gone" ~> \A i \in Child : state[i] = "none" \/ Ended(i)
=============================================================================
