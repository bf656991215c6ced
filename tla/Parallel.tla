------------------------------ MODULE Parallel ----------------------------
(***************************************************************************)
(* BaseThread and BaseProcess of platform/threading.cc: an object whose    *)
(* worker() runs in a thread or in a child process, and is waited for by   *)
(* join() or try_join().  kill() changes nothing: of a thread it throws,   *)
(* and of a process it kills those whose name is the pid.                  *)
(*                                                                         *)
(* BaseProcess::join() hands WIFEXITED and WEXITSTATUS not *retval but the *)
(* pointer `retval', the address of an int from the heap, and stores in    *)
(* *retval what it finds there.                                            *)
(***************************************************************************)
EXTENDS Integers, FiniteSets

CONSTANTS
    Threads,        \* the BaseThread objects
    Processes,      \* the BaseProcess objects
    Words,          \* the status words a child may end with
    Garbage,        \* what a new int may hold
    MaxKids         \* bound: threads and children started

Object == Threads \cup Processes
Kid == 1..MaxKids
NotRun == 0             \* run() has not been called
NoChild == -1           \* fork() has failed
Nobody == "nobody"

ASSUME ParallelAssumption ==
    /\ Threads \cap Processes = {} /\ Nobody \notin Object
    /\ 0 \in Words /\ Words \subseteq Nat /\ Garbage \subseteq Int /\ MaxKids \in Nat

VARIABLES
    pid,            \* of each object: its thread or child, the latest
    retval,         \* of each process object: *retval
    address,        \* of each process object: of the pointer `retval', whether WIFEXITED holds
                    \* of it, and its WEXITSTATUS
    kid,            \* of each thread and child: "none", "running", "ended", "waited for"
    owner,          \* of each: the object that started it
    word,           \* of each: how it ended, if it is a child
    calling,        \* the object whose blocking join() the program is in
    joined,         \* what the last call was: [object, call, what try_join() returned]
    clean           \* history: the objects whose try_join() means their child

parallelVars == <<pid, retval, address, kid, owner, word, calling, joined, clean>>

NoAnswer == [object |-> Nobody, call |-> "none", value |-> FALSE]

ParallelInit ==
    /\ pid = [o \in Object |-> NotRun]
    /\ retval \in [Processes -> Garbage]
    /\ address \in [Processes -> [exited : BOOLEAN, status : {0, 5}]]
    /\ kid = [k \in Kid |-> "none"] /\ owner = [k \in Kid |-> Nobody] /\ word = [k \in Kid |-> 0]
    /\ calling = Nobody /\ joined = NoAnswer
    /\ clean = {}

(* run(): an earlier thread or child of the object is forgotten.  What     *)
(* pthread_create() returns is not looked at: after a failure `thread' is  *)
(* undefined and so is every call that uses it, and none is modelled.      *)
Run(o) ==
    /\ calling = Nobody
    /\ \/ \E k \in Kid :
              /\ kid[k] = "none" /\ \A j \in 1..k - 1 : kid[j] # "none"
              /\ kid' = [kid EXCEPT ![k] = "running"] /\ owner' = [owner EXCEPT ![k] = o]
              /\ pid' = [pid EXCEPT ![o] = k]
              /\ clean' = IF /\ o \in Processes /\ pid[o] = NotRun /\ retval[o] # 0
                             /\ \A p \in Processes : pid[p] # NoChild
                          THEN clean \cup {o} ELSE clean \ {o}
       \/ /\ o \in Processes                      \* it throws ForkError
          /\ pid' = [pid EXCEPT ![o] = NoChild]
          /\ clean' = {}
          /\ UNCHANGED <<kid, owner>>
    /\ joined' = NoAnswer
    /\ UNCHANGED <<retval, address, word, calling>>

(* worker() returns; in a child it may also exit or be killed.             *)
End(k, w) ==
    /\ kid[k] = "running"
    /\ owner[k] \in Threads => w = 0
    /\ kid' = [kid EXCEPT ![k] = "ended"] /\ word' = [word EXCEPT ![k] = w]
    /\ UNCHANGED <<pid, retval, address, owner, calling, joined, clean>>

(* pthread_join() waits for the thread, waitpid() for the child, and after *)
(* a fork() that failed, with pid -1, for any child.                       *)
WaitedFor(o) ==
    IF pid[o] = NoChild THEN {k \in Kid : owner[k] \in Processes} ELSE {pid[o]}

Ended(o) == {k \in WaitedFor(o) : kid[k] = "ended"}
Runs(o)  == {k \in WaitedFor(o) : kid[k] = "running"}

\* Mutant: WIFEXITED and WEXITSTATUS of the status word.
StoredStatus(o, blocking, status) == status \div 256

(* What BaseProcess::join() leaves in *retval, where `status' is what      *)
(* waitpid() has left there.                                               *)
Stored(o, blocking, status) ==
    IF ~ blocking /\ ~ address[o].exited THEN status ELSE address[o].status

Wait(o, blocking) ==
    /\ \/ \E k \in Ended(o) :
              /\ kid' = [kid EXCEPT ![k] = "waited for"]
              /\ retval' = IF o \in Threads THEN retval
                           ELSE [retval EXCEPT ![o] = Stored(o, blocking, word[k])]
       \/ /\ Ended(o) = {} /\ kid' = kid
          /\ retval' = IF o \in Threads THEN retval
                       ELSE [retval EXCEPT ![o] = Stored(o, blocking, @)]
    /\ UNCHANGED <<pid, address, owner, word>>

(* To join an object that has not been run, or a thread a second time, is  *)
(* not defined.                                                            *)
Joinable(o) ==
    /\ calling = Nobody /\ pid[o] # NotRun
    /\ o \in Threads => kid[pid[o]] # "waited for"

(* join(true)                                                              *)
JoinCall(o) ==
    /\ Joinable(o)
    /\ calling' = o
    /\ UNCHANGED <<pid, retval, address, kid, owner, word, joined, clean>>

JoinReturn(o) ==
    /\ calling = o
    /\ Ended(o) # {} \/ Runs(o) = {}
    /\ Wait(o, TRUE)
    /\ calling' = Nobody
    /\ joined' = [object |-> o, call |-> "join", value |-> FALSE]
    /\ clean' = clean \ {o}

(* try_join(), and join(false), which drops the answer: of a thread what   *)
(* pthread_tryjoin_np() says, of a process whether *retval is now 0.       *)
TryJoined(o) == IF o \in Threads THEN kid' # kid ELSE retval'[o] = 0

TryJoin(o, asked) ==
    /\ Joinable(o)
    /\ Wait(o, FALSE)
    /\ joined' = IF asked THEN [object |-> o, call |-> "try_join", value |-> TryJoined(o)]
                           ELSE NoAnswer
    /\ UNCHANGED <<calling, clean>>

ParallelNext ==
    \/ \E o \in Object : Run(o) \/ JoinCall(o) \/ JoinReturn(o)
    \/ \E o \in Object, asked \in BOOLEAN : TryJoin(o, asked)
    \/ \E k \in Kid, w \in Words : End(k, w)

ParallelSpec == ParallelInit /\ [][ParallelNext]_parallelVars

-----------------------------------------------------------------------------
ParallelTypeOK ==
    /\ pid \in [Object -> {NotRun, NoChild} \cup Kid]
    /\ address \in [Processes -> [exited : BOOLEAN, status : {0, 5}]]
    /\ retval \in [Processes -> Garbage \cup Words \cup {0, 5}]
    /\ kid \in [Kid -> {"none", "running", "ended", "waited for"}]
    /\ owner \in [Kid -> Object \cup {Nobody}] /\ word \in [Kid -> Words]
    /\ calling \in Object \cup {Nobody} /\ clean \subseteq Processes
    /\ joined \in [object : Object \cup {Nobody}, call : {"none", "join", "try_join"},
                   value : BOOLEAN]

(* What the answers of join() and try_join() are worth, until the next     *)
(* run().  When join(true) returns, the thread or the child that was       *)
(* started last has ended.  try_join() of a thread tells whether it has.   *)
(* That of a process says so only if its child has ended, and it says so   *)
(* of a child that exited with 0, provided that `retval' does not look     *)
(* like an exited status, the new int did not hold 0, run() was called     *)
(* once, no fork() had failed, whose join() waits for any child, and       *)
(* join(true) was not called before.  Of other processes nothing is said   *)
(* (see JoinReturnsStatus).                                                *)
JoinAnswers ==
    LET o == joined.object
        k == pid[o]
        Over == kid[k] = "waited for" IN
    /\ joined.call = "join" /\ k \in Kid => Over
    /\ joined.call = "try_join" /\ o \in Threads => joined.value = Over
    /\ joined.call = "try_join" /\ o \in clean /\ ~ address[o].exited =>
         /\ joined.value => Over
         /\ Over /\ word[k] = 0 => joined.value

(* "child (pid) returned (result)" and "retval contains returncode"        *)
(* (threading.cc:88 and :96): when join(true) of a process returns, *retval*)
(* is what the child exited with.  It is WEXITSTATUS of an address.        *)
JoinReturnsStatus ==
    LET o == joined.object
        Exited(w) == w % 128 = 0
        status(w) == (w \div 256) % 256 IN
    joined.call = "join" /\ o \in Processes /\ pid[o] \in Kid =>
        LET w == word[pid[o]] IN Exited(w) => retval[o] = status(w)
=============================================================================
