------------------------------ MODULE XLogger ------------------------------
(***************************************************************************)
(* XLogger and LogStream of platform/xlogger.cc: the registry of loggers,  *)
(* the backends each of them owns, and the log statements                  *)
(*     LOG(lvl, ID) << operand << ...;                                     *)
(* which check the level, evaluate their operands (any of which may log,   *)
(* or reconfigure a logger) and write the message when the LogStream is    *)
(* destroyed at the end of the statement.  One thread uses the loggers:    *)
(* the class has no locks.                                                 *)
(***************************************************************************)
EXTENDS LogBackend, FiniteSets

CONSTANTS
    Id,             \* logger ids, the keys of log_map
    Message,        \* the texts log statements produce, not empty
    Blank,          \* those XString::strip() throws on: nothing but characters
                    \* of to_strip
    File,           \* names of source files
    Caller,         \* those with log statements
    Level,          \* log levels
    ActionLevel,    \* the level at which an action callback itself logs
    ActionFile,     \* and the source file it is in
    MaxNest,        \* bound: log statements inside one another
    MaxLog          \* bound: messages written to one backend

Header == "header"      \* written by add_backend
Bye    == "bye"         \* written by ~XLogger
Acted  == "acted"       \* what an action callback logs

ASSUME LoggerAssumption ==
    /\ Blank \subseteq Message
    /\ Entry = Message \cup {Header, Bye, Acted}
    /\ Level \subseteq Nat /\ ActionLevel \in Level /\ 0 \in Level
    /\ Caller \subseteq File /\ ActionFile \in File
    /\ MaxNest \in Nat /\ MaxLog \in Nat

VARIABLES
    logger,     \* per id: is it in log_map, and the members of the object
    place,      \* a backend is "fresh", "owned" by a logger or "deleted"
    be,         \* the backend objects
    streams,    \* the LogStreams of the statements being executed
    running     \* FALSE once the process has ended

loggerVars == <<logger, place, be, streams, running>>

LoggerObject == [up : BOOLEAN, backends : SUBSET Backend, min : Level,
                 filter : SUBSET File, strip : BOOLEAN, actions : SUBSET Level]
Stream == [id : Id, lvl : Level, fn : File]

LoggerTypeOK ==
    /\ logger \in [Id -> LoggerObject]
    /\ place \in [Backend -> {"fresh", "owned", "deleted"}]
    /\ be \in [Backend -> Object]
    /\ streams \in Seq(Stream)
    /\ running \in BOOLEAN

NoLogger == [up |-> FALSE, backends |-> {}, min |-> 0, filter |-> {},
             strip |-> TRUE, actions |-> {}]

LoggerInit ==
    /\ logger = [id \in Id |-> NoLogger]
    /\ place = [b \in Backend |-> "fresh"]
    /\ be = [b \in Backend |-> Fresh]
    /\ streams = <<>>
    /\ running = TRUE

Registered(id) == running /\ logger[id].up
Room(id) == \A b \in logger[id].backends : Len(be[b].log) < MaxLog

-----------------------------------------------------------------------------
(* Configuration.                                                          *)

\* Mutant: the constructor forgets to initialise min_loglvl.
NewLoggerUninitialised(id) ==
    /\ running /\ ~logger[id].up
    /\ logger' = [logger EXCEPT ![id] = [NoLogger EXCEPT !.up = TRUE, !.min = -1]]
    /\ UNCHANGED <<place, be, streams, running>>

(* XLogger(id); a registered id throws LoggerIDAlreadyRegistered.          *)
NewLogger(id) ==
    /\ running /\ ~logger[id].up
    /\ logger' = [logger EXCEPT ![id] = [NoLogger EXCEPT !.up = TRUE]]
    /\ UNCHANGED <<place, be, streams, running>>

(* The part of add_backend that touches the backend.                       *)
Attached(b) == Write(b, InitBackend(b, be[b]), Header)

(* XLogger::quick_init: logger, console backend, level and stripping.      *)
QuickInit(id, b) ==
    /\ running /\ ~logger[id].up
    /\ place[b] = "fresh" /\ Kind[b] = "console"
    /\ \E l \in Level, s \in BOOLEAN :
          logger' = [logger EXCEPT ![id] =
             [NoLogger EXCEPT !.up = TRUE, !.backends = {b}, !.min = l, !.strip = s]]
    /\ place' = [place EXCEPT ![b] = "owned"]
    /\ be' = [be EXCEPT ![b] = Attached(b)]
    /\ UNCHANGED <<streams, running>>

(* add_backend takes ownership; a backend is handed over once.             *)
AddBackend(id, b) ==
    /\ Registered(id) /\ place[b] = "fresh"
    /\ logger' = [logger EXCEPT ![id].backends = @ \cup {b}]
    /\ place' = [place EXCEPT ![b] = "owned"]
    /\ be' = [be EXCEPT ![b] = Attached(b)]
    /\ UNCHANGED <<streams, running>>

Set(id, field, v) ==
    /\ Registered(id)
    /\ logger' = [logger EXCEPT ![id] = [@ EXCEPT ![field] = v]]
    /\ UNCHANGED <<place, be, streams, running>>

SetMinLoglvl(id, l)    == Set(id, "min", l)
SetMsgStripping(id, s) == Set(id, "strip", s)

AddFilenameFilter(id, f) == Set(id, "filter", logger[id].filter \cup {f})

(* Of a name that is there: otherwise the code erases end().               *)
RemoveFilenameFilter(id, f) ==
    f \in logger[id].filter /\ Set(id, "filter", logger[id].filter \ {f})

(* A callback for the level it logs at would call itself for ever.         *)
SetLoglvlAction(id, l) ==
    l # ActionLevel /\ Set(id, "actions", logger[id].actions \cup {l})

-----------------------------------------------------------------------------
(* Logging.                                                                *)

(* The checks at the top of log_msg(data, loglevel, line, fn, func).       *)
Accepts(id, lvl, fn) ==
    /\ logger[id].filter # {} => fn \in logger[id].filter
    /\ lvl >= logger[id].min

(* Does log_msg end in a callback, and does the callback's LOG() log?      *)
ActionLogs(id, lvl) ==
    lvl \in logger[id].actions /\ Accepts(id, ActionLevel, ActionFile)

\* Mutant: a backend that is full is skipped and the others go on.
WriteAllSkipping(id, e) ==
    [b \in Backend |->
        IF b \in logger[id].backends /\ ~Exceeds(be[b].used, BufSize[b] - 1)
        THEN Write(b, be[b], e) ELSE be[b]]

(* for (back : backends) back->write(e)                                    *)
WriteAll(id, e) ==
    [b \in Backend |->
        IF b \in logger[id].backends THEN Write(b, be[b], e) ELSE be[b]]

(* The same after one message, for the message of the callback.            *)
WriteBoth(id, e, f) ==
    [b \in Backend |->
        IF b \in logger[id].backends THEN Write(b, Write(b, be[b], e), f) ELSE be[b]]

(* log_msg(data): a raw line to all backends.                              *)
LogRaw(id) ==
    /\ Registered(id) /\ Room(id)
    /\ \E m \in Message : be' = WriteAll(id, m)
    /\ UNCHANGED <<logger, place, streams, running>>

(* LOG(lvl, id): check_loglevel, get, and the LogStream temporary, which   *)
(* may be an operand of another statement.                                 *)
BeginStatement(id) ==
    /\ Registered(id) /\ Len(streams) < MaxNest
    /\ \E l \in Level, f \in Caller :
          /\ logger[id].min <= l
          /\ streams' = Append(streams, [id |-> id, lvl |-> l, fn |-> f])
    /\ UNCHANGED <<logger, place, be, running>>

(* ~LogStream of the innermost statement, its operands evaluated: level    *)
(* and filter are checked again, as they are now.  render_msg strips the   *)
(* message for the first backend; what strip() throws on a blank one       *)
(* reaches the destructor, which is noexcept: std::terminate.              *)
EndStatement ==
    /\ running /\ streams # <<>>
    /\ \E m \in Message :
       LET s == streams[Len(streams)]
           writes == Accepts(s.id, s.lvl, s.fn)
           throws == writes /\ m \in Blank /\ logger[s.id].strip
                            /\ logger[s.id].backends # {}
       IN  /\ Room(s.id)
           /\ streams' = SubSeq(streams, 1, Len(streams) - 1)
           /\ running' = ~throws
           /\ be' = IF ~writes \/ throws THEN be
                    ELSE IF ActionLogs(s.id, s.lvl)
                         THEN WriteBoth(s.id, m, Acted)
                         ELSE WriteAll(s.id, m)
    /\ UNCHANGED <<logger, place>>

(* BufferedFileBackend::flush() is public.                                 *)
FlushBackend(b) ==
    /\ running /\ place[b] = "owned" /\ Kind[b] = "buffered"
    /\ be' = [be EXCEPT ![b] = Flush(@)]
    /\ UNCHANGED <<logger, place, streams, running>>

-----------------------------------------------------------------------------
(* The end of a logger, and of the process.                                *)

Destroyed(id) ==
    /\ place' = [b \in Backend |->
                    IF b \in logger[id].backends THEN "deleted" ELSE place[b]]
    /\ be' = [b \in Backend |-> IF b \in logger[id].backends
                                THEN Cleanup(b, WriteAll(id, Bye)[b]) ELSE be[b]]
    /\ UNCHANGED <<streams, running>>

\* Mutant: an early return leaves the id in log_map.
DestroyStillRegistered(id) ==
    /\ Registered(id) /\ Room(id)
    /\ Destroyed(id)
    /\ UNCHANGED logger

(* ~XLogger: bye message, cleanup and delete of every backend.  Nobody     *)
(* destroys a logger inside one of its own log statements.                 *)
DestroyLogger(id) ==
    /\ Registered(id) /\ Room(id)
    /\ \A i \in DOMAIN streams : streams[i].id # id
    /\ Destroyed(id)
    /\ logger' = [logger EXCEPT ![id] = NoLogger]

(* exit(), or a crash: loggers live on the heap and nobody deletes them.   *)
EndProcess ==
    /\ running /\ running' = FALSE
    /\ UNCHANGED <<logger, place, be, streams>>

Configure(id) ==
    \/ \E l \in Level : SetMinLoglvl(id, l) \/ SetLoglvlAction(id, l)
    \/ \E s \in BOOLEAN : SetMsgStripping(id, s)
    \/ \E f \in File : AddFilenameFilter(id, f) \/ RemoveFilenameFilter(id, f)
    \/ \E b \in Backend : QuickInit(id, b) \/ AddBackend(id, b)

LoggerNext ==
    \/ \E id \in Id : \/ NewLogger(id) \/ DestroyLogger(id) \/ Configure(id)
                      \/ LogRaw(id) \/ BeginStatement(id)
    \/ \E b \in Backend : FlushBackend(b)
    \/ EndStatement \/ EndProcess

LoggerSpec == LoggerInit /\ [][LoggerNext]_loggerVars

-----------------------------------------------------------------------------
(* Nothing a backend was given is lost, doubled or reordered: its file and *)
(* its buffer, one after the other, are everything written to it, with the *)
(* buffer empty for every class but BufferedFileBackend.                   *)
KeptInOrder ==
    \A b \in Backend : /\ be[b].log = be[b].sunk \o be[b].buf
                       /\ Kind[b] # "buffered" => be[b].buf = <<>>

(* _buf never outgrows _buffer_size but for one message that alone is      *)
(* longer, so a crash costs at most that much; a negative _buffer_size     *)
(* bounds nothing.                                                         *)
BufferBounded ==
    \A b \in Backend :
       Exceeds(be[b].used, BufSize[b]) => Len(be[b].buf) = 1

(* All backends of a logger get the same messages in the same order: after *)
(* their headers, the log of one is a suffix of the log of the other, that *)
(* has been there longer.                                                  *)
IsSuffixOf(s, t) == Len(s) <= Len(t) /\ s = SubSeq(t, Len(t) - Len(s) + 1, Len(t))

SiblingsAgree ==
    \A id \in Id : \A b, c \in logger[id].backends :
       LET s == Tail(be[b].log)
           t == Tail(be[c].log)
       IN  IsSuffixOf(s, t) \/ IsSuffixOf(t, s)

(* A registered logger, and so every LOG() statement, reaches only         *)
(* backends that are alive, with a stream that still takes data, and that  *)
(* no other logger will delete.                                            *)
NoDanglingBackend ==
    \A id \in Id : \A b \in logger[id].backends :
       /\ place[b] = "owned"
       /\ Kind[b] \in HasStream => be[b].stream = "open"
       /\ \A other \in Id \ {id} : b \notin logger[other].backends

(* Each backend implements the append-only log of AppendLog: its file is   *)
(* a growing prefix of its log, also when the process ends, and the whole  *)
(* log once its logger was destroyed.                                      *)
Promise == INSTANCE AppendLog WITH
    Name <- Backend,
    log  <- [b \in Backend |-> be[b].log],
    kept <- [b \in Backend |-> be[b].sunk],
    open <- [b \in Backend |-> place[b] # "deleted"]

BackendsAreAppendLogs == Promise!Spec
=============================================================================
