--------------------------- MODULE XLogger_proofs --------------------------
(* Theorems about XLogger and its backends, for all sets of loggers,       *)
(* backends, messages and levels, all buffer sizes and message lengths.    *)
EXTENDS XLogger, SequenceTheorems, TLAPS

-----------------------------------------------------------------------------
(* What holds of a single backend object.                                  *)

ObjectInv(b, o) ==
    /\ o \in Object
    /\ o.log = o.sunk \o o.buf
    /\ Kind[b] # "buffered" => o.buf = <<>>
    /\ Exceeds(o.used, BufSize[b]) => Len(o.buf) = 1

(* It will keep what it is given: a backend with a file has it open.       *)
Ready(b, o) == Kind[b] \in HasStream => o.stream = "open"

(* q is o after more was logged and nothing was lost.                      *)
Later(o, q) == Promise!IsPrefixOf(o.log, q.log) /\ Promise!IsPrefixOf(o.sunk, q.sunk)

(* An object of which another sink is noted stays one.                     *)
LEMMA SetSunk ==
    ASSUME NEW o \in Object, NEW s \in Seq(Entry), NEW q, q = [o EXCEPT !.sunk = s]
    PROVE  /\ q \in Object
           /\ q.log = o.log /\ q.sunk = s /\ q.buf = o.buf /\ q.used = o.used
           /\ q.stream = o.stream
BY DEF Object

(* An object of which more was logged stays one.                           *)
LEMMA SetLog ==
    ASSUME NEW o \in Object, NEW l \in Seq(Entry), NEW q, q = [o EXCEPT !.log = l]
    PROVE  /\ q \in Object
           /\ q.log = l /\ q.sunk = o.sunk /\ q.buf = o.buf /\ q.used = o.used
           /\ q.stream = o.stream
BY DEF Object

(* A sequence is a prefix of what continues it.                            *)
LEMMA PrefixConcat ==
    ASSUME NEW S, NEW s \in Seq(S), NEW t \in Seq(S)
    PROVE  Promise!IsPrefixOf(s, s \o t)
BY DEF Promise!IsPrefixOf

(* A sequence is a prefix of itself.                                       *)
LEMMA PrefixSelf ==
    ASSUME NEW S, NEW s \in Seq(S)
    PROVE  Promise!IsPrefixOf(s, s)
BY DEF Promise!IsPrefixOf

(* A prefix of a prefix is one.                                            *)
LEMMA PrefixTransitive ==
    ASSUME NEW S, NEW s \in Seq(S), NEW t \in Seq(S), NEW u \in Seq(S),
           Promise!IsPrefixOf(s, t), Promise!IsPrefixOf(t, u)
    PROVE  Promise!IsPrefixOf(s, u)
BY DEF Promise!IsPrefixOf

(* flush() on an open stream moves the buffer to the file.                 *)
LEMMA FlushObject ==
    ASSUME NEW o \in Object, o.stream = "open"
    PROVE  /\ Flush(o) \in Object
           /\ Flush(o).log = o.log
           /\ Flush(o).sunk = o.sunk \o o.buf
           /\ Flush(o).buf = <<>>
           /\ Flush(o).used = 0
           /\ Flush(o).stream = "open"
<1> DEFINE l == o.sunk \o o.buf
           q == ToStream(o, o.buf)
           f == Flush(o)
           nil == <<>>
<1>1. l \in Seq(Entry) /\ nil \in Seq(Entry)
  BY DEF Object
<1>2. q = [o EXCEPT !.sunk = l]
  BY DEF ToStream
<1>3. f = [q EXCEPT !.buf = nil, !.used = 0]
  BY DEF Flush
<1> HIDE DEF l, q, f, nil
<1>4. /\ q \in Object
      /\ q.log = o.log /\ q.sunk = l /\ q.buf = o.buf /\ q.used = o.used
      /\ q.stream = o.stream
  BY <1>1, <1>2, SetSunk
<1>5. /\ f \in Object
      /\ f.log = q.log /\ f.sunk = q.sunk /\ f.buf = nil /\ f.used = 0
      /\ f.stream = q.stream
  BY <1>1, <1>3, <1>4 DEF Object
<1> QED
  BY <1>4, <1>5 DEF l, f, nil

(* BufferedFileBackend::write appends to the buffer, after a flush if the  *)
(* message does not fit.                                                   *)
LEMMA BufferObject ==
    ASSUME NEW b \in Backend, NEW o \in Object, NEW e \in Entry,
           o.stream = "open", NEW q, q = Buffer(b, o, e)
    PROVE  /\ q \in Object
           /\ q.log = o.log
           /\ \/ q.sunk = o.sunk /\ q.buf = Append(o.buf, e)
              \/ q.sunk = o.sunk \o o.buf /\ q.buf = <<e>>
           /\ Exceeds(q.used, BufSize[b]) => Len(q.buf) = 1
           /\ q.stream = "open"
<1> DEFINE f == IF Exceeds(o.used + Size[e], BufSize[b]) THEN Flush(o) ELSE o
           c == Append(f.buf, e)
           u == f.used + Size[e]
<1>1. /\ f \in Object /\ f.log = o.log /\ f.stream = "open"
      /\ \/ f.sunk = o.sunk /\ f.buf = o.buf /\ ~Exceeds(f.used + Size[e], BufSize[b])
         \/ f.sunk = o.sunk \o o.buf /\ f.buf = <<>>
  BY FlushObject
<1>2. q = [f EXCEPT !.buf = c, !.used = u]
  BY DEF Buffer
<1>3. Size[e] \in Nat
  BY BackendAssumption
<1> HIDE DEF f
<1>4. c \in Seq(Entry) /\ u \in Nat
  BY <1>1, <1>3 DEF Object
<1> HIDE DEF c, u
<1>5. /\ q \in Object
      /\ q.log = f.log /\ q.sunk = f.sunk /\ q.buf = c /\ q.used = u
      /\ q.stream = f.stream
  BY <1>1, <1>2, <1>4 DEF Object
<1>6. CASE f.sunk = o.sunk /\ f.buf = o.buf /\ ~Exceeds(f.used + Size[e], BufSize[b])
  BY <1>1, <1>5, <1>6 DEF c, u
<1>7. CASE f.sunk = o.sunk \o o.buf /\ f.buf = <<>>
  BY <1>1, <1>5, <1>7 DEF c, u
<1> QED
  BY <1>1, <1>6, <1>7

(* write() of every class loses nothing and leaves the object as able to   *)
(* take the next message as it was.                                        *)
LEMMA WriteObject ==
    ASSUME NEW b \in Backend, NEW o, NEW e \in Entry,
           ObjectInv(b, o), Ready(b, o), NEW q, q = Write(b, o, e)
    PROVE  ObjectInv(b, q) /\ Ready(b, q) /\ Later(o, q)
<1> DEFINE l == Append(o.log, e)
           p == [o EXCEPT !.log = l]
           s == Append(o.sunk, e)
<1>1. /\ o \in Object
      /\ o.log \in Seq(Entry) /\ o.sunk \in Seq(Entry) /\ o.buf \in Seq(Entry)
      /\ l \in Seq(Entry) /\ s \in Seq(Entry)
  BY DEF ObjectInv, Object
<1>2. l = o.log \o <<e>> /\ s = o.sunk \o <<e>> /\ <<e>> \in Seq(Entry)
  <2>1. o.log \in Seq(Entry) /\ o.sunk \in Seq(Entry)
    BY <1>1
  <2>2. <<e>> \in Seq(Entry)
    OBVIOUS
  <2> QED
    BY <2>1, <2>2, AppendIsConcat
<1> HIDE DEF l
<1>3. /\ p \in Object
      /\ p.log = l /\ p.sunk = o.sunk /\ p.buf = o.buf /\ p.used = o.used
      /\ p.stream = o.stream
  BY <1>1, SetLog
<1>4. Kind[b] \in Kinds
  BY BackendAssumption
<1> HIDE DEF p
<1>5. CASE Kind[b] = "buffered"
  <2>1. q = Buffer(b, p, e) /\ p.stream = "open"
    BY <1>3, <1>5 DEF Write, p, l, Ready, HasStream
  <2>2. /\ q \in Object
        /\ q.log = p.log
        /\ \/ q.sunk = p.sunk /\ q.buf = Append(p.buf, e)
           \/ q.sunk = p.sunk \o p.buf /\ q.buf = <<e>>
        /\ Exceeds(q.used, BufSize[b]) => Len(q.buf) = 1
        /\ q.stream = "open"
    BY <1>3, <2>1, BufferObject
  <2>3. q.log = q.sunk \o q.buf
    <3> DEFINE sunk == o.sunk
               buf  == o.buf
    <3>1. /\ q.log = Append(sunk \o buf, e)
          /\ \/ q.sunk = sunk /\ q.buf = Append(buf, e)
             \/ q.sunk = sunk \o buf /\ q.buf = <<e>>
      BY <1>3, <2>2 DEF ObjectInv, l
    <3>2. sunk \in Seq(Entry) /\ buf \in Seq(Entry)
      BY <1>1
    <3> HIDE DEF sunk, buf
    <3>3. Append(sunk \o buf, e) = sunk \o Append(buf, e)
      BY <3>2
    <3>4. Append(sunk \o buf, e) = (sunk \o buf) \o <<e>>
      BY <3>2, AppendIsConcat
    <3> QED
      BY <3>1, <3>3, <3>4
  <2>4. Later(o, q)
    BY <1>1, <1>2, <1>3, <2>2, PrefixConcat, PrefixSelf DEF Later
  <2> QED
    BY <1>5, <2>2, <2>3, <2>4 DEF ObjectInv, Ready
<1>6. CASE Kind[b] # "buffered"
  <2>1. q = [p EXCEPT !.sunk = s]
    <3>1. CASE Kind[b] = "persistent"
      BY <1>2, <1>3, <3>1 DEF Write, ToStream, Ready, HasStream, p, l
    <3>2. CASE Kind[b] # "persistent"
      BY <1>3, <1>6, <3>2 DEF Write, p, l
    <3> QED
      BY <3>1, <3>2
  <2> HIDE DEF s
  <2>2. /\ q \in Object
        /\ q.log = l /\ q.sunk = s /\ q.buf = o.buf /\ q.used = o.used
        /\ q.stream = o.stream
    BY <1>1, <1>3, <2>1, SetSunk
  <2>3. q.log = q.sunk \o q.buf
    <3>1. o.buf = <<>> /\ o.log = o.sunk
      BY <1>1, <1>6, ConcatEmptySeq DEF ObjectInv
    <3>2. q.sunk \o <<>> = q.sunk
      BY <1>1, <2>2, ConcatEmptySeq
    <3> QED
      BY <1>2, <2>2, <3>1, <3>2 DEF s
  <2>4. Later(o, q)
    BY <1>1, <1>2, <2>2, PrefixConcat DEF Later
  <2> QED
    BY <1>6, <2>2, <2>3, <2>4 DEF ObjectInv, Ready
<1> QED
  BY <1>5, <1>6

Evolves(b, o, q) == ObjectInv(b, q) /\ Ready(b, q) /\ Later(o, q)

(* What evolves twice evolves.                                             *)
LEMMA EvolvesTransitive ==
    ASSUME NEW b \in Backend, NEW o, ObjectInv(b, o),
           NEW p, Evolves(b, o, p), NEW q, Evolves(b, p, q)
    PROVE  Evolves(b, o, q)
<1>1. /\ o.log \in Seq(Entry) /\ p.log \in Seq(Entry) /\ q.log \in Seq(Entry)
      /\ o.sunk \in Seq(Entry) /\ p.sunk \in Seq(Entry) /\ q.sunk \in Seq(Entry)
  BY DEF Evolves, ObjectInv, Object
<1> QED
  BY <1>1, PrefixTransitive DEF Evolves, Later

(* Flushing an object loses nothing of it.                                 *)
LEMMA FlushEvolves ==
    ASSUME NEW b \in Backend, Kind[b] = "buffered", NEW o, ObjectInv(b, o), Ready(b, o)
    PROVE  Evolves(b, o, Flush(o)) /\ Flush(o).sunk = o.log /\ Flush(o).log = o.log
<1> DEFINE q == Flush(o)
<1>1. /\ o \in Object /\ o.stream = "open"
      /\ o.log \in Seq(Entry) /\ o.sunk \in Seq(Entry) /\ o.buf \in Seq(Entry)
      /\ o.log = o.sunk \o o.buf
  BY DEF ObjectInv, Object, Ready, HasStream
<1>2. /\ q \in Object
      /\ q.log = o.log /\ q.sunk = o.sunk \o o.buf
      /\ q.buf = <<>> /\ q.used = 0
      /\ q.stream = "open"
  BY <1>1, FlushObject
<1> HIDE DEF q
<1>3. q.log = q.sunk \o q.buf
  BY <1>1, <1>2, ConcatEmptySeq
<1>4. ~Exceeds(q.used, BufSize[b])
  BY <1>2, BackendAssumption DEF Exceeds
<1>5. Later(o, q)
  BY <1>1, <1>2, PrefixConcat, PrefixSelf DEF Later
<1> QED
  BY <1>1, <1>2, <1>3, <1>4, <1>5 DEF Evolves, ObjectInv, Ready, q

(* init() and the header: add_backend leaves a fresh backend ready.        *)
LEMMA AttachEvolves ==
    ASSUME NEW b \in Backend, NEW o, ObjectInv(b, o), o.stream = "closed"
    PROVE  Evolves(b, o, Write(b, InitBackend(b, o), Header))
<1> DEFINE i == InitBackend(b, o)
<1>1. o \in Object /\ o.log \in Seq(Entry) /\ o.sunk \in Seq(Entry)
  BY DEF ObjectInv, Object
<1>2. /\ i \in Object
      /\ i.log = o.log /\ i.sunk = o.sunk /\ i.buf = o.buf /\ i.used = o.used
      /\ Kind[b] \in HasStream => i.stream = "open"
  BY <1>1 DEF InitBackend, Open, Object
<1> HIDE DEF i
<1>3. Evolves(b, o, i)
  BY <1>1, <1>2, PrefixSelf DEF Evolves, ObjectInv, Ready, Later
<1>4. Evolves(b, i, Write(b, i, Header))
  BY <1>3, WriteObject, LoggerAssumption DEF Evolves
<1> QED
  BY <1>3, <1>4, EvolvesTransitive DEF i

(* cleanup(): everything logged is in the file.                            *)
LEMMA CleanupCompletes ==
    ASSUME NEW b \in Backend, NEW o, ObjectInv(b, o), Ready(b, o)
    PROVE  /\ ObjectInv(b, Cleanup(b, o))
           /\ Later(o, Cleanup(b, o))
           /\ Cleanup(b, o).sunk = Cleanup(b, o).log
<1> DEFINE f == IF Kind[b] = "buffered" THEN Flush(o) ELSE o
           q == Cleanup(b, o)
<1>1. /\ o \in Object
      /\ o.log \in Seq(Entry) /\ o.sunk \in Seq(Entry) /\ o.buf \in Seq(Entry)
  BY DEF ObjectInv, Object
<1>2. Evolves(b, o, f) /\ f.sunk = f.log
  <2>1. CASE Kind[b] = "buffered"
    BY <2>1, FlushEvolves
  <2>2. CASE Kind[b] # "buffered"
    <3>1. o.sunk = o.log
      BY <1>1, <2>2, ConcatEmptySeq DEF ObjectInv
    <3> QED
      BY <1>1, <2>2, <3>1, PrefixSelf DEF Evolves, Later
  <2> QED
    BY <2>1, <2>2
<1>3. Kind[b] \in Kinds
  BY BackendAssumption
<1>4. q = f \/ q = [f EXCEPT !.stream = IF f.stream = "open" THEN "closed" ELSE "broken"]
  BY <1>3 DEF Cleanup, Close, Kinds
<1> HIDE DEF f, q
<1>5. f \in Object
  BY <1>2 DEF Evolves, ObjectInv
<1>6. /\ q \in Object
      /\ q.log = f.log /\ q.sunk = f.sunk /\ q.buf = f.buf /\ q.used = f.used
  BY <1>4, <1>5 DEF Object
<1> QED
  BY <1>2, <1>6 DEF Evolves, ObjectInv, Later, q

-----------------------------------------------------------------------------
(* The invariant: objects are sound, each one for the stage of its life,   *)
(* and a backend belongs to at most one logger.                            *)

ObjectsInv ==
    \A b \in Backend :
       /\ ObjectInv(b, be[b])
       /\ place[b] = "fresh" => be[b].stream = "closed"
       /\ place[b] = "owned" => Ready(b, be[b])

OwnersInv ==
    \A id \in Id : \A b \in logger[id].backends :
       /\ place[b] = "owned"
       /\ \A other \in Id \ {id} : b \notin logger[other].backends

(* All that a step can do to one backend.                                  *)
Same(b)   == be'[b] = be[b] /\ place'[b] = place[b]
Used(b)   == place[b] # "deleted" /\ place'[b] = "owned" /\ Evolves(b, be[b], be'[b])
Closed(b) == /\ place[b] = "owned" /\ place'[b] = "deleted"
             /\ ObjectInv(b, be'[b]) /\ Later(be[b], be'[b])
             /\ be'[b].sunk = be'[b].log

BackendsStep ==
    /\ \A b \in Backend : Same(b) \/ Used(b) \/ Closed(b)
    /\ be' = [b \in Backend |-> be'[b]]
    /\ place' = [b \in Backend |-> place'[b]]

Inv == LoggerTypeOK /\ ObjectsInv /\ OwnersInv

(* Writing to all backends of a logger is a step of the backends.          *)
LEMMA WriteAllUses ==
    ASSUME Inv, NEW id \in Id, NEW e \in Entry,
           be' = WriteAll(id, e), place' = place
    PROVE  BackendsStep
<1> USE DEF Inv, LoggerTypeOK, ObjectsInv, OwnersInv, LoggerObject
<1>1. ASSUME NEW b \in logger[id].backends
      PROVE  Evolves(b, be[b], Write(b, be[b], e))
  BY WriteObject DEF Evolves
<1> QED
  BY <1>1 DEF BackendsStep, Same, Used, WriteAll

(* So is writing two entries, one after the other.                         *)
LEMMA WriteBothUses ==
    ASSUME Inv, NEW id \in Id, NEW e \in Entry, NEW f \in Entry,
           be' = WriteBoth(id, e, f), place' = place
    PROVE  BackendsStep
<1> USE DEF Inv, LoggerTypeOK, ObjectsInv, OwnersInv, LoggerObject
<1>1. ASSUME NEW b \in logger[id].backends
      PROVE  Evolves(b, be[b], Write(b, Write(b, be[b], e), f))
  <2>1. Evolves(b, be[b], Write(b, be[b], e))
    BY WriteObject DEF Evolves
  <2>2. Evolves(b, Write(b, be[b], e), Write(b, Write(b, be[b], e), f))
    BY <2>1, WriteObject DEF Evolves
  <2> QED
    BY <2>1, <2>2, EvolvesTransitive
<1> QED
  BY <1>1 DEF BackendsStep, Same, Used, WriteBoth

(* Attaching a backend is a step of the backends.                          *)
LEMMA AttachUses ==
    ASSUME Inv, NEW b \in Backend, place[b] = "fresh",
           be' = [be EXCEPT ![b] = Attached(b)], place' = [place EXCEPT ![b] = "owned"]
    PROVE  BackendsStep
<1> USE DEF Inv, LoggerTypeOK, ObjectsInv
<1>1. Evolves(b, be[b], Attached(b))
  BY AttachEvolves DEF Attached
<1> QED
  BY <1>1 DEF BackendsStep, Same, Used

(* Destroying a logger is a step of its backends.                          *)
LEMMA DestroyCloses ==
    ASSUME Inv, NEW id \in Id, Destroyed(id)
    PROVE  BackendsStep
<1> USE DEF Inv, LoggerTypeOK, ObjectsInv, OwnersInv, LoggerObject
<1>1. ASSUME NEW b \in logger[id].backends
      PROVE  Closed(b)
  <2> DEFINE w == Write(b, be[b], Bye)
  <2>1. Evolves(b, be[b], w)
    BY WriteObject, LoggerAssumption DEF Evolves
  <2>2. be'[b] = Cleanup(b, w) /\ place'[b] = "deleted"
    BY DEF Destroyed, WriteAll
  <2>3. /\ ObjectInv(b, Cleanup(b, w))
        /\ Later(w, Cleanup(b, w))
        /\ Cleanup(b, w).sunk = Cleanup(b, w).log
    BY <2>1, CleanupCompletes DEF Evolves
  <2> DEFINE q == Cleanup(b, w)
  <2> HIDE DEF q, w
  <2>4. Later(be[b], q)
    <3>1. /\ be[b].log \in Seq(Entry) /\ w.log \in Seq(Entry) /\ q.log \in Seq(Entry)
          /\ be[b].sunk \in Seq(Entry) /\ w.sunk \in Seq(Entry) /\ q.sunk \in Seq(Entry)
      BY <2>1, <2>3 DEF Evolves, ObjectInv, Object, q
    <3> QED
      BY <2>1, <2>3, <3>1, PrefixTransitive DEF Evolves, Later, q
  <2> QED
    BY <2>2, <2>3, <2>4 DEF Closed, q
<1> QED
  BY <1>1 DEF BackendsStep, Same, Destroyed

(* Every step treats every backend in one of the three ways.               *)
LEMMA StepOfBackends == Inv /\ [LoggerNext]_loggerVars => BackendsStep
<1> SUFFICES ASSUME Inv, [LoggerNext]_loggerVars PROVE BackendsStep
  OBVIOUS
<1>1. ASSUME UNCHANGED <<be, place>> PROVE BackendsStep
  BY <1>1 DEF BackendsStep, Same, Inv, LoggerTypeOK
<1>2. ASSUME NEW id \in Id, NewLogger(id) \/ BeginStatement(id) PROVE BackendsStep
  BY <1>1, <1>2 DEF NewLogger, BeginStatement
<1>3. ASSUME NEW id \in Id, DestroyLogger(id) PROVE BackendsStep
  BY <1>3, DestroyCloses DEF DestroyLogger
<1>4. ASSUME NEW id \in Id, LogRaw(id) PROVE BackendsStep
  BY <1>4, WriteAllUses, LoggerAssumption DEF LogRaw
<1>5. ASSUME NEW id \in Id, NEW field, NEW v, Set(id, field, v) PROVE BackendsStep
  BY <1>1, <1>5 DEF Set
<1>6. ASSUME NEW id \in Id, NEW b \in Backend, QuickInit(id, b) \/ AddBackend(id, b)
      PROVE  BackendsStep
  BY <1>6, AttachUses DEF QuickInit, AddBackend
<1>7. ASSUME NEW id \in Id, Configure(id) PROVE BackendsStep
  BY <1>5, <1>6, <1>7 DEF Configure, SetMinLoglvl, SetLoglvlAction, SetMsgStripping,
       AddFilenameFilter, RemoveFilenameFilter
<1>8. ASSUME NEW b \in Backend, FlushBackend(b) PROVE BackendsStep
  <2>1. Evolves(b, be[b], Flush(be[b]))
    BY <1>8, FlushEvolves DEF FlushBackend, Inv, ObjectsInv
  <2> QED
    BY <1>8, <2>1 DEF FlushBackend, BackendsStep, Same, Used, Inv, LoggerTypeOK
<1>9. ASSUME EndStatement PROVE BackendsStep
  <2> DEFINE s == streams[Len(streams)]
  <2>1. s \in Stream
    BY <1>9 DEF EndStatement, Inv, LoggerTypeOK
  <2> PICK m \in Message : \/ be' = be
                           \/ be' = WriteBoth(s.id, m, Acted)
                           \/ be' = WriteAll(s.id, m)
    BY <1>9 DEF EndStatement
  <2>2. s.id \in Id /\ m \in Entry /\ Acted \in Entry
    BY <2>1, LoggerAssumption DEF Stream
  <2>3. \/ be' = be
        \/ be' = WriteBoth(s.id, m, Acted)
        \/ be' = WriteAll(s.id, m)
    BY <1>9 DEF EndStatement
  <2>4. place' = place
    BY <1>9 DEF EndStatement
  <2> QED
    BY <1>1, <2>2, <2>3, <2>4, WriteBothUses, WriteAllUses
<1>10. ASSUME EndProcess \/ UNCHANGED loggerVars PROVE BackendsStep
  BY <1>1, <1>10 DEF EndProcess, loggerVars
<1> QED
  BY <1>2, <1>3, <1>4, <1>7, <1>8, <1>9, <1>10 DEF LoggerNext

(* The invariant holds before there is a logger.                           *)
LEMMA InitInv == LoggerInit => Inv
<1> SUFFICES ASSUME LoggerInit PROVE Inv
  OBVIOUS
<1>1. Fresh \in Object
  <2>1. <<>> \in Seq(Entry)
    OBVIOUS
  <2> QED
    BY <2>1 DEF Fresh, Object
<1>2. \A b \in Backend : ObjectInv(b, Fresh)
  BY <1>1, BackendAssumption DEF ObjectInv, Exceeds, Fresh
<1> QED
  BY <1>1, <1>2, LoggerAssumption
     DEF LoggerInit, Inv, LoggerTypeOK, ObjectsInv, OwnersInv, LoggerObject, NoLogger, Fresh

(* No step breaks what holds of each backend.                              *)
LEMMA ObjectsKept == Inv /\ [LoggerNext]_loggerVars => ObjectsInv' /\ (be \in [Backend -> Object])'
                        /\ (place \in [Backend -> {"fresh", "owned", "deleted"}])'
<1> SUFFICES ASSUME Inv, BackendsStep
             PROVE  /\ ObjectsInv' /\ (be \in [Backend -> Object])'
                    /\ (place \in [Backend -> {"fresh", "owned", "deleted"}])'
  BY StepOfBackends
<1> USE DEF Inv, LoggerTypeOK, ObjectsInv
<1>1. ASSUME NEW b \in Backend
      PROVE  /\ ObjectInv(b, be'[b])
             /\ place'[b] = "fresh" => be'[b].stream = "closed"
             /\ place'[b] = "owned" => Ready(b, be'[b])
             /\ place'[b] \in {"fresh", "owned", "deleted"}
  BY DEF BackendsStep, Same, Used, Closed, Evolves
<1>2. \A b \in Backend : be'[b] \in Object
  BY <1>1 DEF ObjectInv
<1> QED
  BY <1>1, <1>2 DEF BackendsStep, ObjectInv, Ready

(* Replacing the object of one logger keeps the ownership of backends.     *)
LEMMA Replaced ==
    ASSUME Inv, NEW id \in Id, NEW r \in LoggerObject,
           logger' = [logger EXCEPT ![id] = r],
           \/ r.backends \subseteq logger[id].backends /\ place' = place
           \/ \E b \in Backend :
                 /\ place[b] = "fresh" /\ place' = [place EXCEPT ![b] = "owned"]
                 /\ r.backends \subseteq logger[id].backends \cup {b}
    PROVE  (logger \in [Id -> LoggerObject])' /\ OwnersInv'
<1> USE DEF Inv, LoggerTypeOK, OwnersInv
<1>1. (logger \in [Id -> LoggerObject])'
  OBVIOUS
<1>2. \A i \in Id : logger[i].backends \subseteq Backend
  BY DEF LoggerObject
<1>3. logger'[id] = r /\ \A i \in Id \ {id} : logger'[i] = logger[i]
  OBVIOUS
<1> HIDE DEF LoggerTypeOK
<1>4. place \in [Backend -> {"fresh", "owned", "deleted"}]
  BY DEF LoggerTypeOK
<1>5. CASE r.backends \subseteq logger[id].backends /\ place' = place
  BY <1>1, <1>2, <1>3, <1>5
<1>6. ASSUME NEW b \in Backend, place[b] = "fresh",
             place' = [place EXCEPT ![b] = "owned"],
             r.backends \subseteq logger[id].backends \cup {b}
      PROVE  OwnersInv'
  BY <1>1, <1>2, <1>3, <1>4, <1>6
<1> QED
  BY <1>1, <1>5, <1>6

(* No step breaks what holds of the loggers and of who owns a backend.     *)
LEMMA LoggersKept ==
    Inv /\ [LoggerNext]_loggerVars => (logger \in [Id -> LoggerObject])' /\ OwnersInv'
<1> SUFFICES ASSUME Inv, [LoggerNext]_loggerVars
             PROVE  (logger \in [Id -> LoggerObject])' /\ OwnersInv'
  OBVIOUS
<1> DEFINE Goal == (logger \in [Id -> LoggerObject])' /\ OwnersInv'
<1>0. \A id \in Id : logger[id] \in LoggerObject
  BY DEF Inv, LoggerTypeOK
<1>1. ASSUME UNCHANGED <<logger, place>> PROVE Goal
  BY <1>1 DEF Inv, LoggerTypeOK, OwnersInv
<1>2. ASSUME NEW id \in Id, NewLogger(id) PROVE Goal
  <2> DEFINE r == [NoLogger EXCEPT !.up = TRUE]
  <2>1. r \in LoggerObject /\ r.backends = {}
    BY LoggerAssumption DEF NoLogger, LoggerObject
  <2>2. logger' = [logger EXCEPT ![id] = r] /\ place' = place
    BY <1>2 DEF NewLogger
  <2> HIDE DEF r
  <2> QED
    BY <2>1, <2>2, Replaced
<1>3. ASSUME NEW id \in Id, DestroyLogger(id) PROVE Goal
  BY <1>3, LoggerAssumption
     DEF Inv, LoggerTypeOK, OwnersInv, LoggerObject, DestroyLogger, Destroyed, NoLogger
<1>4. ASSUME NEW id \in Id, LogRaw(id) \/ BeginStatement(id) PROVE Goal
  BY <1>1, <1>4 DEF LogRaw, BeginStatement
<1>5. ASSUME NEW id \in Id, NEW r \in LoggerObject, r.backends = logger[id].backends,
             place' = place, logger' = [logger EXCEPT ![id] = r]
      PROVE  Goal
  BY <1>5, Replaced
<1>6. ASSUME NEW id \in Id, NEW l \in Level, SetMinLoglvl(id, l) \/ SetLoglvlAction(id, l)
      PROVE  Goal
  <2>1. CASE SetMinLoglvl(id, l)
    <3> DEFINE r == [logger[id] EXCEPT !.min = l]
    <3>1. r \in LoggerObject /\ r.backends = logger[id].backends
      BY <1>0 DEF LoggerObject
    <3> QED
      BY <2>1, <3>1, <1>5 DEF SetMinLoglvl, Set
  <2>2. CASE SetLoglvlAction(id, l)
    <3> DEFINE r == [logger[id] EXCEPT !.actions = logger[id].actions \cup {l}]
    <3>1. r \in LoggerObject /\ r.backends = logger[id].backends
      BY <1>0 DEF LoggerObject
    <3> QED
      BY <2>2, <3>1, <1>5 DEF SetLoglvlAction, Set
  <2> QED
    BY <1>6, <2>1, <2>2
<1>7. ASSUME NEW id \in Id, NEW x \in BOOLEAN, SetMsgStripping(id, x) PROVE Goal
  <2> DEFINE r == [logger[id] EXCEPT !.strip = x]
  <2>1. r \in LoggerObject /\ r.backends = logger[id].backends
    BY <1>0 DEF LoggerObject
  <2> QED
    BY <1>7, <2>1, <1>5 DEF SetMsgStripping, Set
<1>8. ASSUME NEW id \in Id, NEW f \in File,
             AddFilenameFilter(id, f) \/ RemoveFilenameFilter(id, f)
      PROVE  Goal
  <2>1. ASSUME NEW fs \in SUBSET File, Set(id, "filter", fs) PROVE Goal
    <3> DEFINE r == [logger[id] EXCEPT !.filter = fs]
    <3>1. r \in LoggerObject /\ r.backends = logger[id].backends
      BY <1>0 DEF LoggerObject
    <3> QED
      BY <2>1, <3>1, <1>5 DEF Set
  <2>2. logger[id].filter \in SUBSET File
    BY <1>0 DEF LoggerObject
  <2> QED
    BY <1>8, <2>1, <2>2 DEF AddFilenameFilter, RemoveFilenameFilter
<1>9. ASSUME NEW id \in Id, NEW b \in Backend, QuickInit(id, b) PROVE Goal
  <2> PICK l \in Level, x \in BOOLEAN :
         logger' = [logger EXCEPT ![id] =
            [NoLogger EXCEPT !.up = TRUE, !.backends = {b}, !.min = l, !.strip = x]]
    BY <1>9 DEF QuickInit
  <2> DEFINE r == [NoLogger EXCEPT !.up = TRUE, !.backends = {b}, !.min = l, !.strip = x]
  <2>1. r \in LoggerObject /\ r.backends = {b}
    BY DEF NoLogger, LoggerObject
  <2>2. /\ logger' = [logger EXCEPT ![id] = r]
        /\ place[b] = "fresh" /\ place' = [place EXCEPT ![b] = "owned"]
    BY <1>9 DEF QuickInit
  <2> HIDE DEF r
  <2> QED
    BY <2>1, <2>2, Replaced
<1>10. ASSUME NEW id \in Id, NEW b \in Backend, AddBackend(id, b) PROVE Goal
  <2> DEFINE r == [logger[id] EXCEPT !.backends = logger[id].backends \cup {b}]
  <2>1. r \in LoggerObject /\ r.backends = logger[id].backends \cup {b}
    BY <1>0 DEF LoggerObject
  <2>2. /\ logger' = [logger EXCEPT ![id] = r]
        /\ place[b] = "fresh" /\ place' = [place EXCEPT ![b] = "owned"]
    BY <1>10 DEF AddBackend
  <2> HIDE DEF r
  <2> QED
    BY <2>1, <2>2, Replaced
<1>11. ASSUME (\E b \in Backend : FlushBackend(b)) \/ EndStatement \/ EndProcess
              \/ UNCHANGED loggerVars
       PROVE  Goal
  BY <1>1, <1>11 DEF FlushBackend, EndStatement, EndProcess, loggerVars
<1> QED
  BY <1>2, <1>3, <1>4, <1>6, <1>7, <1>8, <1>9, <1>10, <1>11 DEF LoggerNext, Configure

(* No step breaks the types of the statements and of the process.          *)
LEMMA StreamsKept ==
    Inv /\ [LoggerNext]_loggerVars => (streams \in Seq(Stream))' /\ (running \in BOOLEAN)'
<1> SUFFICES ASSUME Inv, [LoggerNext]_loggerVars
             PROVE  (streams \in Seq(Stream))' /\ (running \in BOOLEAN)'
  OBVIOUS
<1> USE DEF Inv, LoggerTypeOK
<1>1. ASSUME UNCHANGED streams PROVE (streams \in Seq(Stream))'
  BY <1>1
<1>2. ASSUME NEW id \in Id, BeginStatement(id) PROVE (streams \in Seq(Stream))'
  BY <1>2, LoggerAssumption DEF BeginStatement, Stream
<1>3. ASSUME EndStatement PROVE (streams \in Seq(Stream))'
  BY <1>3 DEF EndStatement
<1>4. ASSUME NEW id \in Id, Configure(id) PROVE UNCHANGED <<streams, running>>
  BY <1>4 DEF Configure, SetMinLoglvl, SetLoglvlAction, SetMsgStripping,
       AddFilenameFilter, RemoveFilenameFilter, Set, QuickInit, AddBackend
<1>5. (streams \in Seq(Stream))'
  BY <1>1, <1>2, <1>3, <1>4 DEF LoggerNext, NewLogger, DestroyLogger, Destroyed, LogRaw,
       FlushBackend, EndProcess, loggerVars
<1>6. (running \in BOOLEAN)'
  BY <1>4 DEF LoggerNext, NewLogger, DestroyLogger, Destroyed, LogRaw, BeginStatement,
       FlushBackend, EndStatement, EndProcess, loggerVars
<1> QED
  BY <1>5, <1>6

(* Of every backend, what was logged is what it wrote and holds, in order. *)
THEOREM Invariance == LoggerSpec => []Inv
<1>1. Inv /\ [LoggerNext]_loggerVars => Inv'
  BY ObjectsKept, LoggersKept, StreamsKept DEF Inv, LoggerTypeOK
<1> QED
  BY <1>1, InitInv, PTL DEF LoggerSpec

-----------------------------------------------------------------------------
(* Every variable keeps its type.                                          *)
THEOREM TypeCorrect == LoggerSpec => []LoggerTypeOK
<1>1. Inv => LoggerTypeOK
  BY DEF Inv
<1> QED
  BY <1>1, Invariance, PTL

(* No backend loses, repeats or reorders a message, whatever the sizes of  *)
(* messages and buffers and whatever is configured between them.           *)
THEOREM NothingLost == LoggerSpec => []KeptInOrder
<1>1. Inv => KeptInOrder
  BY DEF Inv, ObjectsInv, ObjectInv, KeptInOrder
<1> QED
  BY <1>1, Invariance, PTL

(* A buffer of non-negative size is overrun by a single message at most.   *)
THEOREM BufferIsBounded == LoggerSpec => []BufferBounded
<1>1. Inv => BufferBounded
  BY DEF Inv, ObjectsInv, ObjectInv, BufferBounded
<1> QED
  BY <1>1, Invariance, PTL

(* The backends a registered logger writes to are alive, open, and its own,*)
(* for any number of loggers.                                              *)
THEOREM OwnersAreSafe == LoggerSpec => []NoDanglingBackend
<1>1. Inv => NoDanglingBackend
  BY DEF Inv, LoggerTypeOK, LoggerObject, ObjectsInv, OwnersInv, Ready, NoDanglingBackend
<1> QED
  BY <1>1, Invariance, PTL

(* The backends implement the append-only logs of AppendLog.               *)
THEOREM ImplementsAppendLog == LoggerSpec => BackendsAreAppendLogs
<1>1. LoggerInit => Promise!Init
  <2>1. Fresh.log = <<>> /\ Fresh.sunk = <<>>
    BY DEF Fresh
  <2> QED
    BY <2>1 DEF LoggerInit, Promise!Init
<1>2. Inv /\ BackendsStep => Promise!Next
  <2> SUFFICES ASSUME Inv, BackendsStep, NEW b \in Backend
               PROVE  IF place[b] # "deleted"
                      THEN /\ Promise!IsPrefixOf(be[b].log, be'[b].log)
                           /\ Promise!IsPrefixOf(be[b].sunk, be'[b].sunk)
                           /\ Promise!IsPrefixOf(be'[b].sunk, be'[b].log)
                           /\ place'[b] = "deleted" => be'[b].sunk = be'[b].log
                      ELSE be'[b] = be[b] /\ place'[b] = "deleted"
    BY DEF Promise!Next, Promise!Grow, Promise!Rest
  <2>1. CASE Same(b)
    <3>1. /\ be[b].log \in Seq(Entry) /\ be[b].sunk \in Seq(Entry)
          /\ be[b].log = be[b].sunk \o be[b].buf /\ be[b].buf \in Seq(Entry)
      BY DEF Inv, ObjectsInv, ObjectInv, Object
    <3> QED
      BY <2>1, <3>1, PrefixSelf, PrefixConcat DEF Same
  <2>2. CASE Used(b) \/ Closed(b)
    <3>1. /\ be'[b].log \in Seq(Entry) /\ be'[b].sunk \in Seq(Entry)
          /\ be'[b].log = be'[b].sunk \o be'[b].buf /\ be'[b].buf \in Seq(Entry)
      BY <2>2 DEF Used, Closed, Evolves, ObjectInv, Object
    <3> QED
      BY <2>2, <3>1, PrefixConcat DEF Used, Closed, Evolves, Later
  <2> QED
    BY <2>1, <2>2 DEF BackendsStep
<1>3. UNCHANGED loggerVars => UNCHANGED <<[b \in Backend |-> be[b].log],
                                     [b \in Backend |-> be[b].sunk],
                                     [b \in Backend |-> place[b] # "deleted"]>>
  BY DEF loggerVars
<1> QED
  BY <1>1, <1>2, <1>3, Invariance, StepOfBackends, PTL
     DEF LoggerSpec, BackendsAreAppendLogs, Promise!Spec

-----------------------------------------------------------------------------
(* What the backends of a logger have in common.                           *)

(* One log is a suffix of another when it is as long at most and agrees    *)
(* with it counted from the end.                                           *)
LEMMA SuffixByElements ==
    ASSUME NEW S, NEW s \in Seq(S), NEW t \in Seq(S)
    PROVE  IsSuffixOf(s, t) <=>
             /\ Len(s) <= Len(t)
             /\ \A i \in 1..Len(s) : s[i] = t[Len(t) - Len(s) + i]
<1> DEFINE m == Len(t) - Len(s) + 1
           n == Len(t)
           u == SubSeq(t, m, n)
<1>1. Len(s) \in Nat /\ n \in Nat
  OBVIOUS
<1>2. ASSUME Len(s) <= Len(t)
      PROVE  /\ u \in Seq(S) /\ Len(u) = Len(s)
             /\ \A i \in 1..Len(s) : u[i] = t[Len(t) - Len(s) + i]
  <2>1. m \in 1..n + 1 /\ n - m + 1 = Len(s)
    BY <1>1, <1>2
  <2>2. \A i \in m..n : t[i] \in S
    BY <1>1, <2>1
  <2> HIDE DEF m, n
  <2>3. m \in Int /\ n \in Int
    BY <1>1, <2>1
  <2>4. /\ u \in Seq(S) /\ Len(u) = IF m <= n THEN n - m + 1 ELSE 0
        /\ \A i \in 1..n - m + 1 : u[i] = t[m + i - 1]
    BY <2>2, <2>3, SubSeqProperties
  <2>5. Len(u) = Len(s)
    BY <1>1, <2>1, <2>3, <2>4
  <2> QED
    BY <1>1, <2>1, <2>4, <2>5 DEF m, n
<1>3. CASE Len(s) <= Len(t)
  <2>1. s = u <=> \A i \in 1..Len(s) : s[i] = u[i]
    <3> HIDE DEF u
    <3> QED
      BY <1>2, <1>3, SeqEqual
  <2> QED
    BY <1>2, <1>3, <2>1 DEF IsSuffixOf
<1> QED
  BY <1>3 DEF IsSuffixOf

(* What two logs agreed on, they agree on when both get the same messages. *)
LEMMA SuffixGrows ==
    ASSUME NEW S, NEW s \in Seq(S), NEW t \in Seq(S), NEW x \in Seq(S),
           s # <<>>, t # <<>>, IsSuffixOf(Tail(s), Tail(t))
    PROVE  IsSuffixOf(Tail(s \o x), Tail(t \o x))
<1>1. /\ Len(s) \in Nat \ {0} /\ Len(t) \in Nat \ {0} /\ Len(x) \in Nat
  OBVIOUS
<1>2. /\ s \o x \in Seq(S) /\ Len(s \o x) = Len(s) + Len(x)
      /\ t \o x \in Seq(S) /\ Len(t \o x) = Len(t) + Len(x)
      /\ \A i \in 1..Len(s) + Len(x) :
            (s \o x)[i] = IF i <= Len(s) THEN s[i] ELSE x[i - Len(s)]
      /\ \A i \in 1..Len(t) + Len(x) :
            (t \o x)[i] = IF i <= Len(t) THEN t[i] ELSE x[i - Len(t)]
  BY ConcatProperties
<1> DEFINE a == s \o x
           b == t \o x
<1>3. \A u \in Seq(S) : u # <<>> =>
         /\ Tail(u) \in Seq(S) /\ Len(Tail(u)) = Len(u) - 1
         /\ \A i \in 1..Len(u) - 1 : Tail(u)[i] = u[i + 1]
  BY HeadTailProperties
<1>4. a # <<>> /\ b # <<>>
  <2>1. Len(a) > 0 /\ Len(b) > 0
    BY <1>1, <1>2
  <2> HIDE DEF a, b
  <2> QED
    BY <2>1
<1> HIDE DEF a, b
<1>5. /\ Len(s) <= Len(t)
      /\ \A i \in 1..Len(s) - 1 : s[i + 1] = t[Len(t) - Len(s) + i + 1]
  <2>1. /\ Len(Tail(s)) <= Len(Tail(t))
        /\ \A i \in 1..Len(Tail(s)) :
              Tail(s)[i] = Tail(t)[Len(Tail(t)) - Len(Tail(s)) + i]
    <3> DEFINE p == Tail(s)
               q == Tail(t)
    <3>1. p \in Seq(S) /\ q \in Seq(S) /\ IsSuffixOf(p, q)
      BY <1>3
    <3> HIDE DEF p, q
    <3>2. Len(p) <= Len(q) /\ \A i \in 1..Len(p) : p[i] = q[Len(q) - Len(p) + i]
      BY <3>1, SuffixByElements
    <3> QED
      BY <3>2 DEF p, q
  <2>2. Len(s) <= Len(t)
    BY <1>1, <1>3, <2>1
  <2>3. ASSUME NEW i \in 1..Len(s) - 1
        PROVE  s[i + 1] = t[Len(t) - Len(s) + i + 1]
    <3>1. Len(t) - Len(s) + i \in 1..Len(t) - 1
      BY <1>1, <2>2
    <3>2. Tail(s)[i] = Tail(t)[Len(t) - Len(s) + i]
      BY <1>1, <1>3, <2>1
    <3> QED
      BY <1>3, <3>1, <3>2
  <2> QED
    BY <2>2, <2>3
<1>6. Len(a) = Len(s) + Len(x) /\ Len(b) = Len(t) + Len(x) /\ a \in Seq(S) /\ b \in Seq(S)
  BY <1>2 DEF a, b
<1>7. ASSUME NEW i \in 1..Len(a) - 1
      PROVE  a[i + 1] = b[Len(b) - Len(a) + i + 1]
  <2>1. Len(b) - Len(a) = Len(t) - Len(s)
    BY <1>1, <1>6
  <2> DEFINE j == Len(t) - Len(s) + i + 1
  <2>2. i + 1 \in 1..Len(s) + Len(x) /\ j \in 1..Len(t) + Len(x)
    BY <1>1, <1>5, <1>6
  <2>3. a[i + 1] = IF i + 1 <= Len(s) THEN s[i + 1] ELSE x[(i + 1) - Len(s)]
    BY <1>2, <2>2 DEF a
  <2>4. b[j] = IF j <= Len(t) THEN t[j] ELSE x[j - Len(t)]
    <3> HIDE DEF j
    <3> QED
      BY <1>2, <2>2 DEF b
  <2>5. CASE i + 1 <= Len(s)
    <3>1. i \in 1..Len(s) - 1 /\ j <= Len(t)
      BY <1>1, <2>5
    <3> QED
      BY <1>5, <2>1, <2>3, <2>4, <2>5, <3>1
  <2>6. CASE ~ (i + 1 <= Len(s))
    <3>1. ~ (j <= Len(t)) /\ j - Len(t) = (i + 1) - Len(s)
      BY <1>1, <2>6
    <3> QED
      BY <2>1, <2>3, <2>4, <2>6, <3>1
  <2> QED
    BY <2>5, <2>6
<1>8. /\ Len(Tail(a)) <= Len(Tail(b))
      /\ \A i \in 1..Len(Tail(a)) : Tail(a)[i] = Tail(b)[Len(Tail(b)) - Len(Tail(a)) + i]
  <2>1. Len(Tail(a)) = Len(a) - 1 /\ Len(Tail(b)) = Len(b) - 1
    BY <1>3, <1>4, <1>6
  <2>2. Len(a) <= Len(b) /\ Len(a) \in Nat /\ Len(b) \in Nat
    BY <1>1, <1>5, <1>6
  <2>3. ASSUME NEW i \in 1..Len(a) - 1
        PROVE  Tail(a)[i] = Tail(b)[Len(b) - Len(a) + i]
    <3>1. Len(b) - Len(a) + i \in 1..Len(b) - 1
      BY <2>2
    <3>2. Tail(a)[i] = a[i + 1]
      BY <1>3, <1>4, <1>6
    <3>3. Tail(b)[Len(b) - Len(a) + i] = b[Len(b) - Len(a) + i + 1]
      BY <1>3, <1>4, <1>6, <3>1
    <3> QED
      BY <1>7, <3>2, <3>3
  <2>4. Len(Tail(b)) - Len(Tail(a)) = Len(b) - Len(a)
    <3> DEFINE k == Len(Tail(a))
               l == Len(Tail(b))
    <3>1. k = Len(a) - 1 /\ l = Len(b) - 1
      BY <2>1
    <3> HIDE DEF k, l
    <3>2. l - k = Len(b) - Len(a)
      BY <2>2, <3>1
    <3> QED
      BY <3>2 DEF k, l
  <2>5. Len(Tail(a)) <= Len(Tail(b))
    BY <2>1, <2>2
  <2> QED
    BY <2>1, <2>3, <2>4, <2>5
<1>9. Tail(a) \in Seq(S) /\ Tail(b) \in Seq(S)
  BY <1>3, <1>4, <1>6
<1>10. IsSuffixOf(Tail(a), Tail(b))
  BY <1>8, <1>9, SuffixByElements
<1> QED
  BY <1>10 DEF a, b

-----------------------------------------------------------------------------
(* The strengthening of SiblingsAgree: a backend that nobody owns yet was  *)
(* given nothing, one that a logger has was given its header.              *)
LogsInv ==
    /\ \A b \in Backend : place[b] = "fresh" => be[b].log = <<>>
    /\ \A id \in Id : \A b \in logger[id].backends : be[b].log # <<>>
    /\ SiblingsAgree

Agree(s, t) == IsSuffixOf(Tail(s), Tail(t)) \/ IsSuffixOf(Tail(t), Tail(s))

(* The invariant, in these words.                                          *)
LEMMA LogsAre ==
    ASSUME Inv, LogsInv
    PROVE  /\ \A b \in Backend : be[b].log \in Seq(Entry)
           /\ \A id \in Id : logger[id].backends \subseteq Backend
           /\ \A id \in Id : \A b, c \in logger[id].backends :
                 place[b] = "owned" /\ be[b].log # <<>> /\ Agree(be[b].log, be[c].log)
BY DEF Inv, LoggerTypeOK, LoggerObject, Object, OwnersInv, LogsInv, SiblingsAgree, Agree

(* What write() adds to the log of a backend, and flush() does not.        *)
LEMMA WriteLogs ==
    ASSUME NEW b \in Backend, NEW o \in Object, NEW e \in Entry
    PROVE  Write(b, o, e).log = Append(o.log, e) /\ Flush(o).log = o.log
<1> DEFINE l == Append(o.log, e)
           p == [o EXCEPT !.log = l]
<1>1. p \in Object /\ p.log = l
  <2>1. l \in Seq(Entry)
    BY DEF Object
  <2> HIDE DEF l
  <2> QED
    BY <2>1, SetLog
<1> HIDE DEF l
<1>2. \A q \in Object : \A es : ToStream(q, es).log = q.log /\ DOMAIN ToStream(q, es) = DOMAIN q
  BY DEF ToStream, Object
<1>3. \A q \in Object : Flush(q).log = q.log /\ DOMAIN Flush(q) = DOMAIN q
  BY <1>2 DEF Flush, Object
<1>4. Buffer(b, p, e).log = l
  <2> DEFINE f == IF Exceeds(p.used + Size[e], BufSize[b]) THEN Flush(p) ELSE p
  <2>1. f.log = l /\ DOMAIN f = DOMAIN p
    BY <1>1, <1>3
  <2>2. Buffer(b, p, e) = [f EXCEPT !.buf = Append(@, e), !.used = @ + Size[e]]
    BY DEF Buffer
  <2>3. "log" \in DOMAIN p
    BY <1>1 DEF Object
  <2> HIDE DEF f, p
  <2> QED
    BY <2>1, <2>2, <2>3
<1>5. Write(b, o, e) = CASE Kind[b] = "buffered"   -> Buffer(b, p, e)
                         [] Kind[b] = "persistent" -> ToStream(p, <<e>>)
                         [] OTHER                  -> [p EXCEPT !.sunk = Append(@, e)]
  BY DEF Write, l
<1>6. [p EXCEPT !.sunk = Append(@, e)].log = l
  BY <1>1 DEF Object
<1> HIDE DEF p
<1>7. Write(b, o, e).log = l
  <2>1. CASE Kind[b] = "buffered"
    BY <1>4, <1>5, <2>1
  <2>2. CASE Kind[b] = "persistent"
    BY <1>1, <1>2, <1>5, <2>2
  <2>3. CASE Kind[b] # "buffered" /\ Kind[b] # "persistent"
    BY <1>5, <1>6, <2>3
  <2> QED
    BY <2>1, <2>2, <2>3
<1> QED
  BY <1>3, <1>7 DEF l

(* What a step does to the logs and to who has them: nothing, except that  *)
(* loggers may give up backends;                                           *)
Quiet ==
    /\ \A id \in Id : logger'[id].backends \subseteq logger[id].backends
    /\ \A id \in Id : \A b \in logger'[id].backends : be'[b].log = be[b].log
    /\ \A b \in Backend : place'[b] = "fresh" => place[b] = "fresh" /\ be'[b] = be[b]

(* all the backends of one logger get the same messages;                   *)
Logging(id, x) ==
    /\ \A i \in Id : logger'[i].backends = logger[i].backends
    /\ place' = place
    /\ \A b \in Backend : be'[b].log = IF b \in logger[id].backends
                                       THEN be[b].log \o x ELSE be[b].log

(* or one backend more gets its header.                                    *)
Attaching(id, c) ==
    /\ \A i \in Id : logger'[i].backends \subseteq
                        logger[i].backends \cup (IF i = id THEN {c} ELSE {})
    /\ place[c] = "fresh" /\ place' = [place EXCEPT ![c] = "owned"]
    /\ be'[c].log = <<Header>>
    /\ \A b \in Backend \ {c} : be'[b] = be[b]

(* Who gives up a backend, keeps the others.                               *)
LEMMA QuietKeeps ==
    ASSUME Inv, LogsInv, Quiet
    PROVE  LogsInv'
<1>1. \A b \in Backend : place'[b] = "fresh" => be'[b].log = <<>>
  BY DEF LogsInv, Quiet
<1>2. ASSUME NEW id \in Id, NEW b \in logger'[id].backends, NEW c \in logger'[id].backends
      PROVE  be'[b].log # <<>> /\ Agree(be'[b].log, be'[c].log)
  <2>1. b \in logger[id].backends /\ c \in logger[id].backends
    BY DEF Quiet
  <2>2. be'[b].log = be[b].log /\ be'[c].log = be[c].log
    BY DEF Quiet
  <2> QED
    BY <2>1, <2>2, LogsAre
<1> QED
  BY <1>1, <1>2 DEF LogsInv, SiblingsAgree, Agree

(* A backend that has its logger keeps up with its siblings.               *)
LEMMA LoggingKeeps ==
    ASSUME Inv, LogsInv, NEW id \in Id, NEW x \in Seq(Entry), Logging(id, x)
    PROVE  LogsInv'
<1>1. ASSUME NEW b \in Backend, place'[b] = "fresh"
      PROVE  be'[b].log = <<>>
  <2>1. place[b] = "fresh" /\ be[b].log = <<>>
    BY <1>1 DEF LogsInv, Logging
  <2>2. b \notin logger[id].backends
    BY <2>1, LogsAre
  <2> QED
    BY <2>1, <2>2 DEF Logging
<1>2. ASSUME NEW i \in Id, NEW b \in logger'[i].backends, NEW c \in logger'[i].backends
      PROVE  be'[b].log # <<>> /\ Agree(be'[b].log, be'[c].log)
  <2> DEFINE s == be[b].log
             t == be[c].log
  <2>1. /\ b \in logger[i].backends /\ c \in logger[i].backends
        /\ b \in Backend /\ c \in Backend
    BY LogsAre DEF Logging
  <2>2. /\ s \in Seq(Entry) /\ t \in Seq(Entry) /\ s # <<>> /\ t # <<>> /\ Agree(s, t)
    BY <2>1, LogsAre
  <2>3. CASE i = id
    <3>1. be'[b].log = s \o x /\ be'[c].log = t \o x
      BY <2>1, <2>3 DEF Logging
    <3> HIDE DEF s, t
    <3>2. Agree(s \o x, t \o x)
      BY <2>2, SuffixGrows DEF Agree
    <3>3. s \o x # <<>>
      BY <2>2
    <3> QED
      BY <3>1, <3>2, <3>3
  <2>4. CASE i # id
    <3>1. b \notin logger[id].backends /\ c \notin logger[id].backends
      BY <2>1, <2>4 DEF Inv, OwnersInv
    <3>2. be'[b].log = s /\ be'[c].log = t
      BY <2>1, <3>1 DEF Logging
    <3> QED
      BY <2>2, <3>2
  <2> QED
    BY <2>3, <2>4
<1> QED
  BY <1>1, <1>2 DEF LogsInv, SiblingsAgree, Agree

(* A new backend has nothing to disagree about.                            *)
LEMMA AttachingKeeps ==
    ASSUME Inv, LogsInv, NEW id \in Id, NEW c \in Backend, Attaching(id, c)
    PROVE  LogsInv'
<1>1. place \in [Backend -> {"fresh", "owned", "deleted"}] /\ Header \in Entry
  BY LoggerAssumption DEF Inv, LoggerTypeOK
<1>2. \A b \in Backend : place'[b] = "fresh" => be'[b].log = <<>>
  BY <1>1 DEF LogsInv, Attaching
<1>3. ASSUME NEW t \in Seq(Entry), t # <<>>
      PROVE  Agree(<<Header>>, t) /\ Agree(t, <<Header>>)
  <2> DEFINE u == Tail(t)
             h == Tail(<<Header>>)
  <2>1. u \in Seq(Entry) /\ h \in Seq(Entry)
    BY <1>3
  <2>2. Len(h) = 0
    OBVIOUS
  <2> HIDE DEF u, h
  <2>3. IsSuffixOf(h, u) <=> /\ Len(h) <= Len(u)
                             /\ \A i \in 1..Len(h) : h[i] = u[Len(u) - Len(h) + i]
    BY <2>1, SuffixByElements
  <2>4. Len(u) \in Nat /\ 1..0 = {}
    BY <2>1
  <2>5. IsSuffixOf(h, u)
    BY <2>2, <2>3, <2>4
  <2> QED
    BY <2>5 DEF Agree, u, h
<1>4. <<Header>> # <<>> /\ <<Header>> \in Seq(Entry)
  BY <1>1
<1>5. ASSUME NEW i \in Id, NEW b \in logger'[i].backends
      PROVE  /\ b = c \/ (b \in logger[i].backends /\ b \in Backend /\ be'[b] = be[b])
             /\ be'[b].log # <<>> /\ be'[b].log \in Seq(Entry)
  <2>1. b = c \/ (b \in logger[i].backends /\ b \in Backend)
    BY LogsAre DEF Attaching
  <2> QED
    BY <1>4, <2>1, LogsAre DEF Attaching
<1>6. ASSUME NEW i \in Id, NEW b \in logger'[i].backends, NEW d \in logger'[i].backends
      PROVE  Agree(be'[b].log, be'[d].log)
  <2>1. CASE b = c \/ d = c
    BY <1>3, <1>5, <2>1 DEF Attaching
  <2>2. CASE b # c /\ d # c
    BY <1>5, <2>2, LogsAre
  <2> QED
    BY <2>1, <2>2
<1> QED
  BY <1>2, <1>5, <1>6 DEF LogsInv, SiblingsAgree, Agree

(* Every step is one of the three.                                         *)
LEMMA WriteAllLogs ==
    ASSUME Inv, NEW id \in Id, NEW e \in Entry, be' = WriteAll(id, e),
           UNCHANGED <<logger, place>>
    PROVE  Logging(id, <<e>>)
<1>1. ASSUME NEW b \in Backend
      PROVE  be'[b].log = IF b \in logger[id].backends THEN be[b].log \o <<e>> ELSE be[b].log
  <2>1. be[b] \in Object /\ be[b].log \in Seq(Entry)
    BY DEF Inv, LoggerTypeOK, Object
  <2>2. Append(be[b].log, e) = be[b].log \o <<e>>
    <3> DEFINE s == be[b].log
    <3>1. s \in Seq(Entry)
      BY <2>1
    <3> HIDE DEF s
    <3> QED
      BY <3>1, AppendIsConcat DEF s
  <2>3. be'[b] = IF b \in logger[id].backends THEN Write(b, be[b], e) ELSE be[b]
    BY DEF WriteAll
  <2>4. Write(b, be[b], e).log = Append(be[b].log, e)
    BY <2>1, WriteLogs
  <2>5. CASE b \in logger[id].backends
    BY <2>2, <2>3, <2>4, <2>5, Zenon
  <2>6. CASE b \notin logger[id].backends
    BY <2>3, <2>6
  <2> QED
    BY <2>5, <2>6
<1> QED
  BY <1>1 DEF Logging

(* A message and that of the callback it set off.                          *)
LEMMA WriteBothLogs ==
    ASSUME Inv, NEW id \in Id, NEW e \in Entry, NEW f \in Entry,
           be' = WriteBoth(id, e, f), UNCHANGED <<logger, place>>
    PROVE  Logging(id, <<e, f>>)
<1>1. ASSUME NEW b \in Backend
      PROVE  be'[b].log = IF b \in logger[id].backends THEN be[b].log \o <<e, f>> ELSE be[b].log
  <2> DEFINE o == be[b]
             p == Write(b, o, e)
             s == o.log
  <2>1. o \in Object /\ s \in Seq(Entry)
    BY DEF Inv, LoggerTypeOK, Object
  <2>2. be'[b] = IF b \in logger[id].backends THEN Write(b, p, f) ELSE o
    BY DEF WriteBoth
  <2>3. CASE b \in logger[id].backends
    <3>1. ObjectInv(b, o) /\ Ready(b, o)
      BY <2>3 DEF Inv, ObjectsInv, OwnersInv
    <3> HIDE DEF o
    <3>2. p.log = Append(s, e)
      BY <2>1, WriteLogs
    <3>3. p \in Object
      BY <3>1, WriteObject DEF ObjectInv
    <3> HIDE DEF p
    <3>4. Write(b, p, f).log = Append(p.log, f)
      BY <3>3, WriteLogs
    <3> HIDE DEF s
    <3>5. Append(Append(s, e), f) = s \o <<e, f>>
      BY <2>1
    <3> QED
      BY <2>2, <2>3, <3>2, <3>4, <3>5 DEF s, o
  <2>4. CASE b \notin logger[id].backends
    BY <2>2, <2>4
  <2> QED
    BY <2>3, <2>4
<1> QED
  BY <1>1 DEF Logging

(* init() and the header.                                                  *)
LEMMA AttachedLogs ==
    ASSUME Inv, LogsInv, NEW b \in Backend, place[b] = "fresh"
    PROVE  Attached(b).log = <<Header>>
<1> DEFINE i == InitBackend(b, be[b])
<1>1. be[b] \in Object /\ be[b].log = <<>>
  BY DEF Inv, LoggerTypeOK, LogsInv
<1>2. i \in Object /\ i.log = <<>>
  BY <1>1 DEF InitBackend, Open, Object
<1> HIDE DEF i
<1>3. Write(b, i, Header).log = Append(i.log, Header)
  BY <1>2, WriteLogs, LoggerAssumption
<1> QED
  BY <1>2, <1>3 DEF Attached, i

(* No step breaks what the logs have in common.                            *)
LEMMA LogsKept == Inv /\ LogsInv /\ [LoggerNext]_loggerVars => LogsInv'
<1> SUFFICES ASSUME Inv, LogsInv, [LoggerNext]_loggerVars PROVE LogsInv'
  OBVIOUS
<1>0. /\ \A id \in Id : logger[id] \in LoggerObject
      /\ logger \in [Id -> LoggerObject]
      /\ place \in [Backend -> {"fresh", "owned", "deleted"}]
      /\ be \in [Backend -> Object]
      /\ \A id \in Id : logger[id].backends \subseteq Backend
  BY DEF Inv, LoggerTypeOK, LoggerObject
<1>1. ASSUME UNCHANGED <<be, place>>,
             \A id \in Id : logger'[id].backends \subseteq logger[id].backends
      PROVE  LogsInv'
  BY <1>1, QuietKeeps DEF Quiet
<1>2. ASSUME UNCHANGED <<be, place, logger>> PROVE LogsInv'
  BY <1>1, <1>2
<1>3. ASSUME NEW id \in Id, NewLogger(id) PROVE LogsInv'
  BY <1>0, <1>1, <1>3 DEF NewLogger, NoLogger
<1>4. ASSUME NEW id \in Id, DestroyLogger(id) PROVE LogsInv'
  <2>1. ASSUME NEW i \in Id
        PROVE  logger'[i].backends = IF i = id THEN {} ELSE logger[i].backends
    BY <1>0, <1>4 DEF DestroyLogger, NoLogger
  <2>2. ASSUME NEW i \in Id, NEW b \in logger'[i].backends
        PROVE  be'[b].log = be[b].log
    <3>1. i # id /\ b \in logger[i].backends /\ b \in Backend
      BY <1>0, <2>1
    <3>2. b \notin logger[id].backends
      BY <3>1 DEF Inv, OwnersInv
    <3> QED
      BY <1>4, <3>1, <3>2 DEF DestroyLogger, Destroyed
  <2>3. \A b \in Backend : place'[b] = "fresh" => place[b] = "fresh" /\ be'[b] = be[b]
    BY <1>4 DEF DestroyLogger, Destroyed
  <2>4. Quiet
    BY <2>1, <2>2, <2>3 DEF Quiet
  <2> QED
    BY <2>4, QuietKeeps
<1>5. ASSUME NEW id \in Id, NEW e \in Entry, be' = WriteAll(id, e),
             UNCHANGED <<logger, place>>
      PROVE  LogsInv'
  <2>1. Logging(id, <<e>>) /\ <<e>> \in Seq(Entry)
    BY <1>5, WriteAllLogs
  <2> QED
    BY <2>1, LoggingKeeps
<1>6. ASSUME NEW id \in Id, NEW e \in Entry, NEW f \in Entry, be' = WriteBoth(id, e, f),
             UNCHANGED <<logger, place>>
      PROVE  LogsInv'
  <2>1. Logging(id, <<e, f>>) /\ <<e, f>> \in Seq(Entry)
    BY <1>6, WriteBothLogs
  <2> QED
    BY <2>1, LoggingKeeps
<1>7. ASSUME NEW id \in Id, NEW c \in Backend, place[c] = "fresh",
             place' = [place EXCEPT ![c] = "owned"],
             be' = [be EXCEPT ![c] = Attached(c)],
             \A i \in Id : logger'[i].backends \subseteq
                              logger[i].backends \cup (IF i = id THEN {c} ELSE {})
      PROVE  LogsInv'
  <2>1. be'[c].log = <<Header>> /\ \A b \in Backend \ {c} : be'[b] = be[b]
    BY <1>0, <1>7, AttachedLogs
  <2>2. Attaching(id, c)
    BY <1>7, <2>1 DEF Attaching
  <2> QED
    BY <2>2, AttachingKeeps
<1>8. ASSUME NEW id \in Id, LogRaw(id) PROVE LogsInv'
  BY <1>5, <1>8, LoggerAssumption DEF LogRaw
<1>9. ASSUME NEW id \in Id, BeginStatement(id) PROVE LogsInv'
  BY <1>2, <1>9 DEF BeginStatement
<1>10. ASSUME NEW id \in Id, NEW field \in {"min", "strip", "filter", "actions"}, NEW v,
              Set(id, field, v)
       PROVE  LogsInv'
  <2>1. \A i \in Id : logger'[i].backends = logger[i].backends
    BY <1>0, <1>10 DEF Set, LoggerObject
  <2> QED
    BY <1>1, <1>10, <2>1 DEF Set
<1>11. ASSUME NEW id \in Id, NEW b \in Backend, QuickInit(id, b) PROVE LogsInv'
  <2>1. \A i \in Id : logger'[i].backends \subseteq
                         logger[i].backends \cup (IF i = id THEN {b} ELSE {})
    BY <1>0, <1>11 DEF QuickInit, NoLogger
  <2> QED
    BY <1>7, <1>11, <2>1 DEF QuickInit
<1>12. ASSUME NEW id \in Id, NEW b \in Backend, AddBackend(id, b) PROVE LogsInv'
  <2>1. \A i \in Id : logger'[i].backends \subseteq
                         logger[i].backends \cup (IF i = id THEN {b} ELSE {})
    BY <1>0, <1>12 DEF AddBackend, LoggerObject
  <2> QED
    BY <1>7, <1>12, <2>1 DEF AddBackend
<1>13. ASSUME NEW id \in Id, Configure(id) PROVE LogsInv'
  BY <1>10, <1>11, <1>12, <1>13 DEF Configure, SetMinLoglvl, SetLoglvlAction,
     SetMsgStripping, AddFilenameFilter, RemoveFilenameFilter
<1>14. ASSUME NEW b \in Backend, FlushBackend(b) PROVE LogsInv'
  <2>1. /\ be' = [be EXCEPT ![b] = Flush(@)] /\ place[b] = "owned"
        /\ UNCHANGED <<logger, place>>
    BY <1>14 DEF FlushBackend
  <2>2. \A c \in Backend : be'[c] = IF c = b THEN Flush(be[b]) ELSE be[c]
    BY <1>0, <2>1
  <2>3. Flush(be[b]).log = be[b].log
    BY <1>0, WriteLogs, LoggerAssumption
  <2>4. Quiet
    BY <1>0, <2>1, <2>2, <2>3 DEF Quiet
  <2> QED
    BY <2>4, QuietKeeps
<1>15. ASSUME EndStatement PROVE LogsInv'
  <2> DEFINE s == streams[Len(streams)]
  <2>1. s \in Stream
    BY <1>15 DEF EndStatement, Inv, LoggerTypeOK
  <2> PICK m \in Message : \/ be' = be
                           \/ be' = WriteBoth(s.id, m, Acted)
                           \/ be' = WriteAll(s.id, m)
    BY <1>15 DEF EndStatement
  <2>2. s.id \in Id /\ m \in Entry /\ Acted \in Entry
    BY <2>1, LoggerAssumption DEF Stream
  <2>3. \/ be' = be
        \/ be' = WriteBoth(s.id, m, Acted)
        \/ be' = WriteAll(s.id, m)
    BY <1>15 DEF EndStatement
  <2>4. UNCHANGED <<logger, place>>
    BY <1>15 DEF EndStatement
  <2> QED
    BY <1>2, <1>5, <1>6, <2>2, <2>3, <2>4
<1>16. ASSUME EndProcess \/ UNCHANGED loggerVars PROVE LogsInv'
  BY <1>2, <1>16 DEF EndProcess, loggerVars
<1> QED
  BY <1>3, <1>4, <1>8, <1>9, <1>13, <1>14, <1>15, <1>16 DEF LoggerNext

(* Backends of one logger hold the same messages in the same order, but    *)
(* for those that came before the younger one was added.                   *)
THEOREM SiblingsDoAgree == LoggerSpec => []SiblingsAgree
<1>1. LoggerInit => LogsInv
  BY DEF LoggerInit, LogsInv, SiblingsAgree, NoLogger, Fresh
<1>2. LogsInv => SiblingsAgree
  BY DEF LogsInv
<1> QED
  BY <1>1, <1>2, LogsKept, Invariance, PTL DEF LoggerSpec
=============================================================================
