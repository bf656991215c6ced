------------------------------- MODULE Sockets ----------------------------
(***************************************************************************)
(* platform/xsocket.cc: server and client sockets, SocketStreams on file   *)
(* descriptors, and a StreamSelecter, in a program of one thread that      *)
(* reads whatever select() hands it.  The peers, the kernel's descriptors  *)
(* and the connections between are external.                               *)
(*                                                                         *)
(* The characters of a connection are numbered from 1, those a peer sends  *)
(* and those sent to it; a NUL is the number negated.                      *)
(***************************************************************************)
EXTENDS Integers, SequencesExt

CONSTANTS
    Fd,             \* the descriptors: 1..n
    MaxStream,      \* bound: SocketStream objects
    MaxConn,        \* bound: connections
    MaxChar,        \* bound: characters sent both ways in all
    MaxList         \* bound: calls of add_stream()

Stream == 1..MaxStream
Conn == 1..MaxConn
Closed   == 0       \* what a descriptor may be besides a connection
Listener == -1
Leaked   == -2      \* a socket its constructor threw away
NoServer == 0

ASSUME SocketsAssumption ==
    /\ Fd \subseteq Nat \ {0} /\ IsFiniteSet(Fd)
    /\ MaxStream \in Nat /\ MaxConn \in Nat /\ MaxChar \in Nat /\ MaxList \in Nat

VARIABLES
    table,          \* what each descriptor is
    server,         \* the descriptor of the ServerSocket, or NoServer
    object,         \* the SocketStreams: [fd, alive, conn], conn of them a history
    streams,        \* the StreamSelecter's vector, of indices of object
    answer,         \* [stream, failed]: what select() has returned and is not yet read
    inbox,          \* per connection: what the program has still to read
    gone,           \* the connections whose peer has closed its end
    wrote,          \* history, per connection: what its peer has written
    got,            \* history: what get() returned of it
    asked,          \* history: how many characters send() was asked to send
    heard,          \* history: what of them was written
    members,        \* history: streams added and not removed since
    copied          \* history: was a SocketStream copied?

traffic == <<inbox, gone, wrote, got, asked, heard>>
socketsVars == <<table, server, object, streams, answer, traffic, members, copied>>

NoStream == [stream |-> 0, failed |-> FALSE]
Objects == DOMAIN object

SocketsInit ==
    /\ table = [f \in Fd |-> Closed] /\ server = NoServer
    /\ object = <<>>
    /\ streams = <<>> /\ answer = NoStream
    /\ inbox = [c \in Conn |-> <<>>] /\ wrote = inbox /\ got = inbox /\ heard = inbox
    /\ asked = [c \in Conn |-> 0] /\ gone = {}
    /\ members = {} /\ copied = FALSE

(* The program makes another call once it has read what was selected.      *)
Idle == answer = NoStream

(* Connections are numbered in the order they are made.                    *)
Opened == {object[s].conn : s \in Objects}
NewConn == Cardinality(Opened) + 1

FreeFds == {f \in Fd : table[f] = Closed}
FreeFd == CHOOSE f \in FreeFds : \A g \in FreeFds : f <= g

NewStream(fd) ==
    /\ Len(object) < MaxStream /\ NewConn \in Conn
    /\ object' = Append(object, [fd |-> fd, alive |-> TRUE, conn |-> NewConn])
    /\ table' = [table EXCEPT ![fd] = NewConn]

(* The constructor throws if bind() fails, and leaves the socket open; its *)
(* own SocketStream, protected and never handed out, is no object here.    *)
ServerSocket ==
    /\ Idle /\ server = NoServer /\ FreeFds # {}
    /\ \/ table' = [table EXCEPT ![FreeFd] = Listener] /\ server' = FreeFd
       \/ table' = [table EXCEPT ![FreeFd] = Leaked] /\ server' = server
    /\ UNCHANGED <<object, streams, answer, traffic, members, copied>>

(* ~ServerSocket() deletes the stream of its socket.                       *)
DestroyServer ==
    /\ Idle /\ server # NoServer
    /\ table' = [table EXCEPT ![server] = Closed] /\ server' = NoServer
    /\ UNCHANGED <<object, streams, answer, traffic, members, copied>>

(* listen(), with a peer that connects; without a descriptor left, or with *)
(* its own no more a listening one, it throws and changes nothing.         *)
Listen ==
    /\ Idle /\ server # NoServer /\ table[server] = Listener /\ FreeFds # {}
    /\ NewStream(FreeFd)
    /\ UNCHANGED <<server, streams, answer, traffic, members, copied>>

(* ClientSocket(); its stream is not deleted with it, but by the program.  *)
ClientSocket ==
    /\ Idle /\ FreeFds # {}
    /\ \/ NewStream(FreeFd)
       \/ table' = [table EXCEPT ![FreeFd] = Leaked] /\ UNCHANGED object
    /\ UNCHANGED <<server, streams, answer, traffic, members, copied>>

(* The copy of a SocketStream is one on the same descriptor, and whichever *)
(* dies first closes it, whatever it is by now.                            *)
CopyStream(s) ==
    /\ Idle /\ object[s].alive /\ Len(object) < MaxStream
    /\ object' = Append(object, object[s])
    /\ copied' = TRUE
    /\ UNCHANGED <<table, server, streams, answer, traffic, members>>

DeleteStream(s) ==
    /\ Idle /\ object[s].alive /\ s \notin members
    /\ object' = [object EXCEPT ![s].alive = FALSE]
    /\ table' = [table EXCEPT ![object[s].fd] = Closed]
    /\ UNCHANGED <<server, streams, answer, traffic, members, copied>>

Sent == SumFunction([c \in Conn |-> Len(wrote[c]) + asked[c]])

\* Mutant: after a short write all of the data is written again.
SendAgain(s, len) ==
    LET c == table[object[s].fd]
        data == [i \in 1..len |-> asked[c] + i] IN
    /\ Idle /\ object[s].alive /\ c \in Conn \ gone /\ Sent + len <= MaxChar
    /\ asked' = [asked EXCEPT ![c] = @ + len]
    /\ \E n \in 1..len :
          heard' = [heard EXCEPT ![c] = @ \o IF n = len THEN data ELSE SubSeq(data, 1, n) \o data]
    /\ UNCHANGED <<table, server, object, streams, answer, inbox, gone, wrote, got, members, copied>>

(* send(data, len): write() may write a part, and the rest is dropped.  On *)
(* a closed descriptor it throws; a peer that has closed ends the program  *)
(* by SIGPIPE, and both are left out.                                      *)
Send(s, len) ==
    LET c == table[object[s].fd] IN
    /\ Idle /\ object[s].alive /\ c \in Conn \ gone /\ Sent + len <= MaxChar
    /\ asked' = [asked EXCEPT ![c] = @ + len]
    /\ \E n \in 1..len :
          heard' = [heard EXCEPT ![c] = @ \o [i \in 1..n |-> asked[c] + i]]
    /\ UNCHANGED <<table, server, object, streams, answer, inbox, gone, wrote, got, members, copied>>

PeerWrites(c, sign) ==
    /\ c \in Opened \ gone /\ Sent < MaxChar
    /\ wrote' = [wrote EXCEPT ![c] = Append(@, sign * (Len(@) + 1))]
    /\ inbox' = [inbox EXCEPT ![c] = Append(@, sign * (Len(wrote[c]) + 1))]
    /\ UNCHANGED <<table, server, object, streams, answer, gone, got, asked, heard, members, copied>>

PeerCloses(c) ==
    /\ c \in Opened \ gone
    /\ gone' = gone \cup {c}
    /\ UNCHANGED <<table, server, object, streams, answer, inbox, wrote, got, asked, heard,
                   members, copied>>

-----------------------------------------------------------------------------
AddStream(s) ==
    /\ Idle /\ object[s].alive /\ Len(streams) < MaxList
    /\ streams' = Append(streams, s)
    /\ members' = members \cup {s}
    /\ UNCHANGED <<table, server, object, answer, traffic, copied>>

\* Mutant: the last one is popped, whether a stream was removed or not.
RemovedPopped(list, s) ==
    LET kept == FlattenSeq([i \in DOMAIN list |-> IF list[i] = s THEN <<>> ELSE <<list[i]>>]) IN
    SubSeq(kept \o SubSeq(list, Len(kept) + 1, Len(list)), 1, Len(list) - 1)

(* std::remove() without erase(): the others move to the front, and what   *)
(* is behind them stays.                                                   *)
Removed(list, s) ==
    LET kept == FlattenSeq([i \in DOMAIN list |-> IF list[i] = s THEN <<>> ELSE <<list[i]>>]) IN
    kept \o SubSeq(list, Len(kept) + 1, Len(list))

RemoveStream(s) ==
    /\ Idle /\ object[s].alive
    /\ streams' = Removed(streams, s)
    /\ members' = members \ {s}
    /\ UNCHANGED <<table, server, object, answer, traffic, copied>>

Readable(fd) == table[fd] \in Conn /\ (inbox[table[fd]] # <<>> \/ table[fd] \in gone)

(* The descriptor found in a stream, any if the stream is deleted by now.  *)
Found(s) == IF object[s].alive THEN {object[s].fd} ELSE Fd

\* Mutant: the last of the ready streams is returned.
SelectLast ==
    /\ Idle /\ streams # <<>>
    /\ \E fd \in {f \in [DOMAIN streams -> Fd] : \A i \in DOMAIN f : f[i] \in Found(streams[i])},
          failed \in BOOLEAN :
         LET ready == {i \in DOMAIN fd : Readable(fd[i])} IN
         /\ \A i \in DOMAIN fd : table[fd[i]] = Closed => failed
         /\ IF failed THEN answer' = [stream |-> Head(streams), failed |-> TRUE]
            ELSE \/ ready = {} /\ answer' = NoStream
                 \/ \E i \in ready :
                       /\ \A j \in ready : i >= j
                       /\ answer' = [stream |-> streams[i], failed |-> FALSE]
    /\ UNCHANGED <<table, server, object, streams, traffic, members, copied>>

(* select(): with a descriptor that is closed, or a signal, ::select()     *)
(* fails, leaves all bits set, and the first stream is returned; a timeout *)
(* returns NULL.                                                           *)
Select ==
    /\ Idle /\ streams # <<>>
    /\ \E fd \in {f \in [DOMAIN streams -> Fd] : \A i \in DOMAIN f : f[i] \in Found(streams[i])},
          failed \in BOOLEAN :
         LET ready == {i \in DOMAIN fd : Readable(fd[i])} IN
         /\ \A i \in DOMAIN fd : table[fd[i]] = Closed => failed
         /\ IF failed THEN answer' = [stream |-> Head(streams), failed |-> TRUE]
            ELSE \/ ready = {} /\ answer' = NoStream
                 \/ \E i \in ready :
                       /\ \A j \in ready : i <= j
                       /\ answer' = [stream |-> streams[i], failed |-> FALSE]
    /\ UNCHANGED <<table, server, object, streams, traffic, members, copied>>

(* get(len) of the stream selected: it blocks while there is nothing to    *)
(* read, throws if the descriptor is closed, and returns what it has read  *)
(* up to the first NUL: nothing, again and again, from a peer that closed. *)
UpToNUL(text) == SubSeq(text, 1, SelectInSeq(Append(text, -1), LAMBDA c : c < 0) - 1)

Get(fd, len) ==
    /\ ~ Idle /\ fd \in Found(answer.stream)
    /\ IF Readable(fd)
       THEN LET c == table[fd]
                n == IF len < Len(inbox[c]) THEN len ELSE Len(inbox[c]) IN
            /\ got' = [got EXCEPT ![c] = @ \o UpToNUL(SubSeq(inbox[c], 1, n))]
            /\ inbox' = [inbox EXCEPT ![c] = SubSeq(@, n + 1, Len(@))]
       ELSE table[fd] \notin Conn /\ UNCHANGED <<got, inbox>>
    /\ answer' = NoStream
    /\ UNCHANGED <<table, server, object, streams, gone, wrote, asked, heard, members, copied>>

Serve == \E fd \in Fd, len \in 1..MaxChar : Get(fd, len)

SocketsNext ==
    \/ ServerSocket \/ DestroyServer \/ Listen \/ ClientSocket
    \/ \E s \in Objects : CopyStream(s) \/ DeleteStream(s) \/ AddStream(s) \/ RemoveStream(s)
    \/ \E s \in Objects, len \in 1..MaxChar : Send(s, len)
    \/ \E c \in Conn, sign \in {1, -1} : PeerWrites(c, sign)
    \/ \E c \in Conn : PeerCloses(c)
    \/ Select
    \/ Serve

(* The thread goes on selecting and reading.                               *)
SocketsFairness == WF_socketsVars(Select) /\ WF_socketsVars(Serve)
SocketsSpec == SocketsInit /\ [][SocketsNext]_socketsVars /\ SocketsFairness

-----------------------------------------------------------------------------
Alive == {s \in Objects : object[s].alive}
Dangling == ToSet(streams) \ Alive

SocketsTypeOK ==
    /\ table \in [Fd -> Conn \cup {Closed, Listener, Leaked}] /\ server \in Fd \cup {NoServer}
    /\ object \in Seq([fd : Fd, alive : BOOLEAN, conn : Conn])
    /\ streams \in Seq(Objects) /\ Len(streams) <= MaxList
    /\ answer \in [stream : Objects \cup {0}, failed : BOOLEAN]
    /\ \A c \in Conn : Len(wrote[c]) <= MaxChar /\ asked[c] \in 0..MaxChar
    /\ members \subseteq Objects /\ copied \in BOOLEAN /\ gone \subseteq Conn

(* The selecter never loses a stream: remove_stream(), which leaves what   *)
(* is behind the streams it has moved, takes none but its own out of the   *)
(* vector.  And what select() returns can be read, so the read after it    *)
(* does not block, unless ::select() has failed or the stream was removed, *)
(* stayed in the vector, and was deleted.                                  *)
SelecterKeeps ==
    /\ members \subseteq ToSet(streams)
    /\ ~ Idle /\ ~ answer.failed /\ answer.stream \in Alive => Readable(object[answer.stream].fd)

Increasing(q) == \A i, j \in DOMAIN q : i < j => q[i] < q[j]

(* The characters of a connection keep their order both ways, whatever     *)
(* descriptors are closed and opened again.  What is read is all that was  *)
(* written, but for what follows a NUL in one read; what is sent may lack  *)
(* the rest of any call of send().  A stream stays on its own connection   *)
(* as long as none has ever been copied.                                   *)
StreamsKeepOrder ==
    /\ \A c \in Conn :
         /\ Increasing(got[c]) /\ ToSet(got[c]) \subseteq ToSet(wrote[c]) \ ToSet(inbox[c])
         /\ (\A i \in DOMAIN wrote[c] : wrote[c][i] > 0) => got[c] \o inbox[c] = wrote[c]
         /\ Increasing(heard[c]) /\ ToSet(heard[c]) \subseteq 1..asked[c]
    /\ ~ copied => \A s \in Alive : table[object[s].fd] = object[s].conn

(* The first stream of the vector is served: what there is to read of it   *)
(* is read, unless the vector changes or holds a deleted stream.  Of the   *)
(* others this cannot be said: the first that is ready is always returned, *)
(* and one whose peer has closed is always ready.                          *)
HeadWaits ==
    /\ streams # <<>> /\ Dangling = {}
    /\ LET fd == object[Head(streams)].fd IN Readable(fd) /\ inbox[table[fd]] # <<>>

HeadIsServed == HeadWaits ~> ~ HeadWaits
=============================================================================
