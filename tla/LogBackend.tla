----------------------------- MODULE LogBackend ----------------------------
(***************************************************************************)
(* The backends of platform/xlogger.cc: what write(), flush(), init() and  *)
(* cleanup() of each class do to one backend object.  An object is a       *)
(* record                                                                  *)
(*   log     everything it was asked to write (history)                    *)
(*   sunk    what its file, console or vector holds of it                  *)
(*   buf     the messages in _buf         (BufferedFileBackend)            *)
(*   used    _buf.size() in bytes                                          *)
(*   stream  the std::ofstream fd: "open" or "closed" in a good state,     *)
(*           "stuck" or "broken" when it is open or closed with its        *)
(*           failbit or badbit set, after which it swallows what it is     *)
(*           given.                                                        *)
(* Files can be opened and written: the environment does not fail.         *)
(***************************************************************************)
EXTENDS Integers, Sequences

CONSTANTS
    Backend,    \* the backend objects
    Entry,      \* the rendered messages
    Kind,       \* the class of each backend
    BufSize,    \* _buffer_size, an int
    Size        \* the length of each rendered message

Kinds == {"memory", "console", "file", "persistent", "buffered"}
HasStream == {"persistent", "buffered"}

ASSUME BackendAssumption ==
    /\ Kind \in [Backend -> Kinds]
    /\ BufSize \in [Backend -> Int]
    /\ Size \in [Entry -> Nat]

Object == [log : Seq(Entry), sunk : Seq(Entry), buf : Seq(Entry), used : Nat,
           stream : {"closed", "open", "stuck", "broken"}]

(* The constructors; BaseLoggerBackend's calls its own, empty init().      *)
Fresh == [log |-> <<>>, sunk |-> <<>>, buf |-> <<>>, used |-> 0,
          stream |-> "closed"]

(* ofstream::close(): closing a closed stream sets failbit, and closing    *)
(* does not clear one that is set.                                         *)
Close(o) == [o EXCEPT !.stream = IF @ = "open" THEN "closed" ELSE "broken"]

(* ofstream::open(): refused, with failbit set, while the file is open;    *)
(* in C++11 a success clears the state.                                    *)
Open(o) == [o EXCEPT !.stream = IF @ \in {"closed", "broken"} THEN "open" ELSE "stuck"]

(* write_to_fstream(fd, es): a stream that is not good drops the data.     *)
ToStream(o, es) ==
    IF o.stream = "open"
    THEN [o EXCEPT !.sunk = @ \o es]
    ELSE [o EXCEPT !.stream = IF @ = "closed" THEN "broken" ELSE @]

\* Mutant: flush() keeps the flushed text in the buffer.
FlushKeeping(o) == ToStream(o, o.buf)

Flush(o) == [ToStream(o, o.buf) EXCEPT !.buf = <<>>, !.used = 0]

(* Comparing size_t with int makes a negative _buffer_size a huge one.     *)
Exceeds(n, size) == size >= 0 /\ n > size

\* Mutant: room is looked for before, not with, the new message.
BufferLate(b, o, e) ==
    LET f == IF Exceeds(o.used, BufSize[b]) THEN Flush(o) ELSE o
    IN  [f EXCEPT !.buf = Append(@, e), !.used = @ + Size[e]]

(* BufferedFileBackend::write: flush a buffer the message does not fit in, *)
(* then buffer the message, however long it is.                            *)
Buffer(b, o, e) ==
    LET f == IF Exceeds(o.used + Size[e], BufSize[b]) THEN Flush(o) ELSE o
    IN  [f EXCEPT !.buf = Append(@, e), !.used = @ + Size[e]]

(* back->write(e).                                                         *)
Write(b, o, e) ==
    LET p == [o EXCEPT !.log = Append(@, e)]
    IN  CASE Kind[b] = "buffered"   -> Buffer(b, p, e)
          [] Kind[b] = "persistent" -> ToStream(p, <<e>>)
          [] OTHER                  -> [p EXCEPT !.sunk = Append(@, e)]

(* back->init().                                                           *)
InitBackend(b, o) == IF Kind[b] \in HasStream THEN Open(o) ELSE o

\* Mutant: BufferedFileBackend inherits the cleanup() of its base class.
CleanupUnflushed(b, o) == IF Kind[b] \in HasStream THEN Close(o) ELSE o

(* back->cleanup(), which ~XLogger calls before it deletes the backend.    *)
Cleanup(b, o) ==
    CASE Kind[b] = "buffered"   -> Close(Flush(o))
      [] Kind[b] = "persistent" -> Close(o)
      [] OTHER                  -> o
=============================================================================
