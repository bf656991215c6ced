---------------------------- MODULE MessageQueue --------------------------
(***************************************************************************)
(* MessageQueueServer and MessageQueueClient of platform/threading.cc: a   *)
(* queue of the kernel, from which check_for_msg() moves messages into the *)
(* deque get_msg() takes them from.  The queue outlives its server, which  *)
(* never unlinks it.  mq_open() does not look at the attr.mq_flags the     *)
(* constructor sets: mq_receive() blocks, whatever `blocking' says, and -1 *)
(* is the answer to a signal, not to an empty queue.                       *)
(* A message is a sequence of characters.                                  *)
(***************************************************************************)
EXTENDS Integers, SequencesExt

CONSTANTS
    Texts,          \* what is sent
    NUL,            \* the character that ends a C string
    MaxMsg,         \* attr.mq_maxmsg
    MaxSent,        \* bound: messages sent
    MaxNoise,       \* bound: signals
    MaxStarts       \* bound: servers started

ASSUME MessageQueueAssumption ==
    MaxMsg \in Nat \ {0} /\ MaxSent \in Nat /\ MaxNoise \in Nat /\ MaxStarts \in Nat

VARIABLES
    mq,             \* the messages in the kernel
    receiver,       \* [blocking, local_queue]; the server process
    waiting,        \* check_for_msg() is in mq_receive()
    promised,       \* it has just answered true
    client,         \* the client program: "none", "open", "exited"
    starts,         \* servers started: from the first one on the queue exists
    sent,           \* history: the messages of all senders
    base,           \* history: how many of them were gone when this server started
    received,       \* history: what get_msg() has returned since then
    noise           \* history: the signals since then

counts == <<starts, sent, base, received, noise>>
queueVars == <<mq, receiver, waiting, promised, client, counts>>

QueueInit ==
    /\ mq = <<>> /\ sent = <<>>
    /\ receiver = [blocking |-> FALSE, local_queue |-> <<>>]
    /\ waiting = FALSE /\ promised = FALSE
    /\ client = "none"
    /\ starts = 0 /\ base = 0 /\ received = <<>> /\ noise = 0

(* `out += buffer' ends at the first NUL.                                  *)
CString(text) == SubSeq(text, 1, SelectInSeq(text \o <<NUL>>, LAMBDA c : c = NUL) - 1)

(* A server starts, the first or after the end of one before it.           *)
MessageQueueServer(blocking) ==
    /\ starts < MaxStarts
    /\ starts' = starts + 1
    /\ receiver' = [blocking |-> blocking, local_queue |-> <<>>]
    /\ waiting' = FALSE /\ promised' = FALSE
    /\ base' = Len(sent) - Len(mq) /\ received' = <<>> /\ noise' = 0
    /\ UNCHANGED <<mq, client, sent>>

(* Some program opens the queue by its name and sends to it.               *)
SendToQueue(text) ==
    /\ starts > 0 /\ Len(mq) < MaxMsg /\ Len(sent) < MaxSent
    /\ mq' = Append(mq, text) /\ sent' = Append(sent, text)
    /\ UNCHANGED <<receiver, waiting, promised, client, starts, base, received, noise>>

CheckForMsg ==
    /\ starts > 0 /\ ~ waiting
    /\ waiting' = TRUE /\ promised' = FALSE
    /\ UNCHANGED <<mq, receiver, client, counts>>

\* Mutant: the newest message is put in front.
ReceiveAtFront ==
    /\ waiting /\ mq # <<>>
    /\ mq' = Tail(mq)
    /\ receiver' = [receiver EXCEPT !.local_queue = <<CString(Head(mq))>> \o @]
    /\ waiting' = FALSE /\ promised' = TRUE
    /\ UNCHANGED <<client, counts>>

Receive ==
    /\ waiting /\ mq # <<>>
    /\ mq' = Tail(mq)
    /\ receiver' = [receiver EXCEPT !.local_queue = Append(@, CString(Head(mq)))]
    /\ waiting' = FALSE /\ promised' = TRUE
    /\ UNCHANGED <<client, counts>>

(* mq_receive() is interrupted.  A blocking server goes on with an empty   *)
(* buffer; the NUL it writes at buffer[-1] is left out.                    *)
Interrupted ==
    /\ waiting /\ mq = <<>> /\ noise < MaxNoise
    /\ waiting' = FALSE /\ noise' = noise + 1
    /\ IF receiver.blocking
       THEN receiver' = [receiver EXCEPT !.local_queue = Append(@, <<>>)] /\ promised' = TRUE
       ELSE promised' = (receiver.local_queue # <<>>) /\ UNCHANGED receiver
    /\ UNCHANGED <<mq, client, starts, sent, base, received>>

(* A caller gets a message after it was told that there is one.            *)
GetMsg ==
    /\ promised
    /\ promised' = FALSE
    /\ received' = Append(received, Head(receiver.local_queue))
    /\ receiver' = [receiver EXCEPT !.local_queue = Tail(@)]
    /\ UNCHANGED <<mq, waiting, client, starts, sent, base, noise>>

(* A client takes the success of mq_open() for its failure, and exits; the *)
(* descriptor -1 of a queue that does not exist it keeps, and exits when   *)
(* it sends.                                                               *)
MessageQueueClient ==
    /\ client = "none"
    /\ client' = IF starts > 0 THEN "exited" ELSE "open"
    /\ UNCHANGED <<mq, receiver, waiting, promised, counts>>

SendMsg ==
    /\ client = "open"
    /\ client' = "exited"
    /\ UNCHANGED <<mq, receiver, waiting, promised, counts>>

QueueNext ==
    \/ \E blocking \in BOOLEAN : MessageQueueServer(blocking)
    \/ \E text \in Texts : SendToQueue(text)
    \/ CheckForMsg \/ Receive \/ Interrupted \/ GetMsg
    \/ MessageQueueClient \/ SendMsg

QueueSpec == QueueInit /\ [][QueueNext]_queueVars

-----------------------------------------------------------------------------
QueueTypeOK ==
    /\ mq \in Seq(Texts) /\ Len(mq) <= MaxMsg
    /\ receiver.blocking \in BOOLEAN
    /\ waiting \in BOOLEAN /\ promised \in BOOLEAN
    /\ client \in {"none", "open", "exited"}
    /\ sent \in Seq(Texts) /\ starts \in 0..MaxStarts /\ noise \in 0..MaxNoise

(* The messages that have left the queue since this server started, and    *)
(* what became of them: what it has returned, and holds in its deque.      *)
departed == SubSeq(sent, base + 1, Len(sent) - Len(mq))
answers  == received \o receiver.local_queue

(* Nothing is lost, repeated or reordered between the senders and          *)
(* get_msg(), but at the first NUL of a message and by the end of a        *)
(* server: what the server has returned or holds in its deque are the      *)
(* messages that left the queue since it started, cut and in order, with   *)
(* an empty one for every signal that met a blocking server.  And when     *)
(* check_for_msg() has answered true, there is a message to get.           *)
QueueOrder ==
    /\ \E place \in [DOMAIN departed -> DOMAIN answers] :
          /\ \A i, j \in DOMAIN departed : i < j => place[i] < place[j]
          /\ \A i \in DOMAIN departed : answers[place[i]] = CString(departed[i])
          /\ \A k \in DOMAIN answers : answers[k] = <<>> \/ \E i \in DOMAIN departed : place[i] = k
    /\ Len(answers) = Len(departed) + IF receiver.blocking THEN noise ELSE 0
    /\ promised => receiver.local_queue # <<>>
=============================================================================
