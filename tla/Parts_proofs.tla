---------------------------- MODULE Parts_proofs ----------------------------
(***************************************************************************)
(* Theorems about the parts of platform/threading.h and platform/xsocket.h,*)
(* and about the parts of MCParts together.                                *)
(*                                                                         *)
(* MutexVariable: for every set of threads and every type T (every         *)
(* non-empty set of words).                                                *)
(*                                                                         *)
(* MessageQueue: for any messages, capacity of the queue, number of        *)
(* servers, signals and senders, nothing is lost, repeated or reordered    *)
(* between them and get_msg() but as QueueOrder says.                      *)
(*                                                                         *)
(* Parallel: what the answers of join() and try_join() are worth, for any  *)
(* number of threads, processes and children, any status words and any     *)
(* memory.                                                                 *)
(*                                                                         *)
(* Sockets: for any descriptors, streams, connections and characters, what *)
(* a connection carries keeps its order both ways, and the selecter loses  *)
(* no stream.                                                              *)
(***************************************************************************)
EXTENDS MutexVariable, MCParts, Math_proofs, SequenceTheorems, TLAPS

-----------------------------------------------------------------------------
(* MutexVariable.                                                          *)

Storing == {"set_assign", "set_unlock"}

(* The value while it is stored: a mix of the last committed value and the *)
(* one argument being copied in; outside of set() it is the committed one. *)
StoreInv ==
    /\ \A t \in Thread : where[t] = "set_assign" =>
          \A w \in Word :
             value[w] = IF w \in todo[t] THEN committed[w] ELSE local[t][w]
    /\ \A t \in Thread : where[t] = "set_unlock" => value = local[t]
    /\ (\A t \in Thread : where[t] \notin Storing \cup {"thrown"}) => value = committed

(* What a running get() may have seen so far.                              *)
CopyInv ==
    \A t \in Thread : where[t] \in Getting =>
        /\ \A w \in Word : \E v \in held[t] : v[w] = value[w]
        /\ \A u \in Thread : where[u] \in Storing => local[u] \in held[t]
        /\ where[t] # "get_bind" =>
              \A w \in Word \ todo[t] : \E v \in held[t] : v[w] = local[t][w]
        /\ where[t] = "get_return" => todo[t] = {}

USE DEF Goto, Getting, Locked, Storing, Value

-----------------------------------------------------------------------------
(* Every variable keeps its type.                                          *)
THEOREM TypeCorrect == MutexSpec => []MutexTypeOK
<1>1. MutexInit => MutexTypeOK
  BY DEF MutexInit, MutexTypeOK
<1>2. MutexTypeOK /\ [MutexNext]_mutexVars => MutexTypeOK'
  <2> SUFFICES ASSUME MutexTypeOK, [MutexNext]_mutexVars PROVE MutexTypeOK'
    OBVIOUS
  <2> USE DEF MutexTypeOK
  <2>1. ASSUME NEW t \in Thread, GetLock(t) PROVE MutexTypeOK'
    BY <2>1 DEF GetLock, Lock
  <2>2. ASSUME NEW t \in Thread, GetUnlock(t) PROVE MutexTypeOK'
    BY <2>2 DEF GetUnlock, Unlock
  <2>3. ASSUME NEW t \in Thread, GetCopyWord(t) PROVE MutexTypeOK'
    BY <2>3 DEF GetCopyWord
  <2>4. ASSUME NEW t \in Thread, GetReturn(t) PROVE MutexTypeOK'
    BY <2>4 DEF GetReturn
  <2>5. ASSUME NEW t \in Thread, SetLock(t) PROVE MutexTypeOK'
    BY <2>5 DEF SetLock, Lock
  <2>6. ASSUME NEW t \in Thread, SetAssignWord(t) PROVE MutexTypeOK'
    BY <2>6 DEF SetAssignWord
  <2>7. ASSUME NEW t \in Thread, SetUnlock(t) PROVE MutexTypeOK'
    BY <2>7 DEF SetUnlock, Unlock
  <2>8. ASSUME NEW t \in Thread, SetThrow(t) PROVE MutexTypeOK'
    BY <2>8 DEF SetThrow
  <2>9. CASE UNCHANGED mutexVars
    BY <2>9 DEF mutexVars
  <2> QED
    BY <2>1, <2>2, <2>3, <2>4, <2>5, <2>6, <2>7, <2>8, <2>9 DEF MutexNext, Proceed
<1> QED
  BY <1>1, <1>2, PTL DEF MutexSpec

(* Mutual exclusion: the owner of mx is the one thread inside a locked     *)
(* section of get() or set(), for any number of threads.                   *)
THEOREM MutualExclusion == MutexSpec => []LockedSectionOwned
<1>1. MutexInit => LockedSectionOwned
  BY NoThreadAssumption DEF MutexInit, LockedSectionOwned
<1>2. MutexTypeOK /\ LockedSectionOwned /\ [MutexNext]_mutexVars => LockedSectionOwned'
  <2> SUFFICES ASSUME MutexTypeOK, LockedSectionOwned, [MutexNext]_mutexVars
               PROVE  LockedSectionOwned'
    OBVIOUS
  <2> USE NoThreadAssumption DEF MutexTypeOK, LockedSectionOwned
  <2>1. ASSUME NEW t \in Thread, GetLock(t) \/ SetLock(t)
        PROVE  LockedSectionOwned'
    BY <2>1 DEF GetLock, SetLock, Lock
  <2>2. ASSUME NEW t \in Thread, GetUnlock(t) \/ SetUnlock(t)
        PROVE  LockedSectionOwned'
    BY <2>2 DEF GetUnlock, SetUnlock, Unlock
  <2>3. ASSUME NEW t \in Thread, GetCopyWord(t) \/ GetReturn(t)
        PROVE  LockedSectionOwned'
    BY <2>3 DEF GetCopyWord, GetReturn
  <2>4. ASSUME NEW t \in Thread, SetAssignWord(t) \/ SetThrow(t)
        PROVE  LockedSectionOwned'
    BY <2>4 DEF SetAssignWord, SetThrow
  <2>5. CASE UNCHANGED mutexVars
    BY <2>5 DEF mutexVars
  <2> QED
    BY <2>1, <2>2, <2>3, <2>4, <2>5 DEF MutexNext, Proceed
<1> QED
  BY <1>1, <1>2, TypeCorrect, PTL DEF MutexSpec

-----------------------------------------------------------------------------
(* A value is stored word for word, and is the committed one in between.   *)
LEMMA StoreInvariant == MutexSpec => []StoreInv
<1>1. MutexInit => StoreInv
  BY DEF MutexInit, StoreInv
<1>2. MutexTypeOK /\ LockedSectionOwned /\ StoreInv /\ [MutexNext]_mutexVars => StoreInv'
  <2> SUFFICES ASSUME MutexTypeOK, LockedSectionOwned, StoreInv, [MutexNext]_mutexVars
               PROVE  StoreInv'
    OBVIOUS
  <2> USE NoThreadAssumption DEF MutexTypeOK, LockedSectionOwned, StoreInv
  <2>1. ASSUME NEW t \in Thread, GetLock(t) PROVE StoreInv'
    BY <2>1 DEF GetLock, Lock
  <2>2. ASSUME NEW t \in Thread, GetUnlock(t) PROVE StoreInv'
    BY <2>2 DEF GetUnlock, Unlock
  <2>3. ASSUME NEW t \in Thread, GetCopyWord(t) PROVE StoreInv'
    BY <2>3 DEF GetCopyWord
  <2>4. ASSUME NEW t \in Thread, GetReturn(t) PROVE StoreInv'
    BY <2>4 DEF GetReturn
  <2>5. ASSUME NEW t \in Thread, SetLock(t) PROVE StoreInv'
    BY <2>5 DEF SetLock, Lock
  <2>6. ASSUME NEW t \in Thread, SetAssignWord(t) PROVE StoreInv'
    BY <2>6 DEF SetAssignWord
  <2>7. ASSUME NEW t \in Thread, SetUnlock(t) PROVE StoreInv'
    BY <2>7 DEF SetUnlock, Unlock
  <2>8. ASSUME NEW t \in Thread, SetThrow(t) PROVE StoreInv'
    BY <2>8 DEF SetThrow
  <2>9. CASE UNCHANGED mutexVars
    BY <2>9 DEF mutexVars
  <2> QED
    BY <2>1, <2>2, <2>3, <2>4, <2>5, <2>6, <2>7, <2>8, <2>9 DEF MutexNext, Proceed
<1> QED
  BY <1>1, <1>2, TypeCorrect, MutualExclusion, PTL DEF MutexSpec

(* No torn store is left behind by a mutex that is free: `value' is then   *)
(* the argument of the last completed set(), whole.                        *)
THEOREM NoTornStore == MutexSpec => []FreeMeansCommitted
<1>1. MutexTypeOK /\ LockedSectionOwned /\ StoreInv => FreeMeansCommitted
  BY NoThreadAssumption
     DEF MutexTypeOK, LockedSectionOwned, StoreInv, FreeMeansCommitted
<1> QED
  BY <1>1, TypeCorrect, MutualExclusion, StoreInvariant, PTL

(* Only the owner of mx stores into `value'.                               *)
THEOREM OwnerStores == MutexSpec => OnlyOwnerStores
<1>1. LockedSectionOwned /\ [MutexNext]_mutexVars =>
         [value' # value => \E t \in Thread : mx = t /\ mx' = t]_mutexVars
  BY DEF LockedSectionOwned, MutexNext, Proceed, mutexVars, GetLock, GetUnlock, GetCopyWord,
         GetReturn, SetLock, SetAssignWord, SetUnlock, SetThrow
<1> QED
  BY <1>1, MutualExclusion, PTL DEF MutexSpec, OnlyOwnerStores

-----------------------------------------------------------------------------
(* Each word that get() copies is of a value held since it began.          *)
LEMMA CopyInvariant == MutexSpec => []CopyInv
<1>1. MutexInit => CopyInv
  BY DEF MutexInit, CopyInv
<1>2. MutexTypeOK /\ LockedSectionOwned /\ StoreInv /\ CopyInv /\ [MutexNext]_mutexVars
         => CopyInv'
  <2> SUFFICES ASSUME MutexTypeOK, LockedSectionOwned, StoreInv, CopyInv, [MutexNext]_mutexVars
               PROVE  CopyInv'
    OBVIOUS
  <2> USE NoThreadAssumption DEF MutexTypeOK, LockedSectionOwned, CopyInv
  <2>1. ASSUME NEW t \in Thread, GetLock(t) PROVE CopyInv'
    BY <2>1 DEF GetLock, Lock
  <2>2. ASSUME NEW t \in Thread, GetUnlock(t) PROVE CopyInv'
    BY <2>2 DEF GetUnlock, Unlock
  <2>3. ASSUME NEW t \in Thread, GetCopyWord(t) PROVE CopyInv'
    BY <2>3 DEF GetCopyWord
  <2>4. ASSUME NEW t \in Thread, GetReturn(t) PROVE CopyInv'
    BY <2>4 DEF GetReturn
  <2>5. ASSUME NEW t \in Thread, SetLock(t) PROVE CopyInv'
    BY <2>5 DEF SetLock, Lock
  <2>6. ASSUME NEW t \in Thread, SetAssignWord(t) PROVE CopyInv'
    BY <2>6 DEF SetAssignWord
  <2>7. ASSUME NEW t \in Thread, SetUnlock(t) PROVE CopyInv'
    BY <2>7 DEF SetUnlock, Unlock
  <2>8. ASSUME NEW t \in Thread, SetThrow(t) PROVE CopyInv'
    BY <2>8 DEF SetThrow
  <2>9. CASE UNCHANGED mutexVars
    BY <2>9 DEF mutexVars
  <2> QED
    BY <2>1, <2>2, <2>3, <2>4, <2>5, <2>6, <2>7, <2>8, <2>9 DEF MutexNext, Proceed
<1> QED
  BY <1>1, <1>2, TypeCorrect, MutualExclusion, StoreInvariant, PTL DEF MutexSpec

(* Every word get() returns was current, or being stored, during the call. *)
THEOREM CurrentWords == MutexSpec => []WordsAreCurrent
<1>1. CopyInv => WordsAreCurrent
  BY DEF CopyInv, WordsAreCurrent
<1> QED
  BY <1>1, CopyInvariant, PTL

(* For a T of one machine word get() is atomic even though it copies after *)
(* unlocking: the torn reads need a T of at least two words.               *)
THEOREM OneWordIsAtomic ==
    ASSUME NEW w, Word = {w}
    PROVE  MutexSpec => []GetIsAtomic
<1>0. MutexTypeOK => \A t \in Thread : local[t] \in Value /\ held[t] \subseteq Value
  BY DEF MutexTypeOK
<1>1. ASSUME NEW u \in Value, NEW v \in Value, u[w] = v[w] PROVE u = v
  BY <1>1, Word = {w}
<1>2. MutexTypeOK /\ WordsAreCurrent => GetIsAtomic
  BY <1>0, <1>1 DEF WordsAreCurrent, GetIsAtomic
<1> QED
  BY <1>2, TypeCorrect, CurrentWords, PTL

-----------------------------------------------------------------------------
(* MessageQueue.                                                           *)

(* What check_for_msg() may put into the deque.                            *)
Cut == {CString(text) : text \in Texts} \cup {<<>>}

(* The types of what QueueTypeOK leaves open, and where the queue ends in  *)
(* the history of what was sent.                                           *)
KernelKeepsOrder ==
    /\ receiver \in [blocking : BOOLEAN, local_queue : Seq(Cut)]
    /\ received \in Seq(Cut)
    /\ base \in Nat /\ base + Len(mq) <= Len(sent)
    /\ \A i \in 1..Len(mq) : mq[i] = sent[Len(sent) - Len(mq) + i]

(* place says where in the answers each of the messages is.                *)
Placed(place, out, ans) ==
    /\ place \in [DOMAIN out -> DOMAIN ans]
    /\ \A i, j \in DOMAIN out : i < j => place[i] < place[j]
    /\ \A i \in DOMAIN out : ans[place[i]] = CString(out[i])
    /\ \A k \in DOMAIN ans : ans[k] = <<>> \/ \E i \in DOMAIN out : place[i] = k

QueueInv == QueueTypeOK /\ KernelKeepsOrder /\ QueueOrder

-----------------------------------------------------------------------------
(* Appending to the second of two sequences appends to both together.      *)
LEMMA ConcatOfAppend ==
    ASSUME NEW S, NEW s \in Seq(S), NEW t \in Seq(S), NEW e \in S
    PROVE  s \o Append(t, e) = Append(s \o t, e)
<1>1. s \o t \in Seq(S) /\ <<e>> \in Seq(S)
    BY ConcatProperties
<1>2. Append(t, e) = t \o <<e>> /\ Append(s \o t, e) = (s \o t) \o <<e>>
    BY <1>1, AppendIsConcat
<1> QED
    BY <1>1, <1>2, ConcatAssociative

(* The first of a sequence may be moved to the end of the one before.      *)
LEMMA ConcatOfTail ==
    ASSUME NEW S, NEW s \in Seq(S), NEW t \in Seq(S), t # <<>>
    PROVE  Append(s, Head(t)) \o Tail(t) = s \o t
<1>1. Head(t) \in S /\ Tail(t) \in Seq(S) /\ <<Head(t)>> \in Seq(S)
    BY HeadTailProperties
<1>2. <<Head(t)>> \o Tail(t) = t
  <2>1. <<Head(t)>> \o Tail(t) \in Seq(S) /\ Len(<<Head(t)>> \o Tail(t)) = Len(t)
        /\ \A i \in 1..Len(t) : (<<Head(t)>> \o Tail(t))[i] = IF i <= 1 THEN Head(t) ELSE Tail(t)[i - 1]
      BY <1>1, ConcatProperties, HeadTailProperties, LenProperties
  <2>2. ASSUME NEW i \in 1..Len(t)
        PROVE  (<<Head(t)>> \o Tail(t))[i] = t[i]
    <3>1. CASE i = 1
        BY <3>1, <2>1
    <3>2. CASE i > 1
      <4>1. i - 1 \in 1..Len(Tail(t))
          BY <3>2, HeadTailProperties, LenProperties
      <4> QED
          BY <3>2, <4>1, <2>1, HeadTailProperties, LenProperties
    <3> QED
        BY <3>1, <3>2, LenProperties
  <2> QED
      BY <2>1, <2>2, SeqEqual
<1>3. Append(s, Head(t)) = s \o <<Head(t)>>
    BY <1>1, AppendIsConcat
<1> QED
    BY <1>1, <1>2, <1>3, ConcatAssociative

(* A part of a sequence, made longer at its end.                           *)
LEMMA SubSeqGrows ==
    ASSUME NEW S, NEW s \in Seq(S), NEW m \in Nat, NEW n \in Nat, m <= n, n < Len(s)
    PROVE  SubSeq(s, m + 1, n + 1) = Append(SubSeq(s, m + 1, n), s[n + 1])
<1>1. m + 1 \in 1..Len(s) /\ n + 1 \in (m + 1)..Len(s) /\ n + 1 \in 1..Len(s)
    BY LenProperties
<1>2. SubSeq(s, m + 1, n + 1) = SubSeq(s, m + 1, (n + 1) - 1) \o <<s[n + 1]>>
    BY <1>1, SubSeqRecursiveSecond
<1>3. (n + 1) - 1 = n
    OBVIOUS
<1>4. SubSeq(s, m + 1, n) \in Seq(S) /\ s[n + 1] \in S
    BY <1>1, SubSeqProperties, LenProperties
<1> QED
    BY <1>2, <1>3, <1>4, AppendIsConcat

(* Nor does it change when the whole sequence does at its end.             *)
LEMMA SubSeqStays ==
    ASSUME NEW S, NEW s \in Seq(S), NEW e \in S, NEW m \in Nat, NEW n \in Nat,
           m <= n, n <= Len(s)
    PROVE  SubSeq(Append(s, e), m + 1, n) = SubSeq(s, m + 1, n)
<1> DEFINE t == Append(s, e)
<1>1. t \in Seq(S) /\ Len(t) = Len(s) + 1 /\ \A i \in 1..Len(s) : t[i] = s[i]
    BY AppendProperties
<1> HIDE DEF t
<1>2. /\ SubSeq(s, m + 1, n) \in Seq(S) /\ Len(SubSeq(s, m + 1, n)) = n - m
      /\ \A i \in 1..n - m : SubSeq(s, m + 1, n)[i] = s[m + i]
  <2>1. \A i \in m + 1..n : s[i] \in S
      BY LenProperties
  <2> QED
      BY <2>1, SubSeqProperties
<1>3. /\ SubSeq(t, m + 1, n) \in Seq(S) /\ Len(SubSeq(t, m + 1, n)) = n - m
      /\ \A i \in 1..n - m : SubSeq(t, m + 1, n)[i] = t[m + i]
  <2>1. \A i \in m + 1..n : t[i] \in S
      BY <1>1, LenProperties
  <2> QED
      BY <2>1, SubSeqProperties
<1>4. \A i \in 1..n - m : SubSeq(t, m + 1, n)[i] = SubSeq(s, m + 1, n)[i]
    BY <1>1, <1>2, <1>3, LenProperties
<1>5. SubSeq(t, m + 1, n) = SubSeq(s, m + 1, n)
    BY <1>2, <1>3, <1>4, SeqEqual
<1> QED
    BY <1>5 DEF t

(* One more message leaves the queue, and its text is the last answer.     *)
LEMMA PlaceOneMore ==
    ASSUME NEW out \in Seq(Texts), NEW ans \in Seq(Cut), NEW text \in Texts, NEW place,
           Placed(place, out, ans)
    PROVE  \E pl : Placed(pl, Append(out, text), Append(ans, CString(text)))
<1> DEFINE more == Append(out, text)
           full == Append(ans, CString(text))
           pl == [i \in 1..Len(out) + 1 |-> IF i <= Len(out) THEN place[i] ELSE Len(ans) + 1]
<1>0. CString(text) \in Cut
    BY DEF Cut
<1>1. /\ more \in Seq(Texts) /\ Len(more) = Len(out) + 1 /\ DOMAIN more = 1..Len(out) + 1
      /\ \A i \in 1..Len(out) : more[i] = out[i]
      /\ more[Len(out) + 1] = text
    BY AppendProperties
<1>2. /\ full \in Seq(Cut) /\ Len(full) = Len(ans) + 1 /\ DOMAIN full = 1..Len(ans) + 1
      /\ \A i \in 1..Len(ans) : full[i] = ans[i]
      /\ full[Len(ans) + 1] = CString(text)
    BY <1>0, AppendProperties
<1>3. DOMAIN out = 1..Len(out) /\ DOMAIN ans = 1..Len(ans) /\ Len(out) \in Nat /\ Len(ans) \in Nat
    BY LenProperties
<1>4. \A i \in 1..Len(out) : place[i] \in 1..Len(ans)
    BY <1>3 DEF Placed
<1> HIDE DEF more, full
<1>5. pl \in [DOMAIN more -> DOMAIN full]
    BY <1>1, <1>2, <1>3, <1>4
<1>6. pl[Len(out) + 1] = Len(ans) + 1 /\ \A i \in 1..Len(out) : pl[i] = place[i]
    BY <1>3
<1> HIDE DEF pl
<1>7. \A i, j \in DOMAIN more : i < j => pl[i] < pl[j]
    BY <1>1, <1>3, <1>4, <1>6 DEF Placed
<1>8. \A i \in DOMAIN more : full[pl[i]] = CString(more[i])
    BY <1>1, <1>2, <1>3, <1>4, <1>6 DEF Placed
<1>9. ASSUME NEW k \in DOMAIN full
      PROVE  full[k] = <<>> \/ \E i \in DOMAIN more : pl[i] = k
  <2>1. CASE k = Len(ans) + 1
      BY <2>1, <1>1, <1>3, <1>6
  <2>2. CASE k \in 1..Len(ans)
    <3>1. full[k] = ans[k] /\ (ans[k] = <<>> \/ \E i \in 1..Len(out) : place[i] = k)
        BY <2>2, <1>2, <1>3 DEF Placed
    <3> QED
        BY <3>1, <1>1, <1>3, <1>6
  <2> QED
      BY <2>1, <2>2, <1>2, <1>3
<1>10. Placed(pl, more, full)
    BY <1>5, <1>7, <1>8, <1>9 DEF Placed
<1> QED
    BY <1>10 DEF more, full

(* An empty answer moves none of the places.                               *)
LEMMA PlaceNoMore ==
    ASSUME NEW out \in Seq(Texts), NEW ans \in Seq(Cut), NEW place, Placed(place, out, ans)
    PROVE  Placed(place, out, Append(ans, <<>>))
<1> DEFINE full == Append(ans, <<>>)
<1>1. /\ Len(full) = Len(ans) + 1 /\ DOMAIN full = 1..Len(ans) + 1
      /\ \A i \in 1..Len(ans) : full[i] = ans[i]
      /\ full[Len(ans) + 1] = <<>>
    BY AppendProperties DEF Cut
<1>2. DOMAIN ans = 1..Len(ans) /\ Len(ans) \in Nat
    BY LenProperties
<1> HIDE DEF full
<1>3. /\ place \in [DOMAIN out -> DOMAIN ans]
      /\ \A i, j \in DOMAIN out : i < j => place[i] < place[j]
      /\ \A i \in DOMAIN out : ans[place[i]] = CString(out[i])
      /\ \A k \in DOMAIN ans : ans[k] = <<>> \/ \E i \in DOMAIN out : place[i] = k
    BY DEF Placed
<1>4. DOMAIN ans \subseteq DOMAIN full /\ \A k \in DOMAIN ans : full[k] = ans[k]
    BY <1>1, <1>2
<1>5. \A i \in DOMAIN out : full[place[i]] = CString(out[i])
    BY <1>3, <1>4
<1>6. ASSUME NEW k \in DOMAIN full
      PROVE  full[k] = <<>> \/ \E i \in DOMAIN out : place[i] = k
  <2>1. k \in DOMAIN ans \/ k = Len(ans) + 1
      BY <1>1, <1>2
  <2> QED
      BY <1>1, <1>3, <1>4, <2>1
<1>7. place \in [DOMAIN out -> DOMAIN full]
    BY <1>3, <1>4
<1>8. Placed(place, out, full)
    BY <1>3, <1>5, <1>6, <1>7 DEF Placed
<1> QED
    BY <1>8 DEF full

(* The property in terms of Placed.                                        *)
LEMMA OrderIsPlaced ==
    QueueOrder <=> /\ \E place : Placed(place, departed, answers)
                   /\ Len(answers) = Len(departed) + IF receiver.blocking THEN noise ELSE 0
                   /\ promised => receiver.local_queue # <<>>
BY DEF QueueOrder, Placed

(* The messages that departed, one by one.                                 *)
LEMMA DepartedMessages ==
    ASSUME QueueTypeOK, KernelKeepsOrder
    PROVE  /\ departed \in Seq(Texts) /\ answers \in Seq(Cut)
           /\ Len(departed) = Len(sent) - Len(mq) - base
           /\ \A i \in 1..Len(departed) : departed[i] = sent[base + i]
           /\ Len(answers) = Len(received) + Len(receiver.local_queue)
<1>1. Len(sent) \in Nat /\ Len(mq) \in Nat /\ base \in Nat /\ base + Len(mq) <= Len(sent)
      /\ sent \in Seq(Texts)
    BY LenProperties DEF QueueTypeOK, KernelKeepsOrder
<1>2. departed \in Seq(Texts) /\ Len(departed) = Len(sent) - Len(mq) - base
      /\ \A i \in 1..Len(departed) : departed[i] = sent[base + i]
    BY <1>1, SubSeqProperties DEF departed
<1>3. answers \in Seq(Cut) /\ Len(answers) = Len(received) + Len(receiver.local_queue)
    BY ConcatProperties DEF answers, KernelKeepsOrder
<1> QED
    BY <1>2, <1>3

-----------------------------------------------------------------------------
(* At first there is no message anywhere.                                  *)
LEMMA KernelInit == QueueInit => QueueTypeOK /\ KernelKeepsOrder
<1> SUFFICES ASSUME QueueInit PROVE QueueTypeOK /\ KernelKeepsOrder
    OBVIOUS
<1>1. Len(mq) = 0 /\ Len(sent) = 0 /\ mq \in Seq(Texts) /\ sent \in Seq(Texts)
      /\ received \in Seq(Cut) /\ receiver.local_queue \in Seq(Cut)
    BY EmptySeq DEF QueueInit
<1>2. QueueTypeOK
  <2>1. waiting \in BOOLEAN /\ promised \in BOOLEAN /\ receiver.blocking \in BOOLEAN
      BY DEF QueueInit
  <2> QED
      BY <1>1, <2>1, MessageQueueAssumption DEF QueueInit, QueueTypeOK, MessageQueueAssumption
<1>3. receiver \in [blocking : BOOLEAN, local_queue : Seq(Cut)]
    BY <1>1 DEF QueueInit
<1>4. KernelKeepsOrder
    BY <1>1, <1>3 DEF QueueInit, KernelKeepsOrder
<1> QED
    BY <1>2, <1>4

(* Every step keeps the types, and the queue the end of what was sent.     *)
LEMMA KernelStep ==
    ASSUME QueueInv, [QueueNext]_queueVars
    PROVE  QueueTypeOK' /\ KernelKeepsOrder'
<1> USE MessageQueueAssumption DEF MessageQueueAssumption
<1>1. /\ mq \in Seq(Texts) /\ sent \in Seq(Texts) /\ Len(mq) \in Nat /\ Len(sent) \in Nat
      /\ base \in Nat /\ base + Len(mq) <= Len(sent)
      /\ received \in Seq(Cut) /\ receiver.local_queue \in Seq(Cut)
      /\ receiver \in [blocking : BOOLEAN, local_queue : Seq(Cut)]
    BY LenProperties DEF QueueInv, QueueTypeOK, KernelKeepsOrder
<1>2. ASSUME NEW blocking \in BOOLEAN, MessageQueueServer(blocking)
      PROVE  QueueTypeOK' /\ KernelKeepsOrder'
  <2>1. receiver' \in [blocking : BOOLEAN, local_queue : Seq(Cut)] /\ received' \in Seq(Cut)
      BY <1>2, EmptySeq DEF MessageQueueServer
  <2>2. QueueTypeOK'
    <3>1. waiting' \in BOOLEAN /\ promised' \in BOOLEAN
        BY <1>2 DEF MessageQueueServer
    <3> QED
        BY <1>1, <1>2, <2>1, <3>1 DEF MessageQueueServer, QueueInv, QueueTypeOK
  <2>3. KernelKeepsOrder'
      BY <1>1, <1>2, <2>1 DEF MessageQueueServer, QueueInv, KernelKeepsOrder
  <2> QED
      BY <2>2, <2>3
<1>3. ASSUME NEW text \in Texts, SendToQueue(text)
      PROVE  QueueTypeOK' /\ KernelKeepsOrder'
  <2>1. /\ mq' \in Seq(Texts) /\ Len(mq') = Len(mq) + 1 /\ mq'[Len(mq) + 1] = text
        /\ \A i \in 1..Len(mq) : mq'[i] = mq[i]
      BY <1>1, <1>3, AppendProperties DEF SendToQueue
  <2>2. /\ sent' \in Seq(Texts) /\ Len(sent') = Len(sent) + 1 /\ sent'[Len(sent) + 1] = text
        /\ \A i \in 1..Len(sent) : sent'[i] = sent[i]
      BY <1>1, <1>3, AppendProperties DEF SendToQueue
  <2>3. QueueTypeOK'
      BY <1>1, <1>3, <2>1 DEF SendToQueue, QueueInv, QueueTypeOK
  <2>4. ASSUME NEW i \in 1..Len(mq')
        PROVE  mq'[i] = sent'[Len(sent') - Len(mq') + i]
    <3>1. CASE i = Len(mq) + 1
        BY <3>1, <1>1, <2>1, <2>2
    <3>2. CASE i \in 1..Len(mq)
      <4>1. mq[i] = sent[Len(sent) - Len(mq) + i]
          BY <3>2 DEF QueueInv, KernelKeepsOrder
      <4>2. /\ Len(sent) \in Nat /\ Len(mq) \in Nat /\ Len(mq) <= Len(sent)
            /\ Len(sent') - Len(mq') + i = Len(sent) - Len(mq) + i
          BY <1>1, <2>1, <2>2
      <4>3. Len(sent) - Len(mq) + i \in 1..Len(sent)
          BY <3>2, <4>2
      <4>4. mq'[i] = mq[i]
          BY <3>2, <2>1
      <4>5. sent'[Len(sent) - Len(mq) + i] = sent[Len(sent) - Len(mq) + i]
          BY <4>3, <2>2
      <4> QED
          BY <4>1, <4>2, <4>4, <4>5
    <3> QED
        BY <3>1, <3>2, <1>1, <2>1
  <2> QED
    <3>1. receiver' = receiver /\ received' = received /\ base' = base
        BY <1>3 DEF SendToQueue
    <3>2. base' \in Nat /\ base' + Len(mq') <= Len(sent')
        BY <3>1, <1>1, <2>1, <2>2
    <3> QED
        BY <3>1, <3>2, <1>1, <2>3, <2>4 DEF KernelKeepsOrder
<1>4. CASE CheckForMsg
    BY <1>4 DEF CheckForMsg, counts, QueueInv, QueueTypeOK, KernelKeepsOrder
<1>5. CASE Receive
  <2>1. /\ mq' \in Seq(Texts) /\ Len(mq') = Len(mq) - 1
        /\ \A i \in 1..Len(mq') : mq'[i] = mq[i + 1]
        /\ Head(mq) \in Texts
      BY <1>1, <1>5, HeadTailProperties DEF Receive
  <2>2. CString(Head(mq)) \in Cut
      BY <2>1 DEF Cut
  <2>3. Append(receiver.local_queue, CString(Head(mq))) \in Seq(Cut)
      BY <1>1, <2>2, AppendProperties
  <2>4. receiver' \in [blocking : BOOLEAN, local_queue : Seq(Cut)]
      BY <1>1, <1>5, <2>3 DEF Receive
  <2>5. ASSUME NEW i \in 1..Len(mq')
        PROVE  mq'[i] = sent[Len(sent) - Len(mq') + i]
    <3>1. i + 1 \in 1..Len(mq)
        BY <1>1, <2>1
    <3>2. mq[i + 1] = sent[Len(sent) - Len(mq) + (i + 1)]
        BY <3>1 DEF QueueInv, KernelKeepsOrder
    <3>3. Len(sent) - Len(mq) + (i + 1) = Len(sent) - Len(mq') + i
        BY <1>1, <2>1
    <3> QED
        BY <3>2, <3>3, <2>1
  <2>6. QueueTypeOK'
    <3>1. waiting' \in BOOLEAN /\ promised' \in BOOLEAN
        BY <1>5 DEF Receive
    <3> QED
        BY <1>1, <1>5, <2>1, <2>4, <3>1 DEF Receive, counts, QueueInv, QueueTypeOK
  <2> QED
      BY <1>1, <1>5, <2>1, <2>4, <2>5, <2>6 DEF Receive, counts, KernelKeepsOrder
<1>6. CASE Interrupted
  <2>1. Append(receiver.local_queue, <<>>) \in Seq(Cut)
      BY <1>1, AppendProperties DEF Cut
  <2>2. receiver' \in [blocking : BOOLEAN, local_queue : Seq(Cut)]
      BY <1>1, <1>6, <2>1 DEF Interrupted
  <2>3. waiting' \in BOOLEAN /\ promised' \in BOOLEAN
      BY <1>6 DEF Interrupted
  <2>4. noise' \in 0..MaxNoise
      BY <1>6 DEF Interrupted, QueueInv, QueueTypeOK
  <2>5. mq' = mq /\ sent' = sent /\ client' = client /\ starts' = starts /\ base' = base
        /\ received' = received
      BY <1>6 DEF Interrupted
  <2>6. QueueTypeOK'
      BY <1>1, <2>2, <2>3, <2>4, <2>5 DEF QueueInv, QueueTypeOK
  <2> QED
      BY <1>1, <2>2, <2>5, <2>6 DEF QueueInv, KernelKeepsOrder
<1>7. CASE GetMsg
  <2>1. /\ Head(receiver.local_queue) \in Cut /\ Tail(receiver.local_queue) \in Seq(Cut)
      BY <1>1, <1>7, HeadTailProperties DEF GetMsg, QueueInv, QueueOrder
  <2>2. received' \in Seq(Cut)
      BY <1>1, <1>7, <2>1, AppendProperties DEF GetMsg
  <2>3. receiver' \in [blocking : BOOLEAN, local_queue : Seq(Cut)]
      BY <1>1, <1>7, <2>1 DEF GetMsg
  <2>4. promised' \in BOOLEAN
      BY <1>7 DEF GetMsg
  <2> QED
      BY <1>1, <1>7, <2>2, <2>3, <2>4 DEF GetMsg, QueueInv, QueueTypeOK, KernelKeepsOrder
<1>8. CASE MessageQueueClient
    BY <1>8 DEF MessageQueueClient, counts, QueueInv, QueueTypeOK, KernelKeepsOrder
<1>9. CASE SendMsg
    BY <1>9 DEF SendMsg, counts, QueueInv, QueueTypeOK, KernelKeepsOrder
<1>10. CASE UNCHANGED queueVars
    BY <1>10 DEF queueVars, counts, QueueInv, QueueTypeOK, KernelKeepsOrder
<1> QED
    BY <1>2, <1>3, <1>4, <1>5, <1>6, <1>7, <1>8, <1>9, <1>10 DEF QueueNext

-----------------------------------------------------------------------------
(* A step that changes neither what was answered nor what has departed.    *)
LEMMA OrderKept ==
    ASSUME QueueOrder, departed' = departed, answers' = answers,
           receiver'.blocking = receiver.blocking, noise' = noise,
           promised' => receiver'.local_queue # <<>>
    PROVE  QueueOrder'
BY DEF QueueOrder

(* Nor does a step of the caller or the client change any of this.         *)
LEMMA NothingHappened ==
    ASSUME QueueOrder, UNCHANGED <<mq, sent, base, received, receiver, noise>>, promised' => promised
    PROVE  QueueOrder'
<1>1. departed' = departed /\ answers' = answers /\ receiver' = receiver /\ noise' = noise
    BY DEF departed, answers
<1>2. promised' => receiver'.local_queue # <<>>
    BY DEF QueueOrder
<1> QED
    BY <1>1, <1>2, OrderKept

(* A new server has answered nothing, and nothing has departed since.      *)
LEMMA OrderOfServer ==
    ASSUME QueueInv, KernelKeepsOrder', QueueTypeOK',
           NEW blocking \in BOOLEAN, MessageQueueServer(blocking)
    PROVE  QueueOrder'
<1>1. departed' \in Seq(Texts) /\ Len(departed') = 0
      /\ answers' \in Seq(Cut) /\ Len(answers') = 0
  <2>1. /\ mq \in Seq(Texts) /\ sent \in Seq(Texts) /\ Len(mq) \in Nat /\ Len(sent) \in Nat
        /\ Len(mq) <= Len(sent) /\ base' = Len(sent) - Len(mq) /\ mq' = mq /\ sent' = sent
        /\ received' = <<>> /\ receiver'.local_queue = <<>>
      BY LenProperties DEF MessageQueueServer, QueueInv, QueueTypeOK, KernelKeepsOrder
  <2>2. departed' = SubSeq(sent, Len(sent) - Len(mq) + 1, Len(sent) - Len(mq))
      BY <2>1 DEF departed
  <2>3. departed' \in Seq(Texts) /\ Len(departed') = 0
      BY <2>1, <2>2, SubSeqProperties
  <2>4. answers' = <<>> \o <<>>
      BY <2>1 DEF answers
  <2> QED
      BY <2>3, <2>4
<1>2. DOMAIN departed' = {} /\ DOMAIN answers' = {}
    BY <1>1, LenProperties
<1>3. [i \in {} |-> 0] \in [DOMAIN departed' -> DOMAIN answers']
    BY <1>2
<1>4. \E place \in [DOMAIN departed' -> DOMAIN answers'] : Placed(place, departed', answers')
    BY <1>2, <1>3 DEF Placed
<1>5. ~ promised' /\ noise' = 0
    BY DEF MessageQueueServer
<1>6. Len(answers') = Len(departed') + IF receiver'.blocking THEN noise' ELSE 0
    BY <1>1, <1>5
<1> QED
    BY <1>4, <1>5, <1>6 DEF QueueOrder, Placed

(* What is sent departs later.                                             *)
LEMMA OrderOfSend ==
    ASSUME QueueInv, KernelKeepsOrder', QueueTypeOK',
           NEW text \in Texts, SendToQueue(text)
    PROVE  QueueOrder'
<1>1. /\ mq \in Seq(Texts) /\ sent \in Seq(Texts) /\ Len(mq) \in Nat /\ Len(sent) \in Nat
      /\ base \in Nat /\ base + Len(mq) <= Len(sent) /\ base' = base
    BY LenProperties DEF SendToQueue, QueueInv, QueueTypeOK, KernelKeepsOrder
<1>2. Len(mq') = Len(mq) + 1 /\ Len(sent') = Len(sent) + 1
      /\ \A i \in 1..Len(sent) : sent'[i] = sent[i]
    BY <1>1, AppendProperties DEF SendToQueue
<1>3. departed' = departed
  <2>1. Len(sent') - Len(mq') = Len(sent) - Len(mq) /\ Len(sent) - Len(mq) \in Nat
        /\ base <= Len(sent) - Len(mq) /\ Len(sent) - Len(mq) <= Len(sent)
      BY <1>1, <1>2
  <2>2. sent' = Append(sent, text)
      BY DEF SendToQueue
  <2>3. departed' = SubSeq(Append(sent, text), base + 1, Len(sent) - Len(mq))
      BY <1>1, <2>1, <2>2 DEF departed
  <2>4. SubSeq(Append(sent, text), base + 1, Len(sent) - Len(mq)) = departed
      BY <1>1, <2>1, SubSeqStays DEF departed
  <2> QED
      BY <2>3, <2>4
<1>4. answers' = answers /\ receiver' = receiver /\ noise' = noise /\ promised' = promised
    BY DEF SendToQueue, answers
<1> QED
    BY <1>3, <1>4 DEF QueueInv, QueueOrder

(* A message departs, and its text is the last in the deque.               *)
LEMMA OrderOfReceive ==
    ASSUME QueueInv, KernelKeepsOrder', QueueTypeOK', Receive
    PROVE  QueueOrder'
<1>1. /\ mq \in Seq(Texts) /\ sent \in Seq(Texts) /\ Len(mq) \in Nat /\ Len(sent) \in Nat
      /\ base \in Nat /\ base + Len(mq) <= Len(sent) /\ base' = base /\ sent' = sent
      /\ noise \in Nat /\ noise' = noise /\ receiver'.blocking = receiver.blocking
    BY LenProperties, MessageQueueAssumption
       DEF Receive, counts, QueueInv, QueueTypeOK, KernelKeepsOrder, MessageQueueAssumption
<1>2. mq # <<>> /\ mq' = Tail(mq) /\ received' = received /\ promised'
      /\ receiver'.local_queue = Append(receiver.local_queue, CString(Head(mq)))
    BY DEF Receive, counts, QueueInv, KernelKeepsOrder
<1>3. Len(mq) > 0 /\ Len(mq') = Len(mq) - 1 /\ Head(mq) = mq[1] /\ Head(mq) \in Texts
    BY <1>1, <1>2, HeadTailProperties
<1>4. departed' = Append(departed, Head(mq))
  <2>1. mq[1] = sent[Len(sent) - Len(mq) + 1]
      BY <1>1, <1>3 DEF QueueInv, KernelKeepsOrder
  <2>2. Len(sent) - Len(mq') = Len(sent) - Len(mq) + 1
      BY <1>1, <1>3
  <2>3. SubSeq(sent, base + 1, Len(sent) - Len(mq) + 1)
            = Append(SubSeq(sent, base + 1, Len(sent) - Len(mq)), sent[Len(sent) - Len(mq) + 1])
    <3>1. base \in Nat /\ Len(sent) - Len(mq) \in Nat /\ base <= Len(sent) - Len(mq)
          /\ Len(sent) - Len(mq) < Len(sent)
        BY <1>1, <1>3
    <3> QED
        BY <3>1, <1>1, SubSeqGrows
  <2> QED
      BY <2>1, <2>2, <2>3, <1>1, <1>3 DEF departed
<1>5. answers' = Append(answers, CString(Head(mq)))
  <2>1. received \in Seq(Cut) /\ receiver.local_queue \in Seq(Cut) /\ CString(Head(mq)) \in Cut
      BY <1>3 DEF Cut, QueueInv, KernelKeepsOrder
  <2> QED
      BY <2>1, <1>2, ConcatOfAppend DEF answers
<1>6. departed \in Seq(Texts) /\ answers \in Seq(Cut)
    BY DepartedMessages DEF QueueInv
<1>7. PICK place : Placed(place, departed, answers)
    BY OrderIsPlaced DEF QueueInv
<1>8. \E pl : Placed(pl, departed', answers')
    BY <1>3, <1>4, <1>5, <1>6, <1>7, PlaceOneMore
<1>9. Len(answers') = Len(answers) + 1 /\ Len(departed') = Len(departed) + 1
      /\ Len(answers) \in Nat /\ Len(departed) \in Nat
    BY <1>3, <1>4, <1>5, <1>6, AppendProperties, LenProperties DEF Cut
<1>10. Len(answers') = Len(departed') + IF receiver'.blocking THEN noise' ELSE 0
  <2>1. Len(answers) = Len(departed) + IF receiver.blocking THEN noise ELSE 0
      BY DEF QueueInv, QueueOrder
  <2>2. CASE receiver.blocking
      BY <1>1, <1>9, <2>1, <2>2
  <2>3. CASE ~ receiver.blocking
      BY <1>1, <1>9, <2>1, <2>3
  <2> QED
      BY <2>2, <2>3
<1>11. receiver'.local_queue # <<>>
    BY <1>2, AppendProperties, <1>3 DEF QueueInv, KernelKeepsOrder, Cut
<1> QED
    BY <1>8, <1>10, <1>11 DEF QueueOrder, Placed

(* A signal adds an empty answer, if the server blocks, or none.           *)
LEMMA OrderOfInterrupted ==
    ASSUME QueueInv, KernelKeepsOrder', QueueTypeOK', Interrupted
    PROVE  QueueOrder'
<1>1. mq' = mq /\ sent' = sent /\ base' = base /\ received' = received /\ noise' = noise + 1
      /\ noise \in Nat
    BY MessageQueueAssumption DEF Interrupted, QueueInv, QueueTypeOK, MessageQueueAssumption
<1>2. departed' = departed
    BY <1>1 DEF departed
<1>3. /\ departed \in Seq(Texts) /\ answers \in Seq(Cut)
      /\ received \in Seq(Cut) /\ receiver.local_queue \in Seq(Cut) /\ <<>> \in Cut
      /\ receiver \in [blocking : BOOLEAN, local_queue : Seq(Cut)]
    BY DepartedMessages DEF QueueInv, KernelKeepsOrder, Cut
<1>4. CASE receiver.blocking
  <2>1. receiver'.blocking /\ receiver'.local_queue = Append(receiver.local_queue, <<>>)
      BY <1>3, <1>4 DEF Interrupted
  <2>2. answers' = Append(answers, <<>>)
      BY <1>1, <1>3, <2>1, ConcatOfAppend DEF answers
  <2>3. PICK place : Placed(place, departed, answers)
      BY OrderIsPlaced DEF QueueInv
  <2>4. Placed(place, departed', answers')
      BY <1>2, <1>3, <2>2, <2>3, PlaceNoMore
  <2>5. Len(answers') = Len(answers) + 1 /\ Len(answers) = Len(departed) + noise
    <3>1. <<>> \in Cut /\ answers \in Seq(Cut)
        BY <1>2, <1>3
    <3>2. Len(answers') = Len(answers) + 1
        BY <2>2, <3>1, AppendProperties
    <3> QED
        BY <1>4, <3>2 DEF QueueInv, QueueOrder
  <2>6. Len(answers') = Len(departed') + IF receiver'.blocking THEN noise' ELSE 0
      BY <1>1, <1>2, <1>3, <2>1, <2>5, LenProperties
  <2>7. Append(receiver.local_queue, <<>>) # <<>>
      BY <1>3, AppendProperties
  <2> QED
      BY <2>1, <2>4, <2>6, <2>7 DEF QueueOrder, Placed
<1>5. CASE ~ receiver.blocking
  <2>1. receiver' = receiver /\ (promised' => receiver.local_queue # <<>>)
      BY <1>5 DEF Interrupted
  <2>2. answers' = answers
      BY <1>1, <2>1 DEF answers
  <2> QED
      BY <1>2, <1>5, <2>1, <2>2 DEF QueueInv, QueueOrder
<1> QED
    BY <1>4, <1>5

(* get_msg() moves an answer from the deque to its caller.                 *)
LEMMA OrderOfGetMsg ==
    ASSUME QueueInv, GetMsg
    PROVE  QueueOrder'
<1>1. /\ received \in Seq(Cut) /\ receiver.local_queue \in Seq(Cut) /\ receiver.local_queue # <<>>
      /\ receiver \in [blocking : BOOLEAN, local_queue : Seq(Cut)]
    BY DEF GetMsg, QueueInv, KernelKeepsOrder, QueueOrder
<1>2. /\ received' = Append(received, Head(receiver.local_queue))
      /\ receiver'.local_queue = Tail(receiver.local_queue)
      /\ receiver'.blocking = receiver.blocking /\ noise' = noise /\ ~ promised'
    BY <1>1 DEF GetMsg
<1>3. answers' = answers
    BY <1>1, <1>2, ConcatOfTail DEF answers
<1>4. departed' = departed
    BY DEF GetMsg, departed
<1> QED
    BY <1>2, <1>3, <1>4, OrderKept DEF QueueInv

-----------------------------------------------------------------------------
(* The inductive invariant: QueueOrder needs to know that what is in the   *)
(* kernel's queue is the end of what was sent.                             *)
THEOREM QueueInvariant == QueueSpec => []QueueInv
<1>1. QueueInit => QueueInv
  <2> SUFFICES ASSUME QueueInit PROVE QueueInv
      OBVIOUS
  <2>1. QueueTypeOK /\ KernelKeepsOrder
      BY KernelInit
  <2>2. departed \in Seq(Texts) /\ answers \in Seq(Cut)
        /\ Len(departed) = Len(sent) - Len(mq) - base
        /\ Len(answers) = Len(received) + Len(receiver.local_queue)
      BY <2>1, DepartedMessages
  <2>3. Len(departed) = 0 /\ Len(answers) = 0
      BY <2>2 DEF QueueInit
  <2>4. DOMAIN departed = {} /\ DOMAIN answers = {}
      BY <2>2, <2>3, LenProperties
  <2>5. [i \in {} |-> 0] \in [DOMAIN departed -> DOMAIN answers]
      BY <2>4
  <2>6. \E place \in [DOMAIN departed -> DOMAIN answers] : Placed(place, departed, answers)
      BY <2>4, <2>5 DEF Placed
  <2>7. ~ promised /\ noise = 0
      BY DEF QueueInit
  <2>8. Len(answers) = Len(departed) + IF receiver.blocking THEN noise ELSE 0
      BY <2>3, <2>7
  <2>9. QueueOrder
      BY <2>6, <2>7, <2>8 DEF QueueOrder, Placed
  <2> QED
      BY <2>1, <2>9 DEF QueueInv
<1>2. QueueInv /\ [QueueNext]_queueVars => QueueInv'
  <2> SUFFICES ASSUME QueueInv, [QueueNext]_queueVars PROVE QueueInv'
      OBVIOUS
  <2>1. QueueTypeOK' /\ KernelKeepsOrder'
      BY KernelStep
  <2>2. QueueOrder'
    <3>1. ASSUME NEW blocking \in BOOLEAN, MessageQueueServer(blocking) PROVE QueueOrder'
        BY <2>1, <3>1, OrderOfServer
    <3>2. ASSUME NEW text \in Texts, SendToQueue(text) PROVE QueueOrder'
        BY <2>1, <3>2, OrderOfSend
    <3>3. CASE CheckForMsg
      <4>1. UNCHANGED <<mq, sent, base, received, receiver, noise>> /\ (promised' => promised)
          BY <3>3 DEF CheckForMsg, counts
      <4> QED
          BY <4>1, NothingHappened DEF QueueInv
    <3>4. CASE Receive
        BY <2>1, <3>4, OrderOfReceive
    <3>5. CASE Interrupted
        BY <2>1, <3>5, OrderOfInterrupted
    <3>6. CASE GetMsg
        BY <3>6, OrderOfGetMsg
    <3>7. CASE MessageQueueClient
      <4>1. UNCHANGED <<mq, sent, base, received, receiver, noise>> /\ (promised' => promised)
          BY <3>7 DEF MessageQueueClient, counts
      <4> QED
          BY <4>1, NothingHappened DEF QueueInv
    <3>8. CASE SendMsg
      <4>1. UNCHANGED <<mq, sent, base, received, receiver, noise>> /\ (promised' => promised)
          BY <3>8 DEF SendMsg, counts
      <4> QED
          BY <4>1, NothingHappened DEF QueueInv
    <3>9. CASE UNCHANGED queueVars
      <4>1. UNCHANGED <<mq, sent, base, received, receiver, noise>> /\ (promised' => promised)
          BY <3>9 DEF queueVars, counts
      <4> QED
          BY <4>1, NothingHappened DEF QueueInv
    <3> QED
        BY <3>1, <3>2, <3>3, <3>4, <3>5, <3>6, <3>7, <3>8, <3>9 DEF QueueNext
  <2> QED
      BY <2>1, <2>2 DEF QueueInv
<1> QED
    BY <1>1, <1>2, PTL DEF QueueSpec

(* What was sent arrives, cut at the first NUL, once and in order, but for *)
(* what a server that ended had in its deque; signals add empty messages;  *)
(* and after true there is a message to get.                               *)
THEOREM QueueKeepsOrder == QueueSpec => []QueueOrder
<1>1. QueueInv => QueueOrder
    BY DEF QueueInv
<1> QED
    BY <1>1, QueueInvariant, PTL

-----------------------------------------------------------------------------
(* Parallel: threads and processes.                                        *)

(* A handle is that of a thread or child the object started itself; an     *)
(* object that is or was waited for has one, or a fork() that failed.      *)
HandlesInv ==
    /\ \A o \in Object : pid[o] \in Kid => owner[pid[o]] = o /\ kid[pid[o]] # "none"
    /\ \A o \in Threads : pid[o] # NoChild
    /\ calling \in Object => pid[calling] # NotRun
    /\ joined.call # "none" => joined.object \in Object /\ pid[joined.object] # NotRun

(* Of a clean object *retval is 0 just when its child was waited for and   *)
(* has exited with 0; and nobody waits for any child.                      *)
CleanInv ==
    \A o \in clean :
        /\ pid[o] \in Kid
        /\ \A p \in Processes : pid[p] # NoChild
        /\ ~ address[o].exited =>
             (retval[o] = 0 <=> kid[pid[o]] = "waited for" /\ word[pid[o]] = 0)

ParallelInv == ParallelTypeOK /\ HandlesInv /\ CleanInv /\ JoinAnswers

-----------------------------------------------------------------------------
(* What a wait does: one child, which had ended, is waited for, or none    *)
(* had ended; of a process *retval is stored.                              *)
Waited(o, blocking) ==
    \/ \E k \in Kid :
          /\ k \in WaitedFor(o) /\ kid[k] = "ended"
          /\ kid' = [kid EXCEPT ![k] = "waited for"]
          /\ o \in Processes => retval' = [retval EXCEPT ![o] = Stored(o, blocking, word[k])]
          /\ o \in Threads => retval' = retval
    \/ /\ \A k \in WaitedFor(o) : kid[k] # "ended"
       /\ kid' = kid
       /\ o \in Processes => retval' = [retval EXCEPT ![o] = Stored(o, blocking, retval[o])]
       /\ o \in Threads => retval' = retval

(* An object that was run waits for its own thread or child, or, after a   *)
(* failed fork(), for any.                                                 *)
LEMMA WaitCases ==
    ASSUME ParallelTypeOK, HandlesInv, NEW o \in Object, NEW blocking \in BOOLEAN,
           pid[o] # NotRun, Wait(o, blocking)
    PROVE  /\ Waited(o, blocking)
           /\ WaitedFor(o) \subseteq Kid
           /\ pid[o] \in Kid => WaitedFor(o) = {pid[o]}
           /\ pid[o] \in Kid \/ (pid[o] = NoChild /\ o \in Processes)
           /\ UNCHANGED <<pid, address, owner, word>>
<1> USE ParallelAssumption DEF ParallelAssumption
<1>1. pid[o] \in Kid \/ (pid[o] = NoChild /\ o \in Processes)
    BY DEF ParallelTypeOK, HandlesInv, Object
<1>2. /\ WaitedFor(o) \subseteq Kid
      /\ pid[o] \in Kid => WaitedFor(o) = {pid[o]}
    BY <1>1 DEF WaitedFor, Kid, NoChild
<1>3. Waited(o, blocking)
    BY <1>2 DEF Wait, Waited, Ended, Object
<1> QED
    BY <1>1, <1>2, <1>3 DEF Wait

(* What run() does: a thread or child starts that was not there, or fork() *)
(* fails.                                                                  *)
Started(o, k) ==
    /\ kid[k] = "none"
    /\ kid' = [kid EXCEPT ![k] = "running"] /\ owner' = [owner EXCEPT ![k] = o]
    /\ pid' = [pid EXCEPT ![o] = k]
    /\ \/ clean' = clean \ {o}
       \/ /\ clean' = clean \cup {o}
          /\ o \in Processes /\ retval[o] # 0 /\ \A p \in Processes : pid[p] # NoChild

ForkFailed(o) ==
    /\ o \in Processes
    /\ pid' = [pid EXCEPT ![o] = NoChild]
    /\ clean' = {} /\ kid' = kid /\ owner' = owner

(* A run starts a thread or a child, or fork() fails.                      *)
LEMMA RunCases ==
    ASSUME NEW o \in Object, Run(o)
    PROVE  /\ ForkFailed(o) \/ \E k \in Kid : Started(o, k)
           /\ calling = Nobody /\ joined' = NoAnswer /\ UNCHANGED <<retval, address, word, calling>>
BY DEF Run, Started, ForkFailed

(* Every step keeps the types.                                             *)
LEMMA ParallelTypeStep ==
    ASSUME ParallelTypeOK, HandlesInv, [ParallelNext]_parallelVars
    PROVE  ParallelTypeOK'
<1> USE ParallelAssumption DEF ParallelAssumption, Object
<1>1. ASSUME NEW o \in Object, Run(o)
      PROVE  ParallelTypeOK'
  <2>1. joined' \in [object : Object \cup {Nobody}, call : {"none", "join", "try_join"}, value : BOOLEAN]
        /\ UNCHANGED <<retval, address, word, calling>>
    <3>1. joined' = NoAnswer /\ UNCHANGED <<retval, address, word, calling>>
        BY <1>1, RunCases
    <3> QED
        BY <3>1 DEF NoAnswer
  <2>2. CASE ForkFailed(o)
      BY <2>1, <2>2 DEF ForkFailed, ParallelTypeOK
  <2>3. ASSUME NEW k \in Kid, Started(o, k)
        PROVE  ParallelTypeOK'
    <3>1. clean' \subseteq Processes
        BY <2>3 DEF Started, ParallelTypeOK
    <3>2. /\ pid' \in [Object -> {NotRun, NoChild} \cup Kid]
          /\ kid' \in [Kid -> {"none", "running", "ended", "waited for"}]
          /\ owner' \in [Kid -> Object \cup {Nobody}]
        BY <2>3 DEF Started, ParallelTypeOK
    <3> QED
        BY <2>1, <3>1, <3>2 DEF ParallelTypeOK
  <2> QED
      BY <1>1, <2>2, <2>3, RunCases
<1>2. ASSUME NEW o \in Object, JoinCall(o)
      PROVE  ParallelTypeOK'
    BY <1>2 DEF JoinCall, ParallelTypeOK
<1>3. ASSUME NEW o \in Object, NEW blocking \in BOOLEAN, pid[o] # NotRun, Wait(o, blocking)
      PROVE  kid' \in [Kid -> {"none", "running", "ended", "waited for"}]
             /\ retval' \in [Processes -> Garbage \cup Words \cup {0, 5}]
  <2>1. \A w \in Garbage \cup Words \cup {0, 5} : o \in Processes =>
            Stored(o, blocking, w) \in Garbage \cup Words \cup {0, 5}
      BY DEF Stored, ParallelTypeOK
  <2>2. Waited(o, blocking)
      BY <1>3, WaitCases
  <2>3. kid' \in [Kid -> {"none", "running", "ended", "waited for"}]
      BY <2>2 DEF Waited, ParallelTypeOK
  <2>4. CASE o \in Threads
      BY <2>2, <2>3, <2>4 DEF Waited, ParallelTypeOK
  <2>5. CASE o \in Processes
    <3>1. PICK w \in Garbage \cup Words \cup {0, 5} : retval' = [retval EXCEPT ![o] = Stored(o, blocking, w)]
        BY <2>2, <2>5 DEF Waited, ParallelTypeOK
    <3> QED
        BY <2>1, <2>3, <2>5, <3>1 DEF ParallelTypeOK
  <2> QED
      BY <2>3, <2>4, <2>5
<1>4. ASSUME NEW o \in Object, JoinReturn(o)
      PROVE  ParallelTypeOK'
  <2>1. pid[o] # NotRun /\ Wait(o, TRUE)
      BY <1>4 DEF JoinReturn, HandlesInv
  <2> QED
      BY <1>3, <1>4, <2>1, WaitCases DEF JoinReturn, ParallelTypeOK
<1>5. ASSUME NEW o \in Object, NEW now \in BOOLEAN, TryJoin(o, now)
      PROVE  ParallelTypeOK'
  <2>1. pid[o] # NotRun /\ Wait(o, FALSE)
      BY <1>5 DEF TryJoin, Joinable
  <2>2. TryJoined(o) \in BOOLEAN
      BY DEF TryJoined
  <2>3. joined' \in [object : Object \cup {Nobody}, call : {"none", "join", "try_join"}, value : BOOLEAN]
      BY <1>5, <2>2 DEF TryJoin, NoAnswer
  <2>4. UNCHANGED <<pid, address, owner, word, calling, clean>>
      BY <1>5, <2>1, WaitCases DEF TryJoin
  <2> QED
      BY <1>3, <2>1, <2>3, <2>4 DEF ParallelTypeOK
<1>6. ASSUME NEW k \in Kid, NEW w \in Words, End(k, w)
      PROVE  ParallelTypeOK'
    BY <1>6 DEF End, ParallelTypeOK
<1>7. CASE UNCHANGED parallelVars
    BY <1>7 DEF parallelVars, ParallelTypeOK
<1> QED
    BY <1>1, <1>2, <1>4, <1>5, <1>6, <1>7 DEF ParallelNext

-----------------------------------------------------------------------------
(* Every step keeps the handles.                                           *)
LEMMA HandlesStep ==
    ASSUME ParallelTypeOK, HandlesInv, [ParallelNext]_parallelVars
    PROVE  HandlesInv'
<1> USE ParallelAssumption DEF ParallelAssumption
<1>0. NotRun \notin Kid /\ NoChild \notin Kid /\ NoChild # NotRun /\ NoAnswer.call = "none"
    BY DEF NotRun, NoChild, Kid, NoAnswer
<1>1. ASSUME NEW o \in Object, Run(o)
      PROVE  HandlesInv'
  <2>1. joined'.call = "none" /\ calling' = Nobody /\ Nobody \notin Object
      BY <1>0, <1>1, RunCases DEF Object
  <2>2. CASE ForkFailed(o)
      BY <1>0, <2>1, <2>2 DEF ForkFailed, HandlesInv, ParallelTypeOK, Object
  <2>3. ASSUME NEW k \in Kid, Started(o, k)
        PROVE  HandlesInv'
      BY <1>0, <2>1, <2>3 DEF Started, HandlesInv, ParallelTypeOK, Object
  <2> QED
      BY <1>1, <2>2, <2>3, RunCases
<1>2. ASSUME NEW o \in Object, JoinCall(o)
      PROVE  HandlesInv'
    BY <1>2 DEF JoinCall, Joinable, HandlesInv
<1>3. ASSUME NEW o \in Object, NEW blocking \in BOOLEAN, pid[o] # NotRun, Wait(o, blocking)
      PROVE  /\ \A k \in Kid : kid[k] # "none" => kid'[k] # "none"
             /\ pid' = pid /\ owner' = owner
  <2>1. Waited(o, blocking) /\ pid' = pid /\ owner' = owner
      BY <1>3, WaitCases
  <2> QED
      BY <2>1 DEF Waited, ParallelTypeOK
<1>4. ASSUME NEW o \in Object, JoinReturn(o)
      PROVE  HandlesInv'
  <2>1. pid[o] # NotRun /\ Wait(o, TRUE) /\ calling' = Nobody /\ Nobody \notin Object
        /\ joined'.object = o
      BY <1>4 DEF JoinReturn, HandlesInv
  <2> QED
      BY <1>3, <2>1 DEF HandlesInv
<1>5. ASSUME NEW o \in Object, NEW now \in BOOLEAN, TryJoin(o, now)
      PROVE  HandlesInv'
  <2>1. pid[o] # NotRun /\ Wait(o, FALSE) /\ calling' = calling
        /\ (joined'.object = o \/ joined'.call = "none")
      BY <1>0, <1>5 DEF TryJoin, Joinable
  <2> QED
      BY <1>3, <2>1 DEF HandlesInv
<1>6. ASSUME NEW k \in Kid, NEW w \in Words, End(k, w)
      PROVE  HandlesInv'
    BY <1>6 DEF End, HandlesInv, ParallelTypeOK
<1>7. CASE UNCHANGED parallelVars
    BY <1>7 DEF parallelVars, HandlesInv
<1> QED
    BY <1>1, <1>2, <1>4, <1>5, <1>6, <1>7 DEF ParallelNext

(* A wait leaves what CleanInv says of every clean object, also of the one *)
(* that waits without blocking.                                            *)
LEMMA CleanWait ==
    ASSUME ParallelTypeOK, HandlesInv, CleanInv, NEW o \in Object, NEW blocking \in BOOLEAN,
           pid[o] # NotRun, Wait(o, blocking), NEW c \in clean, blocking => c # o
    PROVE  /\ pid'[c] \in Kid
           /\ \A p \in Processes : pid'[p] # NoChild
           /\ ~ address'[c].exited =>
                (retval'[c] = 0 <=> kid'[pid'[c]] = "waited for" /\ word'[pid'[c]] = 0)
<1> USE ParallelAssumption DEF ParallelAssumption
<1>1. /\ Waited(o, blocking) /\ WaitedFor(o) \subseteq Kid
      /\ pid[o] \in Kid => WaitedFor(o) = {pid[o]}
      /\ pid[o] \in Kid \/ (pid[o] = NoChild /\ o \in Processes)
      /\ UNCHANGED <<pid, address, owner, word>>
    BY WaitCases
<1>2. /\ pid[c] \in Kid /\ \A p \in Processes : pid[p] # NoChild
      /\ c \in Processes /\ c \in Object /\ c \notin Threads
      /\ ~ address[c].exited =>
           (retval[c] = 0 <=> kid[pid[c]] = "waited for" /\ word[pid[c]] = 0)
    BY DEF CleanInv, ParallelTypeOK, Object
<1>3. pid[o] \in Kid /\ WaitedFor(o) = {pid[o]}
    BY <1>1, <1>2
<1>4. SUFFICES ASSUME ~ address[c].exited
               PROVE  retval'[c] = 0 <=> kid'[pid[c]] = "waited for" /\ word[pid[c]] = 0
    BY <1>1, <1>2
<1>5. CASE c # o
  <2>1. pid[c] # pid[o]
      BY <1>2, <1>3, <1>5 DEF HandlesInv
  <2>2. kid'[pid[c]] = kid[pid[c]]
      BY <1>1, <1>2, <1>3, <2>1 DEF Waited, ParallelTypeOK
  <2>3. retval'[c] = retval[c]
      BY <1>1, <1>2, <1>5 DEF Waited, ParallelTypeOK, Object
  <2> QED
      BY <1>2, <1>4, <2>2, <2>3
<1>6. CASE c = o
  <2>1. \A w : Stored(o, blocking, w) = w
      BY <1>4, <1>6 DEF Stored
  <2>2. CASE kid[pid[o]] = "ended"
    <3>1. kid' = [kid EXCEPT ![pid[o]] = "waited for"] /\ retval' = [retval EXCEPT ![o] = word[pid[o]]]
        BY <1>1, <1>2, <1>3, <1>6, <2>1, <2>2 DEF Waited
    <3> QED
        BY <1>2, <1>6, <3>1 DEF ParallelTypeOK
  <2>3. CASE kid[pid[o]] # "ended"
    <3>1. kid' = kid /\ retval' = [retval EXCEPT ![o] = retval[o]]
        BY <1>1, <1>2, <1>3, <1>6, <2>1, <2>3 DEF Waited
    <3> QED
        BY <1>2, <1>4, <1>6, <3>1 DEF ParallelTypeOK
  <2> QED
      BY <2>2, <2>3
<1> QED
    BY <1>5, <1>6

(* Every step keeps the clean objects clean.                               *)
LEMMA CleanStep ==
    ASSUME ParallelTypeOK, HandlesInv, CleanInv, [ParallelNext]_parallelVars
    PROVE  CleanInv'
<1> USE ParallelAssumption DEF ParallelAssumption
<1>0. NotRun \notin Kid /\ NoChild \notin Kid
    BY DEF NotRun, NoChild, Kid
<1>1. ASSUME NEW o \in Object, Run(o)
      PROVE  CleanInv'
  <2>1. retval' = retval /\ address' = address /\ word' = word
      BY <1>1, RunCases
  <2>2. CASE ForkFailed(o)
      BY <2>2 DEF ForkFailed, CleanInv
  <2>3. ASSUME NEW k \in Kid, Started(o, k)
        PROVE  CleanInv'
    <3>1. ASSUME NEW c \in clean', c # o
          PROVE  /\ pid'[c] \in Kid
                 /\ \A p \in Processes : pid'[p] # NoChild
                 /\ ~ address'[c].exited =>
                      (retval'[c] = 0 <=> kid'[pid'[c]] = "waited for" /\ word'[pid'[c]] = 0)
      <4>1. c \in clean /\ c \in Object /\ pid[c] \in Kid /\ kid[pid[c]] # "none"
        <5>1. c \in clean
            BY <2>3, <3>1 DEF Started
        <5>2. c \in Object /\ pid[c] \in Kid
            BY <5>1 DEF CleanInv, ParallelTypeOK, Object
        <5> QED
            BY <5>1, <5>2 DEF HandlesInv
      <4>2. pid'[c] = pid[c] /\ kid'[pid[c]] = kid[pid[c]]
          BY <2>3, <3>1, <4>1 DEF Started, ParallelTypeOK
      <4>3. \A p \in Processes : pid'[p] # NoChild
          BY <1>0, <2>3, <4>1 DEF Started, CleanInv, ParallelTypeOK, Object
      <4> QED
          BY <2>1, <4>1, <4>2, <4>3 DEF CleanInv
    <3>2. ASSUME o \in clean'
          PROVE  /\ pid'[o] \in Kid
                 /\ \A p \in Processes : pid'[p] # NoChild
                 /\ ~ address'[o].exited =>
                      (retval'[o] = 0 <=> kid'[pid'[o]] = "waited for" /\ word'[pid'[o]] = 0)
      <4>1. o \in Processes /\ retval[o] # 0 /\ \A p \in Processes : pid[p] # NoChild
          BY <2>3, <3>2 DEF Started
      <4>2. pid'[o] = k /\ kid'[k] = "running"
          BY <2>3 DEF Started, ParallelTypeOK
      <4>3. \A p \in Processes : pid'[p] # NoChild
          BY <1>0, <2>3, <4>1 DEF Started, ParallelTypeOK, Object
      <4> QED
          BY <2>1, <4>1, <4>2, <4>3
    <3> QED
        BY <3>1, <3>2 DEF CleanInv
  <2> QED
      BY <1>1, <2>2, <2>3, RunCases
<1>2. ASSUME NEW o \in Object, JoinCall(o)
      PROVE  CleanInv'
    BY <1>2 DEF JoinCall, CleanInv
<1>3. ASSUME NEW o \in Object, JoinReturn(o)
      PROVE  CleanInv'
  <2>1. pid[o] # NotRun /\ Wait(o, TRUE) /\ clean' = clean \ {o}
      BY <1>3 DEF JoinReturn, HandlesInv
  <2> QED
      BY <2>1, CleanWait DEF CleanInv
<1>4. ASSUME NEW o \in Object, NEW now \in BOOLEAN, TryJoin(o, now)
      PROVE  CleanInv'
  <2>1. pid[o] # NotRun /\ Wait(o, FALSE) /\ clean' = clean
      BY <1>4 DEF TryJoin, Joinable
  <2> QED
      BY <2>1, CleanWait DEF CleanInv
<1>5. ASSUME NEW k \in Kid, NEW w \in Words, End(k, w)
      PROVE  CleanInv'
    BY <1>5 DEF End, CleanInv, ParallelTypeOK
<1>6. CASE UNCHANGED parallelVars
    BY <1>6 DEF parallelVars, CleanInv
<1> QED
    BY <1>1, <1>2, <1>3, <1>4, <1>5, <1>6 DEF ParallelNext

-----------------------------------------------------------------------------
(* The answer of a call stays true until the next run().                   *)
LEMMA AnswersStep ==
    ASSUME ParallelInv, [ParallelNext]_parallelVars
    PROVE  JoinAnswers'
<1> USE ParallelAssumption DEF ParallelAssumption
<1>0. ParallelTypeOK /\ HandlesInv /\ CleanInv /\ JoinAnswers
    BY DEF ParallelInv
<1>1. ASSUME NEW o \in Object, Run(o)
      PROVE  JoinAnswers'
  <2>1. joined'.call = "none"
    <3>1. joined' = NoAnswer
        BY <1>1, RunCases
    <3> QED
        BY <3>1 DEF NoAnswer
  <2> QED
      BY <2>1 DEF JoinAnswers
<1>2. ASSUME NEW o \in Object, JoinCall(o)
      PROVE  JoinAnswers'
    BY <1>0, <1>2 DEF JoinCall, JoinAnswers
<1>3. ASSUME NEW o \in Object, JoinReturn(o)
      PROVE  JoinAnswers'
  <2>1. /\ pid[o] # NotRun /\ Wait(o, TRUE) /\ joined'.call = "join" /\ joined'.object = o
        /\ Ended(o) # {} \/ Runs(o) = {}
      BY <1>0, <1>3 DEF JoinReturn, HandlesInv
  <2>2. /\ Waited(o, TRUE) /\ pid' = pid /\ (pid[o] \in Kid => WaitedFor(o) = {pid[o]})
      BY <1>0, <2>1, WaitCases
  <2>3. pid[o] \in Kid => kid'[pid[o]] = "waited for"
    <3>1. SUFFICES ASSUME pid[o] \in Kid PROVE kid'[pid[o]] = "waited for"
        OBVIOUS
    <3>2. CASE kid[pid[o]] = "ended"
      <4>1. kid' = [kid EXCEPT ![pid[o]] = "waited for"]
          BY <2>2, <3>1, <3>2 DEF Waited
      <4> QED
          BY <1>0, <3>1, <4>1 DEF ParallelTypeOK
    <3>3. CASE kid[pid[o]] # "ended"
      <4>1. Ended(o) = {}
          BY <2>2, <3>1, <3>3 DEF Ended
      <4>2. kid[pid[o]] # "running" /\ kid[pid[o]] # "none"
          BY <1>0, <2>1, <2>2, <3>1, <4>1 DEF Runs, HandlesInv
      <4>3. kid[pid[o]] = "waited for"
          BY <1>0, <3>1, <3>3, <4>2 DEF ParallelTypeOK
      <4> QED
          BY <2>2, <3>1, <3>3, <4>3 DEF Waited
    <3> QED
        BY <3>2, <3>3
  <2> QED
      BY <2>1, <2>2, <2>3 DEF JoinAnswers
<1>4. ASSUME NEW o \in Object, NEW now \in BOOLEAN, TryJoin(o, now)
      PROVE  JoinAnswers'
  <2>1. /\ pid[o] # NotRun /\ Wait(o, FALSE) /\ clean' = clean
        /\ o \in Threads => kid[pid[o]] # "waited for"
      BY <1>4 DEF TryJoin, Joinable
  <2>2. CASE ~ now
      BY <1>4, <2>2 DEF TryJoin, NoAnswer, JoinAnswers
  <2>3. CASE now
    <3>1. joined'.call = "try_join" /\ joined'.object = o /\ joined'.value = TryJoined(o)
        BY <1>4, <2>3 DEF TryJoin
    <3>2. /\ Waited(o, FALSE) /\ UNCHANGED <<pid, address, owner, word>>
          /\ (pid[o] \in Kid => WaitedFor(o) = {pid[o]})
          /\ pid[o] \in Kid \/ (pid[o] = NoChild /\ o \in Processes)
        BY <1>0, <2>1, WaitCases
    <3>3. CASE o \in Threads
      <4>1. pid[o] \in Kid /\ WaitedFor(o) = {pid[o]}
          BY <3>2, <3>3
      <4>2. TryJoined(o) <=> kid' # kid
          BY <3>3 DEF TryJoined
      <4>3. kid' # kid <=> kid'[pid[o]] = "waited for"
          BY <1>0, <2>1, <3>2, <3>3, <4>1 DEF Waited, ParallelTypeOK
      <4>4. TryJoined(o) = (kid'[pid'[o]] = "waited for")
          BY <3>2, <4>2, <4>3 DEF TryJoined
      <4> QED
          BY <3>1, <3>3, <4>4 DEF JoinAnswers
    <3>4. CASE o \in Processes
      <4>1. o \notin Threads
          BY <3>4
      <4>2. TryJoined(o) = (retval'[o] = 0)
          BY <4>1 DEF TryJoined
      <4>3. ASSUME o \in clean', ~ address'[o].exited
            PROVE  TryJoined(o) = (kid'[pid'[o]] = "waited for" /\ word'[pid'[o]] = 0)
        <5>1. o \in clean /\ ~ address[o].exited
            BY <2>1, <3>2, <4>3
        <5>2. retval'[o] = 0 <=> kid'[pid'[o]] = "waited for" /\ word'[pid'[o]] = 0
            BY <1>0, <2>1, <3>2, <5>1, CleanWait
        <5> QED
            BY <4>2, <5>2
      <4> QED
          BY <3>1, <4>1, <4>3 DEF JoinAnswers
    <3> QED
        BY <3>3, <3>4 DEF Object
  <2> QED
      BY <2>2, <2>3
<1>5. ASSUME NEW k \in Kid, NEW w \in Words, End(k, w)
      PROVE  JoinAnswers'
  <2>1. /\ kid' = [kid EXCEPT ![k] = "ended"] /\ word' = [word EXCEPT ![k] = w] /\ kid[k] = "running"
        /\ UNCHANGED <<pid, address, joined, clean>>
      BY <1>5 DEF End
  <2>2. \A j \in Kid : /\ kid'[j] = "waited for" <=> kid[j] = "waited for"
                       /\ kid[j] = "waited for" => word'[j] = word[j]
      BY <1>0, <2>1 DEF ParallelTypeOK
  <2> DEFINE o == joined.object
  <2>3. joined.call = "join" /\ pid[o] \in Kid => kid'[pid[o]] = "waited for"
      BY <1>0, <2>2 DEF JoinAnswers
  <2>4. ASSUME joined.call = "try_join", o \in Threads
        PROVE  joined.value = (kid'[pid[o]] = "waited for")
    <3>1. pid[o] \in Kid
        BY <1>0, <2>4 DEF HandlesInv, ParallelTypeOK, Object
    <3>2. joined.value = (kid[pid[o]] = "waited for")
        BY <1>0, <2>4 DEF JoinAnswers
    <3> QED
        BY <2>2, <3>1, <3>2
  <2>5. ASSUME joined.call = "try_join", o \in clean, ~ address[o].exited
        PROVE  /\ joined.value => kid'[pid[o]] = "waited for"
               /\ kid'[pid[o]] = "waited for" /\ word'[pid[o]] = 0 => joined.value
    <3>1. pid[o] \in Kid
        BY <1>0, <2>5 DEF CleanInv
    <3>2. /\ joined.value => kid[pid[o]] = "waited for"
          /\ kid[pid[o]] = "waited for" /\ word[pid[o]] = 0 => joined.value
        BY <1>0, <2>5 DEF JoinAnswers
    <3> QED
        BY <2>2, <3>1, <3>2
  <2> HIDE DEF o
  <2> QED
      BY <2>1, <2>3, <2>4, <2>5 DEF JoinAnswers, o
<1>6. CASE UNCHANGED parallelVars
    BY <1>0, <1>6 DEF parallelVars, JoinAnswers
<1> QED
    BY <1>1, <1>2, <1>3, <1>4, <1>5, <1>6 DEF ParallelNext

-----------------------------------------------------------------------------
(* The inductive invariant.                                                *)
THEOREM ParallelInvariant == ParallelSpec => []ParallelInv
<1>1. ParallelInit => ParallelInv
  <2> SUFFICES ASSUME ParallelInit PROVE ParallelInv
      OBVIOUS
  <2> USE ParallelAssumption DEF ParallelAssumption
  <2>1. joined.call = "none" /\ joined \in [object : Object \cup {Nobody}, call : {"none", "join", "try_join"},
                                            value : BOOLEAN]
      BY DEF ParallelInit, NoAnswer
  <2>2. ParallelTypeOK
      BY <2>1 DEF ParallelInit, ParallelTypeOK
  <2>3. HandlesInv
      BY <2>1 DEF ParallelInit, HandlesInv, Object, NotRun, NoChild, Kid
  <2>4. CleanInv /\ JoinAnswers
      BY <2>1 DEF ParallelInit, CleanInv, JoinAnswers
  <2> QED
      BY <2>2, <2>3, <2>4 DEF ParallelInv
<1>2. ParallelInv /\ [ParallelNext]_parallelVars => ParallelInv'
    BY ParallelTypeStep, HandlesStep, CleanStep, AnswersStep DEF ParallelInv
<1> QED
    BY <1>1, <1>2, PTL DEF ParallelSpec

(* When join(true) returns, the thread or child started last has ended; a  *)
(* thread's try_join() tells whether it has; and that of a clean process   *)
(* says so only of a child that has ended, and of one that exited with 0.  *)
THEOREM AnswersOfJoin == ParallelSpec => []JoinAnswers
<1>1. ParallelInv => JoinAnswers
    BY DEF ParallelInv
<1> QED
    BY <1>1, ParallelInvariant, PTL

-----------------------------------------------------------------------------
(* Sockets.                                                                *)

-----------------------------------------------------------------------------
(* Descriptors.                                                            *)

(* A descriptor that was free is taken.                                    *)
LEMMA FreeFdIsFree ==
    ASSUME FreeFds # {}
    PROVE  FreeFd \in Fd /\ table[FreeFd] = Closed
<1>1. FreeFds \subseteq Nat
    BY SocketsAssumption DEF FreeFds
<1>2. \E f \in FreeFds : \A g \in FreeFds : f <= g
    BY <1>1, LeastElement
<1>3. FreeFd \in FreeFds
    BY <1>2 DEF FreeFd
<1> QED
    BY <1>3 DEF FreeFds

-----------------------------------------------------------------------------
(* What a connection carries: w is what its peer has written, b what is    *)
(* still to read of it, g what get() returned, h what of the a characters  *)
(* that send() was asked for was written.                                  *)
Ordered(q) == \A i, j \in 1..Len(q) : i < j => q[i] < q[j]

Consumed(w, b) == Len(w) - Len(b)

Read(w, b, g) ==
    /\ w \in Seq(Int) /\ b \in Seq(Int) /\ g \in Seq(Int)
    /\ Len(b) <= Len(w)
    /\ \A i \in 1..Len(w) : w[i] = i \/ w[i] = -i
    /\ \A j \in 1..Len(b) : b[j] = w[Consumed(w, b) + j]
    /\ Ordered(g)
    /\ \A i \in 1..Len(g) : g[i] \in 1..Consumed(w, b) /\ w[g[i]] = g[i]
    /\ (\A i \in 1..Len(w) : w[i] > 0) =>
          Len(g) = Consumed(w, b) /\ \A i \in 1..Consumed(w, b) : g[i] = i

Sending(h, a) ==
    /\ h \in Seq(Int) /\ a \in Nat
    /\ Ordered(h) /\ \A i \in 1..Len(h) : h[i] \in 1..a

Traffic ==
    /\ wrote \in [Conn -> Seq(Int)] /\ inbox \in [Conn -> Seq(Int)]
    /\ got \in [Conn -> Seq(Int)]
    /\ heard \in [Conn -> Seq(Int)] /\ asked \in [Conn -> Nat]
    /\ \A c \in Conn : Read(wrote[c], inbox[c], got[c]) /\ Sending(heard[c], asked[c])

(* The peer writes one more character.                                     *)
LEMMA ReadMore ==
    ASSUME NEW w, NEW b, NEW g, Read(w, b, g), NEW v, v \in {Len(w) + 1, -(Len(w) + 1)}
    PROVE  Read(Append(w, v), Append(b, v), g)
<1> DEFINE ww == Append(w, v)
           bb == Append(b, v)
           n == Consumed(w, b)
<1>1. /\ w \in Seq(Int) /\ b \in Seq(Int) /\ g \in Seq(Int) /\ Len(b) <= Len(w)
      /\ Len(w) \in Nat /\ Len(b) \in Nat /\ Len(g) \in Nat /\ v \in Int
    BY DEF Read
<1>2. /\ ww \in Seq(Int) /\ Len(ww) = Len(w) + 1
      /\ \A i \in 1..Len(w) : ww[i] = w[i]
      /\ ww[Len(w) + 1] = v
    BY <1>1
<1>3. /\ bb \in Seq(Int) /\ Len(bb) = Len(b) + 1
      /\ \A i \in 1..Len(b) : bb[i] = b[i]
      /\ bb[Len(b) + 1] = v
    BY <1>1
<1> HIDE DEF ww, bb
<1>4. Consumed(ww, bb) = n /\ n \in Nat /\ n = Len(w) - Len(b)
    BY <1>1, <1>2, <1>3 DEF Consumed
<1>5. \A i \in 1..Len(ww) : ww[i] = i \/ ww[i] = -i
  <2>1. ASSUME NEW i \in 1..Len(ww) PROVE ww[i] = i \/ ww[i] = -i
    <3>1. CASE i \in 1..Len(w)
        BY <1>2, <3>1 DEF Read
    <3>2. CASE i = Len(w) + 1
        BY <1>1, <1>2, <3>2
    <3> QED
        BY <1>1, <1>2, <3>1, <3>2
  <2> QED
      BY <2>1
<1>6. ASSUME NEW j \in 1..Len(bb)
      PROVE  bb[j] = ww[n + j]
  <2>1. CASE j \in 1..Len(b)
    <3>1. n + j \in 1..Len(w)
        BY <1>1, <1>4, <2>1
    <3>2. b[j] = w[n + j]
        BY <2>1 DEF Read
    <3> QED
        BY <1>2, <1>3, <2>1, <3>1, <3>2
  <2>2. CASE j = Len(b) + 1
    <3>1. n + j = Len(w) + 1
        BY <1>1, <1>4, <2>2
    <3> QED
        BY <1>2, <1>3, <2>2, <3>1
  <2> QED
      BY <1>1, <1>3, <2>1, <2>2
<1>7. \A i \in 1..Len(g) : g[i] \in 1..n /\ ww[g[i]] = g[i]
  <2>1. ASSUME NEW i \in 1..Len(g) PROVE g[i] \in 1..n /\ ww[g[i]] = g[i]
    <3>1. g[i] \in 1..n /\ w[g[i]] = g[i]
        BY DEF Read
    <3>2. g[i] \in 1..Len(w)
        BY <1>1, <1>4, <3>1
    <3> QED
        BY <1>2, <3>1, <3>2
  <2> QED
      BY <2>1
<1>8. ASSUME \A i \in 1..Len(ww) : ww[i] > 0
      PROVE  Len(g) = n /\ \A i \in 1..n : g[i] = i
  <2>1. \A i \in 1..Len(w) : w[i] > 0
      BY <1>1, <1>2, <1>8
  <2> QED
      BY <2>1 DEF Read
<1>9. Ordered(g)
    BY DEF Read
<1>10. Len(bb) <= Len(ww)
    BY <1>1, <1>2, <1>3
<1> HIDE DEF n
<1>11. Read(ww, bb, g)
    BY <1>1, <1>2, <1>3, <1>4, <1>5, <1>6, <1>7, <1>8, <1>9, <1>10, Zenon DEF Read
<1> QED
    BY <1>11 DEF ww, bb

(* UpToNUL() takes a string as far as it has no NUL.                       *)
LEMMA UpToNULPrefix ==
    ASSUME NEW text \in Seq(Int)
    PROVE  \E m \in 0..Len(text) :
              /\ UpToNUL(text) \in Seq(Int) /\ Len(UpToNUL(text)) = m
              /\ \A i \in 1..m : UpToNUL(text)[i] = text[i] /\ text[i] >= 0
              /\ m < Len(text) => text[m + 1] < 0
<1> DEFINE more == Append(text, -1)
           I == {i \in 1..Len(more) : more[i] < 0}
<1>1. /\ more \in Seq(Int) /\ Len(more) = Len(text) + 1 /\ Len(text) \in Nat
      /\ \A i \in 1..Len(text) : more[i] = text[i]
      /\ more[Len(text) + 1] = -1
    OBVIOUS
<1> HIDE DEF more
<1>2. I \subseteq 1..Len(text) + 1 /\ Len(text) + 1 \in I
    BY <1>1
<1>3. Min(I) \in I /\ \A i \in I : Min(I) <= i
  <2> DEFINE k == Len(text) + 1
  <2>1. I \subseteq 1..k /\ I # {} /\ k \in Int /\ 1 \in Int
      BY <1>1, <1>2
  <2> HIDE DEF I, k
  <2> QED
      BY <2>1, MinAndMax
<1> DEFINE m == Min(I) - 1
<1>4. SelectInSeq(more, LAMBDA c : c < 0) = Min(I)
    BY <1>2 DEF SelectInSeq
<1>5. UpToNUL(text) = SubSeq(text, 1, m)
    BY <1>4 DEF UpToNUL, more
<1>6. m \in 0..Len(text) /\ m + 1 \in I /\ m + 1 = Min(I)
    BY <1>1, <1>3
<1>7. \A i \in 1..m : i \notin I
  <2>1. ASSUME NEW i \in 1..m, i \in I PROVE FALSE
    <3>1. Min(I) <= i
        BY <1>3, <2>1
    <3> HIDE DEF I
    <3> QED
        BY <1>1, <1>6, <3>1
  <2> QED
      BY <2>1
<1> HIDE DEF m
<1>8. \A i \in 1..m : text[i] >= 0
  <2>1. ASSUME NEW i \in 1..m PROVE text[i] >= 0
    <3>1. i \in 1..Len(text) /\ i \in 1..Len(more)
        BY <1>1, <1>6
    <3>2. ~ (more[i] < 0) /\ more[i] = text[i] /\ text[i] \in Int
        BY <1>1, <1>7, <3>1
    <3> QED
        BY <3>2
  <2> QED
      BY <2>1
<1>9. m < Len(text) => text[m + 1] < 0
  <2>1. more[m + 1] < 0
      BY <1>6
  <2>2. m < Len(text) => m + 1 \in 1..Len(text)
      BY <1>1, <1>6
  <2> QED
      BY <1>1, <2>1, <2>2
<1>10. \A i \in 1..m : text[i] \in Int
    BY <1>6
<1>11. /\ SubSeq(text, 1, m) \in Seq(Int)
       /\ Len(SubSeq(text, 1, m)) = m
       /\ \A i \in 1..m : SubSeq(text, 1, m)[i] = text[i]
    BY <1>6, <1>10, SubSeqProperties
<1> QED
    BY <1>5, <1>6, <1>8, <1>9, <1>11

(* k characters are read, and returned up to a NUL.                        *)
LEMMA ReadOn ==
    ASSUME NEW w, NEW b, NEW g, Read(w, b, g), NEW k \in 0..Len(b)
    PROVE  Read(w, SubSeq(b, k + 1, Len(b)), g \o UpToNUL(SubSeq(b, 1, k)))
<1> DEFINE n == Consumed(w, b)
           text == SubSeq(b, 1, k)
           rest == SubSeq(b, k + 1, Len(b))
           u == UpToNUL(text)
           gg == g \o u
<1>0. /\ w \in Seq(Int) /\ b \in Seq(Int) /\ g \in Seq(Int) /\ Len(b) <= Len(w)
      /\ n = Len(w) - Len(b)
    BY DEF Read, Consumed
<1>1. /\ w \in Seq(Int) /\ b \in Seq(Int) /\ g \in Seq(Int) /\ Len(b) <= Len(w)
      /\ Len(w) \in Nat /\ Len(b) \in Nat /\ Len(g) \in Nat
      /\ n = Len(w) - Len(b) /\ n \in Nat /\ k \in Nat /\ k <= Len(b)
  <2> HIDE DEF n
  <2>1. Len(w) \in Nat /\ Len(b) \in Nat /\ Len(g) \in Nat
      BY <1>0
  <2> QED
      BY <1>0, <2>1
<1> HIDE DEF n
<1>2. /\ text \in Seq(Int) /\ Len(text) = k
      /\ \A i \in 1..k : text[i] = b[i]
  <2>1. \A i \in 1..k : b[i] \in Int
      BY <1>1
  <2> QED
      BY <1>1, <2>1, SubSeqProperties
<1>3. /\ rest \in Seq(Int) /\ Len(rest) = Len(b) - k
      /\ \A i \in 1..Len(b) - k : rest[i] = b[k + i]
  <2>1. \A i \in k + 1..Len(b) : b[i] \in Int
      BY <1>1
  <2>2. /\ rest \in Seq(Int)
        /\ Len(rest) = IF k + 1 <= Len(b) THEN Len(b) - (k + 1) + 1 ELSE 0
        /\ \A i \in 1..Len(b) - (k + 1) + 1 : rest[i] = b[(k + 1) + i - 1]
      BY <1>1, <2>1, SubSeqProperties
  <2> HIDE DEF rest
  <2>3. ASSUME NEW i \in 1..Len(b) - k PROVE rest[i] = b[k + i]
    <3>1. i \in 1..Len(b) - (k + 1) + 1 /\ (k + 1) + i - 1 = k + i
        BY <1>1
    <3>2. rest[i] = b[(k + 1) + i - 1]
        BY <2>2, <3>1
    <3> QED
        BY <3>1, <3>2
  <2> QED
      BY <1>1, <2>2, <2>3
<1> HIDE DEF text, rest
<1>4. PICK m \in 0..k :
         /\ u \in Seq(Int) /\ Len(u) = m
         /\ \A i \in 1..m : u[i] = text[i] /\ text[i] >= 0
         /\ m < k => text[m + 1] < 0
    BY <1>2, UpToNULPrefix
<1> HIDE DEF u
<1>5. Consumed(w, rest) = n + k
    BY <1>1, <1>3 DEF Consumed
<1>6. \A i \in 1..k : /\ text[i] = w[n + i] /\ n + i \in 1..Len(w)
                      /\ w[n + i] = n + i \/ w[n + i] = -(n + i)
  <2>1. ASSUME NEW i \in 1..k
        PROVE  /\ text[i] = w[n + i] /\ n + i \in 1..Len(w)
               /\ w[n + i] = n + i \/ w[n + i] = -(n + i)
    <3>1. i \in 1..Len(b) /\ n + i \in 1..Len(w)
        BY <1>1
    <3>2. b[i] = w[n + i]
        BY <3>1 DEF Read, n
    <3>3. w[n + i] = n + i \/ w[n + i] = -(n + i)
        BY <3>1 DEF Read
    <3> QED
        BY <1>2, <3>1, <3>2, <3>3
  <2> QED
      BY <2>1
<1>7. \A i \in 1..m : u[i] = n + i /\ w[n + i] = n + i
  <2>1. ASSUME NEW i \in 1..m PROVE u[i] = n + i /\ w[n + i] = n + i
    <3>1. i \in 1..k
        BY <1>1, <1>4
    <3>2. u[i] = text[i] /\ text[i] >= 0
        BY <1>4
    <3>3. w[n + i] >= 0 /\ (w[n + i] = n + i \/ w[n + i] = -(n + i))
        BY <1>6, <3>1, <3>2
    <3> DEFINE p == n + i
               v == w[n + i]
    <3>5. p \in Nat /\ p > 0
        BY <1>1, <3>1
    <3>7. v >= 0 /\ (v = p \/ v = -p)
        BY <3>3
    <3> HIDE DEF p, v
    <3>6. v = p
        BY <3>5, <3>7
    <3>4. w[n + i] = n + i
        BY <3>6 DEF p, v
    <3> QED
        BY <1>6, <3>1, <3>2, <3>4
  <2> QED
      BY <2>1
<1>8. /\ gg \in Seq(Int) /\ Len(gg) = Len(g) + m
      /\ \A i \in 1..Len(g) : gg[i] = g[i]
      /\ \A i \in 1..Len(g) + m : i > Len(g) => gg[i] = n + (i - Len(g))
  <2>1. /\ gg \in Seq(Int) /\ Len(gg) = Len(g) + m
        /\ \A i \in 1..Len(g) + m : gg[i] = IF i <= Len(g) THEN g[i] ELSE u[i - Len(g)]
    <3>1. g \in Seq(Int) /\ u \in Seq(Int) /\ Len(u) = m
        BY <1>1, <1>4
    <3> QED
        BY <3>1, ConcatProperties
  <2>2. \A i \in 1..Len(g) : gg[i] = g[i]
      BY <1>1, <1>4, <2>1
  <2>3. ASSUME NEW i \in 1..Len(g) + m, i > Len(g) PROVE gg[i] = n + (i - Len(g))
    <3>1. i - Len(g) \in 1..m
        BY <1>1, <1>4, <2>3
    <3>2. gg[i] = u[i - Len(g)]
        BY <1>1, <1>4, <2>1, <2>3
    <3> QED
        BY <1>7, <3>1, <3>2
  <2> QED
      BY <2>1, <2>2, <2>3
<1> HIDE DEF gg
<1>9. \A i \in 1..Len(g) : g[i] \in 1..n /\ w[g[i]] = g[i]
    BY DEF Read, n
<1>10. \A i \in 1..Len(gg) : gg[i] \in 1..n + k /\ w[gg[i]] = gg[i]
  <2>1. ASSUME NEW i \in 1..Len(gg) PROVE gg[i] \in 1..n + k /\ w[gg[i]] = gg[i]
    <3>1. CASE i <= Len(g)
      <4>1. gg[i] = g[i] /\ g[i] \in 1..n /\ w[g[i]] = g[i]
          BY <1>1, <1>8, <1>9, <3>1
      <4> QED
          BY <1>1, <4>1
    <3>2. CASE i > Len(g)
      <4>1. gg[i] = n + (i - Len(g)) /\ i - Len(g) \in 1..m
          BY <1>1, <1>4, <1>8, <3>2
      <4>2. w[n + (i - Len(g))] = n + (i - Len(g))
          BY <1>7, <4>1
      <4> QED
          BY <1>1, <1>4, <4>1, <4>2
    <3> QED
        BY <1>1, <1>8, <3>1, <3>2
  <2> QED
      BY <2>1
<1>11. Ordered(gg)
  <2>1. ASSUME NEW i \in 1..Len(gg), NEW j \in 1..Len(gg), i < j
        PROVE  gg[i] < gg[j]
    <3>1. CASE j <= Len(g)
      <4>1. i \in 1..Len(g) /\ j \in 1..Len(g)
          BY <1>1, <1>8, <2>1, <3>1
      <4>2. g[i] < g[j]
          BY <2>1, <4>1 DEF Read, Ordered
      <4> QED
          BY <1>8, <4>1, <4>2
    <3>2. CASE j > Len(g) /\ i <= Len(g)
      <4>0. Len(g) \in Nat /\ i \in Nat /\ j \in Nat /\ i >= 1
          BY <1>1, <2>1
      <4>1. i \in 1..Len(g) /\ j - Len(g) \in Nat /\ j - Len(g) > 0
          BY <3>2, <4>0
      <4>2. gg[i] = g[i] /\ g[i] \in 1..n
          BY <1>8, <1>9, <4>1
      <4>3. gg[j] = n + (j - Len(g))
          BY <1>8, <3>2
      <4> QED
          BY <1>1, <4>1, <4>2, <4>3
    <3>3. CASE j > Len(g) /\ i > Len(g)
      <4>1. i \in 1..Len(g) + m /\ j \in 1..Len(g) + m
          BY <1>8
      <4>2. gg[i] = n + (i - Len(g)) /\ gg[j] = n + (j - Len(g))
          BY <1>8, <3>3, <4>1
      <4> QED
          BY <1>1, <2>1, <4>2
    <3>4. i \in Int /\ j \in Int /\ Len(g) \in Int
        BY <1>1
    <3> QED
        BY <3>1, <3>2, <3>3, <3>4
  <2> QED
      BY <2>1 DEF Ordered
<1>12. \A j \in 1..Len(rest) : rest[j] = w[(n + k) + j]
  <2>1. ASSUME NEW j \in 1..Len(rest) PROVE rest[j] = w[(n + k) + j]
    <3>1. k + j \in 1..Len(b) /\ n + (k + j) = (n + k) + j /\ j \in 1..Len(b) - k
        BY <1>1, <1>3
    <3>2. b[k + j] = w[n + (k + j)]
        BY <3>1 DEF Read, n
    <3> QED
        BY <1>3, <3>1, <3>2
  <2> QED
      BY <2>1
<1>13. ASSUME \A i \in 1..Len(w) : w[i] > 0
       PROVE  Len(gg) = n + k /\ \A i \in 1..n + k : gg[i] = i
  <2>1. Len(g) = n /\ \A i \in 1..n : g[i] = i
      BY <1>13 DEF Read, n
  <2>2. m = k
    <3>1. ASSUME m < k PROVE FALSE
      <4>1. m + 1 \in 1..k
          BY <1>1, <1>4, <3>1
      <4>2. text[m + 1] < 0
          BY <1>4, <3>1
      <4> DEFINE p == n + (m + 1)
      <4>3. w[p] < 0 /\ p \in 1..Len(w)
          BY <1>6, <4>1, <4>2
      <4> HIDE DEF p
      <4>4. w[p] \in Int /\ w[p] > 0
          BY <1>1, <1>13, <4>3
      <4> QED
          BY <4>3, <4>4
    <3> QED
        BY <1>1, <1>4, <3>1
  <2>3. ASSUME NEW i \in 1..n + k PROVE gg[i] = i
    <3>1. CASE i <= n
      <4>1. i \in 1..n /\ i \in 1..Len(g)
          BY <1>1, <2>1, <3>1
      <4> QED
          BY <1>8, <2>1, <4>1
    <3>2. CASE i > n
      <4>1. gg[i] = n + (i - n)
          BY <1>1, <1>8, <2>1, <2>2, <3>2
      <4> QED
          BY <1>1, <4>1
    <3> QED
        BY <1>1, <3>1, <3>2
  <2> QED
      BY <1>1, <1>8, <2>1, <2>2, <2>3
<1>14. Len(rest) <= Len(w)
    BY <1>1, <1>3
<1>15. \A i \in 1..Len(w) : w[i] = i \/ w[i] = -i
    BY DEF Read
<1>16. Read(w, rest, gg)
    BY <1>1, <1>3, <1>5, <1>8, <1>10, <1>11, <1>12, <1>13, <1>14, <1>15, Zenon DEF Read
<1> QED
    BY <1>16 DEF rest, gg, u, text

(* send() writes the first of the characters it is asked to send.          *)
LEMMA SendOn ==
    ASSUME NEW h, NEW a, Sending(h, a), NEW len \in Nat, NEW n \in 1..len
    PROVE  Sending(h \o [i \in 1..n |-> a + i], a + len)
<1> DEFINE data == [i \in 1..n |-> a + i]
           hh == h \o data
<1>1. h \in Seq(Int) /\ a \in Nat /\ Len(h) \in Nat
    BY DEF Sending
<1>2. data \in Seq(Int) /\ Len(data) = n /\ \A i \in 1..n : data[i] = a + i
    BY <1>1
<1> HIDE DEF data
<1>3. /\ hh \in Seq(Int) /\ Len(hh) = Len(h) + n
      /\ \A i \in 1..Len(h) + n : hh[i] = IF i <= Len(h) THEN h[i] ELSE data[i - Len(h)]
    BY <1>1, <1>2, ConcatProperties
<1> HIDE DEF hh
<1>4. \A i \in 1..Len(h) : hh[i] = h[i] /\ h[i] \in 1..a
    BY <1>1, <1>3 DEF Sending
<1>5. ASSUME NEW i \in 1..Len(hh), i > Len(h) PROVE hh[i] = a + (i - Len(h)) /\ i - Len(h) \in 1..n
  <2>1. i - Len(h) \in 1..n /\ ~ (i <= Len(h)) /\ i \in 1..Len(h) + n
      BY <1>1, <1>3, <1>5
  <2> QED
      BY <1>2, <1>3, <2>1
<1>6. \A i \in 1..Len(hh) : hh[i] \in 1..a + len
  <2>1. ASSUME NEW i \in 1..Len(hh) PROVE hh[i] \in 1..a + len
    <3>1. CASE i <= Len(h)
      <4>1. i \in 1..Len(h)
          BY <1>1, <3>1
      <4>2. hh[i] \in 1..a
          BY <1>4, <4>1
      <4> QED
          BY <1>1, <4>2
    <3>2. CASE i > Len(h)
        BY <1>1, <1>5, <3>2
    <3> QED
        BY <1>1, <1>3, <3>1, <3>2
  <2> QED
      BY <2>1
<1>7. Ordered(hh)
  <2>1. ASSUME NEW i \in 1..Len(hh), NEW j \in 1..Len(hh), i < j
        PROVE  hh[i] < hh[j]
    <3>1. CASE j <= Len(h)
      <4>1. i \in 1..Len(h) /\ j \in 1..Len(h)
          BY <1>1, <1>3, <2>1, <3>1
      <4>2. h[i] < h[j]
          BY <2>1, <4>1 DEF Sending, Ordered
      <4> QED
          BY <1>4, <4>1, <4>2
    <3>2. CASE j > Len(h) /\ i <= Len(h)
      <4>1. i \in 1..Len(h)
          BY <1>1, <3>2
      <4>2. hh[i] \in 1..a /\ hh[j] = a + (j - Len(h)) /\ j - Len(h) \in 1..n
          BY <1>4, <1>5, <3>2, <4>1
      <4> QED
          BY <1>1, <4>2
    <3>3. CASE j > Len(h) /\ i > Len(h)
      <4>1. hh[i] = a + (i - Len(h)) /\ hh[j] = a + (j - Len(h))
          BY <1>5, <3>3
      <4> QED
          BY <1>1, <1>3, <2>1, <4>1
    <3> QED
        BY <1>1, <1>3, <3>1, <3>2, <3>3
  <2> QED
      BY <2>1 DEF Ordered
<1>8. a + len \in Nat
    BY <1>1
<1>9. Sending(hh, a + len)
    BY <1>3, <1>6, <1>7, <1>8 DEF Sending
<1> QED
    BY <1>9 DEF hh, data

(* The property that the characters keep their order, of one connection.   *)
LEMMA OrderOfTraffic ==
    ASSUME Traffic, NEW c \in Conn
    PROVE  /\ Increasing(got[c]) /\ ToSet(got[c]) \subseteq ToSet(wrote[c]) \ ToSet(inbox[c])
           /\ (\A i \in DOMAIN wrote[c] : wrote[c][i] > 0) => got[c] \o inbox[c] = wrote[c]
           /\ Increasing(heard[c]) /\ ToSet(heard[c]) \subseteq 1..asked[c]
<1> DEFINE w == wrote[c]
           b == inbox[c]
           g == got[c]
           h == heard[c]
           n == Consumed(w, b)
<1>1. Read(w, b, g) /\ Sending(h, asked[c])
    BY DEF Traffic
<1> HIDE DEF w, b, g, h
<1>2. w \in Seq(Int) /\ b \in Seq(Int) /\ g \in Seq(Int) /\ h \in Seq(Int)
    BY <1>1 DEF Read, Sending
<1>3. /\ Len(w) \in Nat /\ Len(b) \in Nat /\ Len(g) \in Nat /\ Len(h) \in Nat
      /\ DOMAIN w = 1..Len(w) /\ DOMAIN b = 1..Len(b) /\ DOMAIN g = 1..Len(g)
      /\ DOMAIN h = 1..Len(h)
    BY <1>2
<1>4. n \in Nat /\ n + Len(b) = Len(w)
  <2>1. Len(b) <= Len(w)
      BY <1>1 DEF Read
  <2>2. Len(w) \in Nat /\ Len(b) \in Nat
      BY <1>2
  <2> QED
      BY <2>1, <2>2 DEF Consumed
<1> HIDE DEF n
<1>5. Increasing(g) /\ Increasing(h)
    BY <1>1, <1>3 DEF Read, Sending, Ordered, Increasing
<1>6. ToSet(h) \subseteq 1..asked[c]
    BY <1>1, <1>3 DEF Sending, ToSet
<1>7. ASSUME NEW v \in ToSet(g) PROVE v \in ToSet(w) \ ToSet(b)
  <2>1. PICK i \in 1..Len(g) : g[i] = v
      BY <1>3 DEF ToSet
  <2>2. v \in 1..n /\ w[v] = v
      BY <1>1, <2>1 DEF Read, n
  <2>3. v \in ToSet(w)
      BY <1>3, <1>4, <2>2 DEF ToSet
  <2>4. ASSUME NEW j \in 1..Len(b), b[j] = v PROVE FALSE
    <3>1. n + j \in 1..Len(w) /\ v \in Nat /\ v < n + j /\ v > 0
        BY <1>3, <1>4, <2>2
    <3>2. b[j] = w[n + j]
        BY <1>1 DEF Read, n
    <3>3. w[n + j] = n + j \/ w[n + j] = -(n + j)
        BY <1>1, <3>1 DEF Read
    <3> DEFINE p == n + j
    <3>4. p \in Nat /\ (v = p \/ v = -p) /\ v < p
        BY <1>4, <2>4, <3>1, <3>2, <3>3
    <3> HIDE DEF p
    <3> QED
        BY <3>1, <3>4
  <2>5. v \notin ToSet(b)
      BY <1>3, <2>4 DEF ToSet
  <2> QED
      BY <2>3, <2>5
<1>8. ASSUME \A i \in DOMAIN w : w[i] > 0
      PROVE  g \o b = w
  <2>1. Len(g) = n /\ \A i \in 1..n : g[i] = i
      BY <1>1, <1>3, <1>8 DEF Read, n
  <2>2. /\ g \o b \in Seq(Int) /\ Len(g \o b) = Len(g) + Len(b)
        /\ \A i \in 1..Len(g) + Len(b) : (g \o b)[i] = IF i <= Len(g) THEN g[i] ELSE b[i - Len(g)]
      BY <1>2, ConcatProperties
  <2>3. ASSUME NEW i \in 1..Len(w) PROVE (g \o b)[i] = w[i]
    <3>1. CASE i <= n
      <4>1. i \in 1..n /\ i \in 1..Len(g) + Len(b) /\ i <= Len(g)
          BY <1>3, <1>4, <2>1, <3>1
      <4>2. g[i] = i /\ w[g[i]] = g[i]
          BY <1>1, <2>1, <4>1 DEF Read
      <4> QED
          BY <2>2, <4>1, <4>2
    <3>2. CASE i > n
      <4>1. i - n \in 1..Len(b) /\ i \in 1..Len(g) + Len(b) /\ ~ (i <= Len(g))
          BY <1>3, <1>4, <2>1, <3>2
      <4>3. b[i - n] = w[n + (i - n)]
          BY <1>1, <4>1 DEF Read, n
      <4>2. b[i - n] = w[n + (i - n)] /\ n + (i - n) = i
          BY <1>4, <4>3
      <4> QED
          BY <2>1, <2>2, <4>1, <4>2
    <3>3. i \in Int /\ n \in Int
        BY <1>4
    <3>4. i <= n \/ i > n
        BY <3>3
    <3> QED
        BY <3>1, <3>2, <3>4, Zenon
  <2>4. Len(g \o b) = Len(w)
      BY <1>3, <1>4, <2>1, <2>2
  <2> QED
      BY <1>2, <2>2, <2>3, <2>4, SeqEqual
<1> QED
    BY <1>5, <1>6, <1>7, <1>8 DEF w, b, g, h

-----------------------------------------------------------------------------
(* Every step keeps Traffic.                                               *)
LEMMA TrafficInit == SocketsInit => Traffic
<1> SUFFICES ASSUME SocketsInit PROVE Traffic
    OBVIOUS
<1>1. /\ inbox = [c \in Conn |-> <<>>] /\ wrote = [c \in Conn |-> <<>>]
      /\ got = [c \in Conn |-> <<>>] /\ heard = [c \in Conn |-> <<>>]
      /\ asked = [c \in Conn |-> 0]
    BY DEF SocketsInit
<1>2. <<>> \in Seq(Int) /\ Len(<<>>) = 0
    OBVIOUS
<1>3. Read(<<>>, <<>>, <<>>) /\ Sending(<<>>, 0)
    BY <1>2 DEF Read, Sending, Ordered, Consumed
<1> QED
    BY <1>1, <1>2, <1>3 DEF Traffic

(* What is written is numbered on, what is read and sent is a part of it. *)
LEMMA TrafficStep ==
    ASSUME Traffic, [SocketsNext]_socketsVars
    PROVE  Traffic'
<1>1. CASE UNCHANGED <<inbox, wrote, got, asked, heard>>
    BY <1>1 DEF Traffic
<1>2. ASSUME NEW c \in Conn, NEW sign \in {1, -1}, PeerWrites(c, sign)
      PROVE  Traffic'
  <2> DEFINE v == sign * (Len(wrote[c]) + 1)
  <2>1. /\ wrote' = [wrote EXCEPT ![c] = Append(wrote[c], v)]
        /\ inbox' = [inbox EXCEPT ![c] = Append(inbox[c], v)]
        /\ UNCHANGED <<got, asked, heard>>
      BY <1>2 DEF PeerWrites
  <2>2. Read(wrote[c], inbox[c], got[c]) /\ wrote[c] \in Seq(Int)
      BY DEF Traffic
  <2>3. v \in {Len(wrote[c]) + 1, -(Len(wrote[c]) + 1)}
      BY <2>2
  <2> HIDE DEF v
  <2>4. Read(Append(wrote[c], v), Append(inbox[c], v), got[c])
      BY <2>2, <2>3, ReadMore
  <2>5. Append(wrote[c], v) \in Seq(Int) /\ Append(inbox[c], v) \in Seq(Int)
      BY <2>4 DEF Read
  <2> QED
      BY <2>1, <2>4, <2>5 DEF Traffic
<1>3. ASSUME NEW fd \in Fd, NEW len \in 1..MaxChar, Get(fd, len)
      PROVE  Traffic'
  <2>1. CASE ~ Readable(fd)
      BY <1>1, <1>3, <2>1 DEF Get
  <2>2. CASE Readable(fd)
    <3> DEFINE c == table[fd]
               k == IF len < Len(inbox[c]) THEN len ELSE Len(inbox[c])
               u == UpToNUL(SubSeq(inbox[c], 1, k))
               rest == SubSeq(inbox[c], k + 1, Len(inbox[c]))
    <3>1. /\ got' = [got EXCEPT ![c] = got[c] \o u]
          /\ inbox' = [inbox EXCEPT ![c] = rest]
          /\ UNCHANGED <<wrote, asked, heard>>
        BY <1>3, <2>2 DEF Get
    <3>2. c \in Conn
        BY <2>2 DEF Readable
    <3>3. Read(wrote[c], inbox[c], got[c]) /\ inbox[c] \in Seq(Int)
        BY <3>2 DEF Traffic
    <3>4. k \in 0..Len(inbox[c])
        BY <3>3
    <3> HIDE DEF c, k
    <3>5. Read(wrote[c], rest, got[c] \o u)
        BY <3>3, <3>4, ReadOn
    <3> HIDE DEF rest, u
    <3>6. rest \in Seq(Int) /\ got[c] \o u \in Seq(Int)
        BY <3>5 DEF Read
    <3> QED
        BY <3>1, <3>2, <3>5, <3>6 DEF Traffic
  <2> QED
      BY <2>1, <2>2
<1>4. ASSUME NEW s \in Objects, NEW len \in 1..MaxChar, Send(s, len)
      PROVE  Traffic'
  <2> DEFINE c == table[object[s].fd]
  <2>1. PICK n \in 1..len :
           /\ heard' = [heard EXCEPT ![c] = heard[c] \o [i \in 1..n |-> asked[c] + i]]
           /\ asked' = [asked EXCEPT ![c] = asked[c] + len]
           /\ UNCHANGED <<inbox, wrote, got>>
           /\ c \in Conn
      BY <1>4 DEF Send
  <2>2. Sending(heard[c], asked[c]) /\ len \in Nat
      BY <2>1, SocketsAssumption DEF Traffic
  <2> HIDE DEF c
  <2>3. Sending(heard[c] \o [i \in 1..n |-> asked[c] + i], asked[c] + len)
      BY <2>2, SendOn
  <2>4. heard[c] \o [i \in 1..n |-> asked[c] + i] \in Seq(Int) /\ asked[c] + len \in Nat
      BY <2>3 DEF Sending
  <2> QED
      BY <2>1, <2>3, <2>4 DEF Traffic
<1> QED
    BY <1>1, <1>2, <1>3, <1>4
       DEF SocketsNext, socketsVars, traffic, ServerSocket, DestroyServer, Listen, ClientSocket,
           CopyStream, DeleteStream, AddStream, RemoveStream, PeerCloses, Select, Serve

-----------------------------------------------------------------------------
(* The vector of the selecter.                                             *)

Kept(list, s) == FlattenSeq([i \in DOMAIN list |-> IF list[i] = s THEN <<>> ELSE <<list[i]>>])

(* What is not removed stays, and nothing else comes.                      *)
LEMMA KeptOthers ==
    ASSUME NEW S, NEW list \in Seq(S), NEW s
    PROVE  /\ Kept(list, s) \in Seq(S) /\ Len(Kept(list, s)) <= Len(list)
           /\ \A i \in 1..Len(list) : list[i] # s => list[i] \in ToSet(Kept(list, s))
<1> DEFINE parts == [i \in DOMAIN list |-> IF list[i] = s THEN <<>> ELSE <<list[i]>>]
           k == Len(list)
<1>1. k \in Nat /\ DOMAIN list = 1..k /\ \A i \in 1..k : list[i] \in S
    OBVIOUS
<1>2. parts = [i \in 1..k |-> parts[i]]
    BY <1>1
<1>3. IsSequence(parts) /\ Len(parts) = k
    BY <1>1, <1>2, DomainIsSequence
<1>4. \A i \in 1..k : parts[i] = IF list[i] = s THEN <<>> ELSE <<list[i]>>
    BY <1>1
<1> HIDE DEF parts
<1>5. CASE k = 0
  <2>1. FlattenSeq(parts) = parts
      BY <1>3, <1>5 DEF FlattenSeq
  <2>2. parts = <<>>
      BY <1>3, <1>5, SequenceLen
  <2>3. <<>> \in Seq(S) /\ Len(<<>>) = 0
      OBVIOUS
  <2>4. Kept(list, s) = <<>>
      BY <2>1, <2>2 DEF Kept, parts
  <2> QED
      BY <1>5, <2>3, <2>4
<1>6. CASE k # 0
  <2>1. PICK f : Flattens(f, parts, k) /\ FlattenSeq(parts) = f[k]
      BY <1>3, <1>6, FlattenRecursion
  <2>2. \A i \in 1..k : f[i] = IF i = 1 THEN parts[i] ELSE f[i - 1] \o parts[i]
      BY <2>1 DEF Flattens
  <2> DEFINE Good(n) == /\ f[n] \in Seq(S) /\ Len(f[n]) <= n
                        /\ \A i \in 1..n : list[i] # s =>
                              \E j \in 1..Len(f[n]) : f[n][j] = list[i]
             T == {n \in Nat : n \in 1..k => Good(n)}
  <2>3. 0 \in T
      OBVIOUS
  <2>4. ASSUME NEW i \in 1..k
        PROVE  /\ parts[i] \in Seq(S)
               /\ list[i] = s => Len(parts[i]) = 0
               /\ list[i] # s => Len(parts[i]) = 1 /\ parts[i][1] = list[i]
    <3>1. CASE list[i] = s
      <4>1. parts[i] = <<>>
          BY <1>4, <3>1
      <4>2. <<>> \in Seq(S) /\ Len(<<>>) = 0
          OBVIOUS
      <4> QED
          BY <3>1, <4>1, <4>2
    <3>2. CASE list[i] # s
      <4> DEFINE v == list[i]
      <4>1. parts[i] = <<v>> /\ v \in S
          BY <1>1, <1>4, <3>2
      <4> HIDE DEF v
      <4>2. <<v>> \in Seq(S) /\ Len(<<v>>) = 1 /\ <<v>>[1] = v
          BY <4>1
      <4>3. parts[i] \in Seq(S) /\ Len(parts[i]) = 1 /\ parts[i][1] = v
          BY <4>1, <4>2
      <4> QED
          BY <3>2, <4>3 DEF v
    <3> QED
        BY <3>1, <3>2
  <2>5. ASSUME NEW n \in Nat, n \in T, n + 1 \in 1..k
        PROVE  Good(n + 1)
    <3> DEFINE q == parts[n + 1]
    <3>0. /\ q \in Seq(S) /\ Len(q) \in Nat
          /\ list[n + 1] = s => Len(q) = 0
          /\ list[n + 1] # s => Len(q) = 1 /\ q[1] = list[n + 1]
        BY <2>4, <2>5
    <3> HIDE DEF q
    <3>1. CASE n = 0
      <4>1. f[n + 1] = q
          BY <2>2, <2>5, <3>1 DEF q
      <4>2. Len(q) <= 1
        <5> DEFINE l == Len(q)
        <5>1. l = 0 \/ l = 1
            BY <3>0, Zenon
        <5> HIDE DEF l, Good, T
        <5>2. l <= 1
            BY <5>1
        <5> QED
            BY <5>2 DEF l
      <4>3. list[1] # s => q[1] = list[1] /\ 1 \in 1..Len(q)
          BY <3>0, <3>1
      <4>4. n + 1 = 1
          BY <3>1
      <4> QED
          BY <3>0, <4>1, <4>2, <4>3, <4>4
    <3>2. CASE n # 0
      <4>1. n \in 1..k /\ n + 1 # 1 /\ (n + 1) - 1 = n
          BY <1>1, <2>5, <3>2
      <4>2. f[n + 1] = f[n] \o q
          BY <2>2, <2>5, <4>1 DEF q
      <4>3. Good(n)
          BY <2>5, <4>1
      <4> DEFINE p == f[n]
                 r == p \o q
      <4>4. p \in Seq(S) /\ Len(p) \in Nat /\ Len(p) <= n
          BY <4>3
      <4>5. \A i \in 1..n : list[i] # s => \E j \in 1..Len(p) : p[j] = list[i]
          BY <4>3
      <4> HIDE DEF p
      <4>6. /\ r \in Seq(S) /\ Len(r) = Len(p) + Len(q)
            /\ \A j \in 1..Len(p) + Len(q) :
                  r[j] = IF j <= Len(p) THEN p[j] ELSE q[j - Len(p)]
          BY <3>0, <4>4, ConcatProperties
      <4> HIDE DEF r
      <4>7. Len(r) <= n + 1
        <5> DEFINE a == Len(p)
                   b == Len(q)
        <5>1. b = 0 \/ b = 1
            BY <3>0, Zenon
        <5>2. Len(r) = a + b /\ a \in Nat /\ a <= n
            BY <4>4, <4>6, Zenon
        <5> HIDE DEF a, b, Good, T
        <5>3. a + b <= n + 1
            BY <5>1, <5>2
        <5> QED
            BY <5>2, <5>3
      <4>8. ASSUME NEW i \in 1..n + 1, list[i] # s
            PROVE  \E j \in 1..Len(r) : r[j] = list[i]
        <5>1. CASE i \in 1..n
          <6>1. PICK j \in 1..Len(p) : p[j] = list[i]
              BY <4>5, <4>8, <5>1
          <6>2. j \in 1..Len(p) + Len(q) /\ j <= Len(p)
              BY <3>0, <4>4
          <6> QED
              BY <4>6, <6>1, <6>2
        <5>2. CASE i = n + 1
          <6>1. Len(q) = 1 /\ q[1] = list[i]
              BY <3>0, <4>8, <5>2
          <6>2. Len(p) + 1 \in 1..Len(r) /\ ~ (Len(p) + 1 <= Len(p))
                /\ (Len(p) + 1) - Len(p) = 1
              BY <4>4, <4>6, <6>1
          <6>3. r[Len(p) + 1] = q[1]
              BY <4>6, <6>1, <6>2
          <6> QED
              BY <6>1, <6>2, <6>3
        <5> QED
            BY <5>1, <5>2
      <4>9. f[n + 1] = r
          BY <4>2 DEF r, p
      <4> QED
          BY <4>6, <4>7, <4>8, <4>9
    <3> QED
        BY <3>1, <3>2
  <2> HIDE DEF Good
  <2>6. \A n \in Nat : n \in T => n + 1 \in T
      BY <2>5
  <2>7. k \in T
    <3> HIDE DEF T
    <3> QED
        BY <1>1, <2>3, <2>6, Induction
  <2>8. Good(k)
      BY <1>1, <1>6, <2>7
  <2>9. Kept(list, s) = f[k]
      BY <2>1 DEF Kept, parts
  <2>10. /\ f[k] \in Seq(S) /\ Len(f[k]) <= k
         /\ \A i \in 1..k : list[i] # s => \E j \in 1..Len(f[k]) : f[k][j] = list[i]
      BY <2>8 DEF Good
  <2>11. \A j \in 1..Len(f[k]) : f[k][j] \in ToSet(f[k])
      BY <2>10 DEF ToSet
  <2> QED
      BY <2>9, <2>10, <2>11
<1> QED
    BY <1>5, <1>6

-----------------------------------------------------------------------------
(* Types.                                                                  *)

SocketStream == [fd : Fd, alive : BOOLEAN, conn : Conn]
Answer == [stream : Objects \cup {0}, failed : BOOLEAN]
WithinBounds == \A c \in Conn : Len(wrote[c]) <= MaxChar /\ asked[c] \in 0..MaxChar

(* The bound on all characters is one on each connection's.                *)
LEMMA SentOfEach ==
    ASSUME Traffic
    PROVE  Sent \in Nat /\ \A c \in Conn : Len(wrote[c]) + asked[c] <= Sent
<1> DEFINE f == [c \in Conn |-> Len(wrote[c]) + asked[c]]
<1>1. IsFiniteSet(Conn)
    BY FS_Interval, SocketsAssumption DEF Conn
<1>2. \A c \in Conn : Len(wrote[c]) \in Nat /\ asked[c] \in Nat
  <2>1. \A c \in Conn : wrote[c] \in Seq(Int) /\ asked[c] \in Nat
      BY DEF Traffic
  <2> QED
      BY <2>1
<1>3. \A c \in Conn : f[c] \in Nat
    BY <1>2
<1>4. Sent = SumFunctionOnSet(f, Conn)
    BY DEF Sent, SumFunction
<1> HIDE DEF f
<1>5. Sent \in Nat /\ \A c \in Conn : f[c] <= Sent
    BY <1>1, <1>3, <1>4, SumOfNaturals
<1> QED
    BY <1>5 DEF f

(* Nothing but a peer and send() make characters.                          *)
LEMMA BoundsStep ==
    ASSUME SocketsTypeOK, Traffic, [SocketsNext]_socketsVars
    PROVE  WithinBounds'
<1>0. WithinBounds
    BY DEF SocketsTypeOK, WithinBounds
<1>1. CASE UNCHANGED <<wrote, asked>>
    BY <1>0, <1>1 DEF WithinBounds
<1>2. ASSUME NEW c \in Conn, NEW sign \in {1, -1}, PeerWrites(c, sign)
      PROVE  WithinBounds'
  <2> DEFINE v == sign * (Len(wrote[c]) + 1)
  <2>1. wrote' = [wrote EXCEPT ![c] = Append(wrote[c], v)] /\ asked' = asked /\ Sent < MaxChar
      BY <1>2 DEF PeerWrites
  <2>2. wrote \in [Conn -> Seq(Int)] /\ asked[c] \in Nat
      BY DEF Traffic
  <2>3. Len(wrote[c]) + asked[c] <= Sent /\ Sent \in Nat
      BY SentOfEach
  <2>4. wrote[c] \in Seq(Int) /\ v \in Int
      BY <2>2
  <2> HIDE DEF v
  <2>5. Len(Append(wrote[c], v)) = Len(wrote[c]) + 1 /\ Len(wrote[c]) \in Nat
      BY <2>4
  <2>6. Len(wrote[c]) + 1 <= MaxChar
      BY <2>1, <2>2, <2>3, <2>5, SocketsAssumption
  <2>7. ASSUME NEW d \in Conn PROVE Len(wrote'[d]) <= MaxChar
    <3>1. CASE d = c
        BY <2>1, <2>2, <2>5, <2>6, <3>1
    <3>2. CASE d # c
        BY <1>0, <2>1, <2>2, <3>2 DEF WithinBounds
    <3> QED
        BY <3>1, <3>2
  <2> QED
      BY <1>0, <2>1, <2>7 DEF WithinBounds
<1>3. ASSUME NEW s \in Objects, NEW len \in 1..MaxChar, Send(s, len)
      PROVE  WithinBounds'
  <2> DEFINE c == table[object[s].fd]
  <2>1. /\ asked' = [asked EXCEPT ![c] = asked[c] + len] /\ wrote' = wrote
        /\ c \in Conn /\ Sent + len <= MaxChar
      BY <1>3 DEF Send
  <2> HIDE DEF c
  <2>2. wrote[c] \in Seq(Int) /\ asked \in [Conn -> Nat] /\ asked[c] \in Nat
      BY <2>1 DEF Traffic
  <2>3. Len(wrote[c]) + asked[c] <= Sent /\ Sent \in Nat /\ Len(wrote[c]) \in Nat
      BY <2>1, <2>2, SentOfEach
  <2>4. asked[c] + len \in 0..MaxChar
      BY <2>1, <2>2, <2>3, SocketsAssumption
  <2> QED
      BY <1>0, <2>1, <2>2, <2>4 DEF WithinBounds
<1> QED
    BY <1>1, <1>2, <1>3
       DEF SocketsNext, socketsVars, traffic, ServerSocket, DestroyServer, Listen, ClientSocket,
           CopyStream, DeleteStream, AddStream, RemoveStream, PeerCloses, Select, Serve, Get

Known ==
    /\ object \in Seq(SocketStream)
    /\ streams \in Seq(Objects) /\ Len(streams) <= MaxList
    /\ answer \in Answer /\ members \subseteq Objects

(* A stream is added, and those that were known still are.                 *)
LEMMA KnownOfMore ==
    ASSUME Known, NEW e \in SocketStream, object' = Append(object, e),
           UNCHANGED <<streams, answer, members>>
    PROVE  /\ Known'
           /\ DOMAIN object' = DOMAIN object \cup {Len(object) + 1}
           /\ Len(object) + 1 \notin DOMAIN object
           /\ \A s \in Objects : object'[s] = object[s]
           /\ object'[Len(object) + 1] = e
<1>1. object \in Seq(SocketStream) /\ Len(object) \in Nat /\ Objects = 1..Len(object)
    BY DEF Known, Objects
<1>2. /\ object' \in Seq(SocketStream) /\ Len(object') = Len(object) + 1
      /\ \A s \in 1..Len(object) : object'[s] = object[s]
      /\ object'[Len(object) + 1] = e
    BY <1>1, AppendProperties
<1>3. DOMAIN object' = 1..Len(object) + 1
    BY <1>2
<1>4. Objects \subseteq DOMAIN object'
    BY <1>1, <1>3
<1>5. streams' \in Seq(DOMAIN object')
    BY <1>4, SeqMonotonic DEF Known
<1>6. answer' \in [stream : DOMAIN object' \cup {0}, failed : BOOLEAN]
    BY <1>4 DEF Known, Answer
<1>7. Known'
    BY <1>2, <1>4, <1>5, <1>6 DEF Known, Objects, Answer
<1>8. DOMAIN object' = DOMAIN object \cup {Len(object) + 1} /\ Len(object) + 1 \notin DOMAIN object
    BY <1>1, <1>3 DEF Objects
<1> QED
    BY <1>1, <1>2, <1>7, <1>8

(* A stream is deleted: it is still known.                                 *)
LEMMA KnownOfDeleted ==
    ASSUME Known, NEW s \in Objects, object' = [object EXCEPT ![s].alive = FALSE],
           UNCHANGED <<streams, answer, members>>
    PROVE  /\ Known' /\ DOMAIN object' = DOMAIN object
           /\ \A t \in Objects : /\ t # s => object'[t] = object[t]
                                 /\ object'[t].fd = object[t].fd
                                 /\ object'[t].conn = object[t].conn
           /\ ~ object'[s].alive
<1> DEFINE old == object[s]
           e == [old EXCEPT !.alive = FALSE]
<1>1. object \in Seq(SocketStream) /\ Len(object) \in Nat /\ Objects = 1..Len(object)
    BY DEF Known, Objects
<1>2. old \in SocketStream
    BY <1>1
<1>3. object' = [object EXCEPT ![s] = e]
    OBVIOUS
<1> HIDE DEF old
<1>4. e \in SocketStream /\ e.fd = old.fd /\ e.conn = old.conn /\ ~ e.alive
    BY <1>2 DEF SocketStream
<1> HIDE DEF e
<1>5. /\ object' \in Seq(SocketStream) /\ DOMAIN object' = DOMAIN object
      /\ \A t \in Objects : object'[t] = IF t = s THEN e ELSE object[t]
  <2>1. s \in 1..Len(object)
      BY <1>1
  <2> DEFINE new == [object EXCEPT ![s] = e]
  <2>2. /\ new \in Seq(SocketStream)
        /\ \A t \in 1..Len(object) : new[t] = IF t = s THEN e ELSE object[t]
    <3>1. object \in Seq(SocketStream) /\ e \in SocketStream
        BY <1>1, <1>4
    <3> QED
        BY <2>1, <3>1, ExceptSeq
  <2>3. DOMAIN new = DOMAIN object /\ object' = new
      BY <1>3
  <2> HIDE DEF new
  <2> QED
      BY <1>1, <2>2, <2>3
<1>6. Known'
    BY <1>5 DEF Known, Objects, Answer
<1> QED
    BY <1>4, <1>5, <1>6 DEF old

(* The selecter and what it has answered know no stream that is none.     *)
LEMMA KnownStep ==
    ASSUME SocketsTypeOK, [SocketsNext]_socketsVars
    PROVE  Known'
<1>0. Known
    BY DEF SocketsTypeOK, Known, SocketStream, Answer
<1>1. CASE UNCHANGED <<object, streams, answer, members>>
    BY <1>0, <1>1 DEF Known, Objects, Answer
<1>2. ASSUME FreeFds # {}, NewStream(FreeFd), UNCHANGED <<streams, answer, members>>
      PROVE  Known'
  <2>1. [fd |-> FreeFd, alive |-> TRUE, conn |-> NewConn] \in SocketStream
      BY <1>2, FreeFdIsFree DEF NewStream, SocketStream
  <2> QED
      BY <1>0, <1>2, <2>1, KnownOfMore DEF NewStream
<1>3. ASSUME NEW s \in Objects, CopyStream(s)
      PROVE  Known'
  <2>1. object[s] \in SocketStream
      BY <1>0 DEF Known, Objects
  <2> QED
      BY <1>0, <1>3, <2>1, KnownOfMore DEF CopyStream
<1>4. ASSUME NEW s \in Objects, DeleteStream(s)
      PROVE  Known'
    BY <1>0, <1>4, KnownOfDeleted DEF DeleteStream
<1>5. ASSUME NEW s \in Objects, AddStream(s)
      PROVE  Known'
  <2>1. streams \in Seq(Objects) /\ Len(streams) \in Nat /\ Len(streams) < MaxList
      BY <1>0, <1>5 DEF Known, AddStream
  <2>2. Append(streams, s) \in Seq(Objects) /\ Len(Append(streams, s)) <= MaxList
      BY <2>1, SocketsAssumption
  <2>3. /\ streams' = Append(streams, s) /\ members' = members \cup {s}
        /\ UNCHANGED <<object, answer>>
      BY <1>5 DEF AddStream
  <2> QED
      BY <1>0, <2>2, <2>3 DEF Known, Objects, Answer
<1>6. ASSUME NEW s \in Objects, RemoveStream(s)
      PROVE  Known'
  <2> DEFINE kept == Kept(streams, s)
             rest == SubSeq(streams, Len(kept) + 1, Len(streams))
  <2>1. streams \in Seq(Objects) /\ Len(streams) \in Nat
      BY <1>0 DEF Known
  <2>2. kept \in Seq(Objects) /\ Len(kept) <= Len(streams) /\ Len(kept) \in Nat
    <3>1. kept \in Seq(Objects) /\ Len(kept) <= Len(streams)
        BY <2>1, KeptOthers
    <3> HIDE DEF kept
    <3> QED
        BY <3>1
  <2>3. streams' = kept \o rest
      BY <1>6 DEF RemoveStream, Removed, Kept
  <2> HIDE DEF kept
  <2>4. rest \in Seq(Objects) /\ Len(rest) = Len(streams) - Len(kept)
    <3>1. \A i \in Len(kept) + 1..Len(streams) : streams[i] \in Objects
        BY <2>1, <2>2
    <3>2. /\ rest \in Seq(Objects)
          /\ Len(rest) = IF Len(kept) + 1 <= Len(streams)
                         THEN Len(streams) - (Len(kept) + 1) + 1 ELSE 0
        BY <2>1, <2>2, <3>1, SubSeqProperties
    <3> HIDE DEF rest
    <3> QED
        BY <2>1, <2>2, <3>2
  <2> HIDE DEF rest
  <2>5. streams' \in Seq(Objects) /\ Len(streams') = Len(streams)
    <3>1. kept \o rest \in Seq(Objects) /\ Len(kept \o rest) = Len(kept) + Len(rest)
        BY <2>2, <2>4, ConcatProperties
    <3> QED
        BY <2>1, <2>2, <2>3, <2>4, <3>1
  <2>6. UNCHANGED <<object, answer>> /\ members' \subseteq members
      BY <1>6 DEF RemoveStream
  <2> QED
      BY <1>0, <2>5, <2>6 DEF Known, Objects, Answer
<1>7. ASSUME Select
      PROVE  Known'
  <2>1. streams \in Seq(Objects) /\ streams # <<>>
      BY <1>0, <1>7 DEF Known, Select
  <2>2. Head(streams) \in Objects /\ \A i \in DOMAIN streams : streams[i] \in Objects
      BY <2>1
  <2>3. answer' \in Answer
    <3>1. \/ answer' = [stream |-> Head(streams), failed |-> TRUE]
          \/ answer' = NoStream
          \/ \E i \in DOMAIN streams : answer' = [stream |-> streams[i], failed |-> FALSE]
        BY <1>7 DEF Select
    <3>2. ASSUME NEW v \in Objects \cup {0}, NEW b \in BOOLEAN
          PROVE  [stream |-> v, failed |-> b] \in Answer
        BY DEF Answer
    <3>3. CASE answer' = [stream |-> Head(streams), failed |-> TRUE]
        BY <2>2, <3>2, <3>3
    <3>4. CASE answer' = NoStream
        BY <3>2, <3>4 DEF NoStream
    <3>5. CASE \E i \in DOMAIN streams : answer' = [stream |-> streams[i], failed |-> FALSE]
        BY <2>2, <3>2, <3>5
    <3> QED
        BY <3>1, <3>3, <3>4, <3>5
  <2> QED
      BY <1>0, <1>7, <2>3 DEF Known, Select, Objects, Answer
<1>8. ASSUME Serve
      PROVE  Known'
  <2>1. answer' = NoStream /\ UNCHANGED <<object, streams, members>>
      BY <1>8 DEF Serve, Get
  <2> QED
      BY <1>0, <2>1 DEF Known, Objects, Answer, NoStream
<1> QED
    BY <1>1, <1>2, <1>3, <1>4, <1>5, <1>6, <1>7, <1>8
       DEF SocketsNext, socketsVars, traffic, ServerSocket, DestroyServer, Listen, ClientSocket,
           PeerWrites, PeerCloses, Send

-----------------------------------------------------------------------------
(* Whose a descriptor is.  While no stream has been copied, the live ones  *)
(* and the server have descriptors of their own.                           *)

Places ==
    /\ table \in [Fd -> Conn \cup {Closed, Listener, Leaked}] /\ server \in Fd \cup {NoServer}
    /\ copied \in BOOLEAN /\ gone \subseteq Conn

Own ==
    ~ copied =>
        /\ \A s \in Alive : table[object[s].fd] = object[s].conn
        /\ \A s, t \in Alive : object[s].fd = object[t].fd => s = t
        /\ server # NoServer => table[server] = Listener

(* A descriptor is a connection's, a listener's, leaked or closed.         *)
LEMMA PlacesStep ==
    ASSUME Known, Places, [SocketsNext]_socketsVars
    PROVE  Places'
<1>1. CASE UNCHANGED <<table, server, copied, gone>>
    BY <1>1 DEF Places
<1>2. ASSUME FreeFds # {}, NewStream(FreeFd), UNCHANGED <<server, copied, gone>>
      PROVE  Places'
    BY <1>2 DEF Places, NewStream
<1>3. ASSUME ServerSocket
      PROVE  Places'
    BY <1>3, FreeFdIsFree DEF Places, ServerSocket, traffic
<1>4. ASSUME DestroyServer
      PROVE  Places'
    BY <1>4 DEF Places, DestroyServer, traffic
<1>5. ASSUME ClientSocket
      PROVE  Places'
  <2>1. CASE NewStream(FreeFd)
      BY <1>2, <1>5, <2>1 DEF ClientSocket, traffic
  <2>2. CASE table' = [table EXCEPT ![FreeFd] = Leaked]
      BY <1>5, <2>2 DEF Places, ClientSocket, traffic
  <2> QED
      BY <1>5, <2>1, <2>2 DEF ClientSocket
<1>6. ASSUME NEW s \in Objects, CopyStream(s)
      PROVE  Places'
    BY <1>6 DEF Places, CopyStream, traffic
<1>7. ASSUME NEW s \in Objects, DeleteStream(s)
      PROVE  Places'
    BY <1>7 DEF Places, DeleteStream, traffic
<1>8. ASSUME NEW c \in Conn, PeerCloses(c)
      PROVE  Places'
    BY <1>8 DEF Places, PeerCloses
<1> QED
    BY <1>1, <1>2, <1>3, <1>4, <1>5, <1>6, <1>7, <1>8
       DEF SocketsNext, socketsVars, traffic, Listen, AddStream, RemoveStream, PeerWrites,
           Send, Select, Serve, Get

(* A stream knows its descriptor, which is no free one and no server's.    *)
LEMMA OwnOfAlive ==
    ASSUME Known, Places, Own, ~ copied, NEW s \in Alive
    PROVE  /\ s \in Objects /\ object[s] \in SocketStream
           /\ object[s].fd \in Fd /\ object[s].conn \in Conn /\ object[s].alive
           /\ table[object[s].fd] = object[s].conn
           /\ table[object[s].fd] # Closed /\ table[object[s].fd] # Listener
           /\ object[s].fd # server
<1>1. s \in Objects /\ object[s] \in SocketStream /\ object[s].alive
    BY DEF Alive, Known, Objects
<1>2. object[s].fd \in Fd /\ object[s].conn \in Conn
    BY <1>1 DEF SocketStream
<1>3. table[object[s].fd] = object[s].conn
    BY DEF Own
<1>4. Closed \notin Conn /\ Listener \notin Conn
    BY SocketsAssumption DEF Conn, Closed, Listener
<1>5. NoServer \notin Fd
    BY SocketsAssumption DEF NoServer
<1> QED
    BY <1>1, <1>2, <1>3, <1>4, <1>5 DEF Own

(* A stream is made on a descriptor that was free.                         *)
LEMMA OwnOfNew ==
    ASSUME Known, Places, Own, FreeFds # {}, NewStream(FreeFd),
           UNCHANGED <<server, copied, streams, answer, members>>
    PROVE  Own'
<1> SUFFICES ASSUME ~ copied PROVE Own'
    BY DEF Own
<1> DEFINE fd == FreeFd
           e == [fd |-> fd, alive |-> TRUE, conn |-> NewConn]
           n == Len(object) + 1
<1>1. fd \in Fd /\ table[fd] = Closed
    BY FreeFdIsFree
<1> HIDE DEF fd
<1>2. /\ e \in SocketStream /\ e.fd = fd /\ e.conn = NewConn /\ e.alive
      /\ object' = Append(object, e) /\ table' = [table EXCEPT ![fd] = NewConn]
    BY <1>1 DEF NewStream, SocketStream, fd
<1> HIDE DEF e
<1>3. /\ DOMAIN object' = DOMAIN object \cup {n} /\ n \notin DOMAIN object
      /\ \A s \in Objects : object'[s] = object[s]
      /\ object'[n] = e
    BY <1>2, KnownOfMore
<1> HIDE DEF n
<1>4. Alive' = Alive \cup {n} /\ n \notin Alive
    BY <1>2, <1>3 DEF Alive, Objects
<1>5. \A s \in Alive : /\ object'[s] = object[s] /\ object[s].fd # fd
                       /\ table'[object[s].fd] = table[object[s].fd]
                       /\ table[object[s].fd] = object[s].conn
    BY <1>1, <1>2, <1>3, OwnOfAlive DEF Places
<1>6. table'[fd] = NewConn
    BY <1>1, <1>2 DEF Places
<1>6a. object'[n].fd = fd /\ object'[n].conn = NewConn
    BY <1>2, <1>3
<1>7. ASSUME NEW s \in Alive'
      PROVE  table'[object'[s].fd] = object'[s].conn
  <2>1. s \in Alive \/ s = n
      BY <1>4
  <2>2. CASE s = n
      BY <1>6, <1>6a, <2>2
  <2>3. CASE s \in Alive
      BY <1>5, <2>3
  <2> QED
      BY <2>1, <2>2, <2>3
<1>8. ASSUME NEW s \in Alive', NEW t \in Alive', object'[s].fd = object'[t].fd
      PROVE  s = t
  <2>1. (s \in Alive \/ s = n) /\ (t \in Alive \/ t = n)
      BY <1>4
  <2>2. CASE s \in Alive /\ t \in Alive
    <3>1. object[s].fd = object[t].fd
        BY <1>5, <1>8, <2>2
    <3> QED
        BY <2>2, <3>1 DEF Own
  <2>3. CASE s = n /\ t \in Alive
      BY <1>5, <1>6a, <1>8, <2>3
  <2>4. CASE s \in Alive /\ t = n
      BY <1>5, <1>6a, <1>8, <2>4
  <2> QED
      BY <2>1, <2>2, <2>3, <2>4
<1>9. server' # NoServer => table'[server'] = Listener
  <2>1. server # NoServer => server \in Fd /\ server # fd
      BY <1>1 DEF Own, Places, Closed, Listener
  <2> QED
      BY <1>2, <2>1 DEF Own, Places
<1> QED
    BY <1>7, <1>8, <1>9 DEF Own

(* No step gives a descriptor that one owns to another.                   *)
LEMMA OwnStep ==
    ASSUME Known, Places, Own, [SocketsNext]_socketsVars
    PROVE  Own'
<1>1. CASE UNCHANGED <<table, server, object, copied>>
    BY <1>1 DEF Own, Alive, Objects
<1>2. ASSUME ServerSocket
      PROVE  Own'
  <2> SUFFICES ASSUME ~ copied PROVE Own'
      BY <1>2 DEF Own, ServerSocket
  <2>1. FreeFd \in Fd /\ table[FreeFd] = Closed
      BY <1>2, FreeFdIsFree DEF ServerSocket
  <2>2. UNCHANGED <<object, copied>> /\ Alive' = Alive /\ server = NoServer
      BY <1>2 DEF ServerSocket, Alive, Objects
  <2>3. PICK v \in {Listener, Leaked} :
           /\ table' = [table EXCEPT ![FreeFd] = v]
           /\ server' = IF v = Listener THEN FreeFd ELSE server
    <3>1. Listener # Leaked
        BY DEF Listener, Leaked
    <3> QED
        BY <1>2, <3>1 DEF ServerSocket
  <2>4. \A s \in Alive : table'[object[s].fd] = object[s].conn
      BY <2>1, <2>3, OwnOfAlive DEF Places
  <2>5. server' # NoServer => table'[server'] = Listener
      BY <2>1, <2>2, <2>3 DEF Places
  <2> QED
      BY <2>2, <2>4, <2>5 DEF Own
<1>3. ASSUME DestroyServer
      PROVE  Own'
  <2> SUFFICES ASSUME ~ copied PROVE Own'
      BY <1>3 DEF Own, DestroyServer
  <2>1. UNCHANGED <<object, copied>> /\ Alive' = Alive /\ server' = NoServer
        /\ table' = [table EXCEPT ![server] = Closed]
      BY <1>3 DEF DestroyServer, Alive, Objects
  <2>2. \A s \in Alive : table'[object[s].fd] = object[s].conn
      BY <2>1, OwnOfAlive DEF Places
  <2> QED
      BY <2>1, <2>2 DEF Own
<1>4. ASSUME Listen
      PROVE  Own'
    BY <1>4, OwnOfNew DEF Listen
<1>5. ASSUME ClientSocket
      PROVE  Own'
  <2>1. CASE NewStream(FreeFd)
      BY <1>5, <2>1, OwnOfNew DEF ClientSocket
  <2>2. CASE table' = [table EXCEPT ![FreeFd] = Leaked] /\ UNCHANGED object
    <3> SUFFICES ASSUME ~ copied PROVE Own'
        BY <1>5 DEF Own, ClientSocket
    <3>1. FreeFd \in Fd /\ table[FreeFd] = Closed
        BY <1>5, FreeFdIsFree DEF ClientSocket
    <3>2. UNCHANGED <<copied, server>> /\ Alive' = Alive
        BY <1>5, <2>2 DEF ClientSocket, Alive, Objects
    <3>3. \A s \in Alive : table'[object[s].fd] = object[s].conn
        BY <2>2, <3>1, OwnOfAlive DEF Places
    <3>4. server # NoServer => table'[server] = Listener
        BY <2>2, <3>1 DEF Places, Own, Closed, Listener
    <3> QED
        BY <2>2, <3>2, <3>3, <3>4 DEF Own
  <2> QED
      BY <1>5, <2>1, <2>2 DEF ClientSocket
<1>6. ASSUME NEW s \in Objects, CopyStream(s)
      PROVE  Own'
    BY <1>6 DEF Own, CopyStream
<1>7. ASSUME NEW s \in Objects, DeleteStream(s)
      PROVE  Own'
  <2> SUFFICES ASSUME ~ copied PROVE Own'
      BY <1>7 DEF Own, DeleteStream
  <2>1. s \in Alive
      BY <1>7 DEF DeleteStream, Alive
  <2>2. /\ table' = [table EXCEPT ![object[s].fd] = Closed]
        /\ object' = [object EXCEPT ![s].alive = FALSE]
        /\ UNCHANGED <<server, copied, streams, answer, members>>
      BY <1>7 DEF DeleteStream
  <2>3. /\ DOMAIN object' = DOMAIN object
        /\ \A t \in Objects : t # s => object'[t] = object[t]
        /\ ~ object'[s].alive
      BY <2>2, KnownOfDeleted
  <2>4. Alive' = Alive \ {s} /\ \A t \in Alive' : object'[t] = object[t]
      BY <2>3 DEF Alive, Objects
  <2>5. \A t \in Alive' : table'[object[t].fd] = object[t].conn
    <3>1. ASSUME NEW t \in Alive' PROVE table'[object[t].fd] = object[t].conn
      <4>1. t \in Alive /\ t # s
          BY <2>4
      <4>2. object[t].fd # object[s].fd
          BY <2>1, <4>1 DEF Own
      <4>3. object[t].fd \in Fd /\ table[object[t].fd] = object[t].conn
          BY <4>1, OwnOfAlive
      <4> QED
          BY <2>2, <4>2, <4>3 DEF Places
    <3> QED
        BY <3>1
  <2>6. server # NoServer => table'[server] = Listener
    <3>1. object[s].fd # server
        BY <2>1, OwnOfAlive
    <3> QED
        BY <2>2, <3>1 DEF Places, Own
  <2> QED
      BY <2>2, <2>4, <2>5, <2>6 DEF Own
<1> QED
    BY <1>1, <1>2, <1>3, <1>4, <1>5, <1>6, <1>7
       DEF SocketsNext, socketsVars, traffic, AddStream, RemoveStream, PeerWrites, PeerCloses,
           Send, Select, Serve, Get

-----------------------------------------------------------------------------
(* The selecter.                                                           *)

(* No stream that was added and not removed leaves the vector.             *)
LEMMA MembersStep ==
    ASSUME Known, members \subseteq ToSet(streams), [SocketsNext]_socketsVars
    PROVE  members' \subseteq ToSet(streams')
<1>1. CASE UNCHANGED <<streams, members>>
    BY <1>1
<1>0. streams \in Seq(Objects) /\ Len(streams) \in Nat
    BY DEF Known
<1>2. ASSUME NEW s \in Objects, AddStream(s)
      PROVE  members' \subseteq ToSet(streams')
  <2> DEFINE new == Append(streams, s)
  <2>1. streams' = new /\ members' = members \cup {s}
      BY <1>2 DEF AddStream
  <2>2. /\ DOMAIN new = 1..Len(streams) + 1 /\ new[Len(streams) + 1] = s
        /\ \A i \in 1..Len(streams) : new[i] = streams[i]
      BY <1>0
  <2> HIDE DEF new
  <2>3. s \in ToSet(new)
      BY <1>0, <2>2 DEF ToSet
  <2>4. ASSUME NEW m \in members PROVE m \in ToSet(new)
    <3>1. PICK i \in 1..Len(streams) : streams[i] = m
        BY <1>0 DEF ToSet
    <3>2. i \in 1..Len(streams) + 1 /\ new[i] = m
        BY <1>0, <2>2, <3>1
    <3> QED
        BY <2>2, <3>2 DEF ToSet
  <2> QED
      BY <2>1, <2>3, <2>4
<1>3. ASSUME NEW s \in Objects, RemoveStream(s)
      PROVE  members' \subseteq ToSet(streams')
  <2> DEFINE kept == Kept(streams, s)
             rest == SubSeq(streams, Len(kept) + 1, Len(streams))
             new == kept \o rest
  <2>1. streams' = new /\ members' = members \ {s}
      BY <1>3 DEF RemoveStream, Removed, Kept
  <2>2. /\ kept \in Seq(Objects) /\ Len(kept) <= Len(streams)
        /\ \A i \in 1..Len(streams) : streams[i] # s => streams[i] \in ToSet(kept)
      BY <1>0, KeptOthers
  <2> HIDE DEF kept
  <2>3. Len(kept) \in Nat /\ DOMAIN kept = 1..Len(kept)
      BY <2>2
  <2>4. \A i \in Len(kept) + 1..Len(streams) : streams[i] \in Objects
      BY <1>0, <2>2, <2>3
  <2>5. rest \in Seq(Objects)
      BY <1>0, <2>3, <2>4, SubSeqProperties
  <2> HIDE DEF rest
  <2>6. Len(rest) \in Nat
      BY <2>5
  <2>7. /\ Len(new) = Len(kept) + Len(rest) /\ new \in Seq(Objects)
        /\ \A i \in 1..Len(kept) + Len(rest) :
              new[i] = IF i <= Len(kept) THEN kept[i] ELSE rest[i - Len(kept)]
      BY <2>2, <2>5, ConcatProperties
  <2> HIDE DEF new
  <2>8. DOMAIN new = 1..Len(kept) + Len(rest)
      BY <2>7
  <2>9. ASSUME NEW m \in members, m # s PROVE m \in ToSet(new)
    <3>1. PICK i \in 1..Len(streams) : streams[i] = m
        BY <1>0 DEF ToSet
    <3>2. m \in ToSet(kept)
        BY <2>2, <2>9, <3>1
    <3>3. PICK j \in 1..Len(kept) : kept[j] = m
        BY <2>3, <3>2 DEF ToSet
    <3>4. j \in 1..Len(kept) + Len(rest) /\ j <= Len(kept)
        BY <2>3, <2>6
    <3>5. new[j] = m
        BY <2>7, <3>3, <3>4
    <3> QED
        BY <2>8, <3>4, <3>5 DEF ToSet
  <2> QED
      BY <2>1, <2>9
<1> QED
    BY <1>1, <1>2, <1>3
       DEF SocketsNext, socketsVars, ServerSocket, DestroyServer, Listen, ClientSocket, CopyStream,
           DeleteStream, PeerWrites, PeerCloses, Send, Select, Serve, Get

(* What select() has returned can be read, until it is.                    *)
Selected ==
    ~ Idle /\ ~ answer.failed /\ answer.stream \in Alive => Readable(object[answer.stream].fd)

(* What can be read still can when peers write and close.                  *)
LEMMA SelectedStays ==
    ASSUME Selected, UNCHANGED <<table, object, answer>>, gone \subseteq gone',
           \A c \in Conn : inbox[c] # <<>> => inbox'[c] # <<>>
    PROVE  Selected'
    BY DEF Selected, Idle, Alive, Objects, Readable

(* The program calls nothing before it has read what was selected, and     *)
(* select() returns a stream whose descriptor it found ready.              *)
LEMMA SelectedStep ==
    ASSUME Traffic, Known, Selected, [SocketsNext]_socketsVars
    PROVE  Selected'
<1>1. CASE UNCHANGED socketsVars
    BY <1>1, SelectedStays DEF socketsVars, traffic
<1>2. CASE Idle /\ UNCHANGED answer
    BY <1>2 DEF Selected, Idle
<1>3. ASSUME NEW c \in Conn, NEW sign \in {1, -1}, PeerWrites(c, sign)
      PROVE  Selected'
  <2> DEFINE v == sign * (Len(wrote[c]) + 1)
  <2>1. /\ inbox' = [inbox EXCEPT ![c] = Append(inbox[c], v)]
        /\ UNCHANGED <<table, object, answer, gone>>
      BY <1>3 DEF PeerWrites
  <2>2. inbox \in [Conn -> Seq(Int)]
      BY DEF Traffic
  <2> HIDE DEF v
  <2>3. Append(inbox[c], v) # <<>>
    <3>1. inbox[c] \in Seq(Int)
        BY <2>2
    <3> QED
        BY <3>1
  <2>4. \A d \in Conn : inbox[d] # <<>> => inbox'[d] # <<>>
      BY <2>1, <2>2, <2>3
  <2> QED
      BY <2>1, <2>4, SelectedStays
<1>4. ASSUME NEW c \in Conn, PeerCloses(c)
      PROVE  Selected'
    BY <1>4, SelectedStays DEF PeerCloses
<1>5. ASSUME Select
      PROVE  Selected'
  <2>1. UNCHANGED <<table, server, object, streams, traffic>> /\ Alive' = Alive
      BY <1>5 DEF Select, Alive, Objects
  <2>2. PICK fd \in {f \in [DOMAIN streams -> Fd] : \A i \in DOMAIN f : f[i] \in Found(streams[i])} :
           \/ answer' = [stream |-> Head(streams), failed |-> TRUE]
           \/ answer' = NoStream
           \/ \E i \in {j \in DOMAIN fd : Readable(fd[j])} :
                 answer' = [stream |-> streams[i], failed |-> FALSE]
      BY <1>5 DEF Select
  <2>3. CASE answer' = [stream |-> Head(streams), failed |-> TRUE]
      BY <2>3 DEF Selected
  <2>4. CASE answer' = NoStream
      BY <2>4 DEF Selected, Idle
  <2>5. ASSUME NEW i \in {j \in DOMAIN fd : Readable(fd[j])},
               answer' = [stream |-> streams[i], failed |-> FALSE], streams[i] \in Alive
        PROVE  Readable(object[answer.stream].fd)'
    <3>1. i \in DOMAIN fd /\ Readable(fd[i]) /\ fd[i] \in Found(streams[i])
        BY <2>2
    <3>2. fd[i] = object[streams[i]].fd
        BY <2>5, <3>1 DEF Found, Alive
    <3>3. Readable(object[streams[i]].fd)
        BY <3>1, <3>2
    <3>4. answer'.stream = streams[i]
        BY <2>5
    <3> QED
        BY <2>1, <3>3, <3>4 DEF Readable, traffic
  <2>6. ASSUME NEW i \in {j \in DOMAIN fd : Readable(fd[j])},
               answer' = [stream |-> streams[i], failed |-> FALSE]
        PROVE  Selected'
    <3>1. answer'.stream = streams[i]
        BY <2>6
    <3> QED
        BY <2>1, <2>5, <2>6, <3>1 DEF Selected
  <2> QED
      BY <2>2, <2>3, <2>4, <2>6
<1>6. ASSUME Serve
      PROVE  Selected'
    BY <1>6 DEF Serve, Get, Selected, Idle
<1> QED
    BY <1>1, <1>2, <1>3, <1>4, <1>5, <1>6
       DEF SocketsNext, ServerSocket, DestroyServer, Listen, ClientSocket, CopyStream,
           DeleteStream, Send, AddStream, RemoveStream

-----------------------------------------------------------------------------
(* The invariant of the sockets.                                           *)
SocketsInv == SocketsTypeOK /\ Traffic /\ Own /\ SelecterKeeps

(* It holds before the first socket is made.                               *)
LEMMA SocketsInvInit == SocketsInit => SocketsInv
<1> SUFFICES ASSUME SocketsInit PROVE SocketsInv
    OBVIOUS
<1>1. /\ table = [f \in Fd |-> Closed] /\ server = NoServer /\ object = <<>> /\ streams = <<>>
      /\ answer = NoStream /\ gone = {} /\ members = {} /\ copied = FALSE
      /\ wrote = [c \in Conn |-> <<>>] /\ asked = [c \in Conn |-> 0]
    BY DEF SocketsInit
<1>2. Objects = {} /\ Alive = {}
    BY <1>1 DEF Objects, Alive
<1>3. /\ table \in [Fd -> Conn \cup {Closed, Listener, Leaked}] /\ server \in Fd \cup {NoServer}
      /\ members \subseteq Objects /\ copied \in BOOLEAN /\ gone \subseteq Conn
    BY <1>1
<1>4. /\ object \in Seq([fd : Fd, alive : BOOLEAN, conn : Conn])
      /\ streams \in Seq(Objects) /\ Len(streams) <= MaxList
    BY <1>1, SocketsAssumption
<1>5. answer \in [stream : Objects \cup {0}, failed : BOOLEAN]
    BY <1>1 DEF NoStream
<1>6. \A c \in Conn : Len(wrote[c]) <= MaxChar /\ asked[c] \in 0..MaxChar
    BY <1>1, SocketsAssumption
<1>7. SocketsTypeOK
    BY <1>3, <1>4, <1>5, <1>6 DEF SocketsTypeOK
<1>8. Own
    BY <1>1, <1>2 DEF Own
<1>9. SelecterKeeps
    BY <1>1 DEF SelecterKeeps, Idle
<1> QED
    BY <1>7, <1>8, <1>9, TrafficInit DEF SocketsInv

(* A step of the program or of a peer keeps it.                            *)
LEMMA SocketsInvStep ==
    ASSUME SocketsInv, [SocketsNext]_socketsVars
    PROVE  SocketsInv'
<1>1. SocketsTypeOK /\ Traffic /\ Own /\ SelecterKeeps
    BY DEF SocketsInv
<1>2. Known /\ Places /\ Selected /\ members \subseteq ToSet(streams)
    BY <1>1 DEF SocketsTypeOK, SelecterKeeps, Known, Places, Selected, SocketStream, Answer
<1>3. Known' /\ WithinBounds'
    BY <1>1, KnownStep, BoundsStep
<1>4. Traffic' /\ Places' /\ Own'
    BY <1>1, <1>2, TrafficStep, PlacesStep, OwnStep
<1>5. members' \subseteq ToSet(streams') /\ Selected'
    BY <1>1, <1>2, MembersStep, SelectedStep
<1>6. SocketsTypeOK'
    BY <1>3, <1>4 DEF SocketsTypeOK, Known, WithinBounds, Places, SocketStream, Answer
<1>7. SelecterKeeps'
    BY <1>5 DEF SelecterKeeps, Selected
<1> QED
    BY <1>4, <1>6, <1>7 DEF SocketsInv

(* The sockets keep their types, what is read and sent is a part of what   *)
(* was written and asked for, and, until a SocketStream is copied, the     *)
(* descriptors of the live ones are their own.                             *)
THEOREM SocketsInvariant == SocketsSpec => []SocketsInv
<1>1. SocketsInv /\ [SocketsNext]_socketsVars => SocketsInv'
    BY SocketsInvStep
<1> QED
    BY <1>1, SocketsInvInit, PTL DEF SocketsSpec

(* xsocket.cc: a connection's characters keep their order both ways, only  *)
(* what follows a NUL in one read is lost of those read, and a stream      *)
(* stays on its connection, however descriptors are closed and reused.     *)
THEOREM StreamsInOrder == SocketsSpec => []StreamsKeepOrder
<1>1. SocketsInv => StreamsKeepOrder
    BY OrderOfTraffic DEF SocketsInv, StreamsKeepOrder, Own
<1> QED
    BY <1>1, SocketsInvariant, PTL

(* StreamSelecter: remove_stream() takes no other stream out of the        *)
(* vector, and a stream select() returns can be read without blocking.     *)
THEOREM SelecterIsSafe == SocketsSpec => []SelecterKeeps
<1>1. SocketsInv => SelecterKeeps
    BY DEF SocketsInv
<1> QED
    BY <1>1, SocketsInvariant, PTL
-----------------------------------------------------------------------------
(* A behaviour of one part is one of every part: the others do nothing.    *)
LEMMA PartsBehave ==
    PartsSpec => QueueSpec /\ ParallelSpec /\ SocketsSpec /\ AnalyzerSpec /\ KMeansSpec
<1>1. PartsInit => QueueInit /\ ParallelInit /\ SocketsInit /\ AnalyzerInit /\ KMeansInit
    BY DEF PartsInit
<1>2. [PartsNext]_partsVars =>
          /\ [QueueNext]_queueVars /\ [ParallelNext]_parallelVars /\ [SocketsNext]_socketsVars
          /\ [AnalyzerNext]_analyzerVars /\ [KMeansNext]_kmeansVars
    BY Zenon DEF PartsNext, partsVars
<1> QED
    BY <1>1, <1>2, PTL
    DEF PartsSpec, QueueSpec, ParallelSpec, SocketsSpec, AnalyzerSpec, KMeansSpec

(* The variables of the five parts keep their types, for all values of the *)
(* constants that MCParts does not fix.                                    *)
THEOREM TypesOfParts == PartsSpec => []PartsTypeOK
<1>1. QueueInv => QueueTypeOK
    BY DEF QueueInv
<1>2. ParallelInv => ParallelTypeOK
    BY DEF ParallelInv
<1>3. SocketsInv => SocketsTypeOK
    BY DEF SocketsInv
<1>4. AnalyzerInv => AnalyzerTypeOK
    BY DEF AnalyzerInv
<1>5. KMeansInv => KMeansTypeOK
    BY DEF KMeansInv
<1>6. QueueTypeOK /\ ParallelTypeOK /\ SocketsTypeOK /\ AnalyzerTypeOK /\ KMeansTypeOK => PartsTypeOK
    BY DEF PartsTypeOK
<1> QED
    BY <1>1, <1>2, <1>3, <1>4, <1>5, <1>6, PartsBehave, QueueInvariant, ParallelInvariant,
       SocketsInvariant, AnalyzerInvariant, KMeansInvariant, PTL
=============================================================================
