--------------------------- MODULE MutexVariable ---------------------------
(***************************************************************************)
(* MutexVariable<T> of platform/threading.h: one value of a template type  *)
(* T shared by several threads, behind the pthread mutex of class Mutex.   *)
(*                                                                         *)
(* A value of T is copied word by word, as a compiler copies any T wider   *)
(* than one machine word (and in no promised order); a T that fits in a    *)
(* word is the instance in which Word has one element.                     *)
(***************************************************************************)
EXTENDS Naturals

CONSTANTS
    Thread,         \* the threads that call get() and set()
    Word,           \* the machine words that make up a T
    Char,           \* what one word may hold
    NoThread        \* the owner of an unlocked mutex

ASSUME WordAssumption == Word # {}
ASSUME NoThreadAssumption == NoThread \notin Thread

Value == [Word -> Char]

VARIABLES
    where,      \* where each thread is inside get() or set()
    mx,         \* the holder of Mutex mx
    value,      \* the member `value', word by word
    todo,       \* the words a thread has still to copy
    local,      \* new_value of a set(), the copy get() returns
    committed,  \* history: the value of the last completed set()
    held        \* history: the whole values that were current, or being
                \* stored, at some time during a thread's get()

mutexVars == <<where, mx, value, todo, local, committed, held>>

Getting == {"get_bind", "get_copy", "get_return"}
Locked  == {"get_bind", "set_assign", "set_unlock", "thrown"}

MutexTypeOK ==
    /\ where \in [Thread -> {"idle"} \cup Getting \cup Locked]
    /\ mx \in Thread \cup {NoThread}
    /\ value \in Value
    /\ todo \in [Thread -> SUBSET Word]
    /\ local \in [Thread -> Value]
    /\ committed \in Value
    /\ held \in [Thread -> SUBSET Value]

(* MutexVariable(initial): nobody uses the object while it is constructed. *)
MutexInit ==
    /\ where = [t \in Thread |-> "idle"]
    /\ mx = NoThread
    /\ value \in Value
    /\ todo = [t \in Thread |-> {}]
    /\ local = [t \in Thread |-> value]
    /\ committed = value
    /\ held = [t \in Thread |-> {}]

Goto(t, from, to) == where[t] = from /\ where' = [where EXCEPT ![t] = to]

(* Mutex::lock() returns: pthread_mutex_lock blocks while the mutex is     *)
(* owned, whoever owns it.                                                 *)
Lock(t) == mx = NoThread /\ mx' = t

\* Mutant: the unlock is missing.
UnlockMissing(t) == mx' = mx

Unlock(t) == mx' = NoThread

-----------------------------------------------------------------------------
(* get(): lock, bind a reference, unlock, and only then copy through it.   *)

GetLock(t) ==
    /\ Goto(t, "idle", "get_bind")
    /\ Lock(t)
    /\ held' = [held EXCEPT ![t] = {value}]
    /\ UNCHANGED <<value, todo, local, committed>>

\* Mutant: the copy is one word longer than the object.
GetUnlockPastEnd(t) ==
    /\ Goto(t, "get_bind", "get_copy")
    /\ Unlock(t)
    /\ todo' = [todo EXCEPT ![t] = Word \cup {"past the end"}]
    /\ UNCHANGED <<value, local, committed, held>>

GetUnlock(t) ==
    /\ Goto(t, "get_bind", "get_copy")
    /\ Unlock(t)
    /\ todo' = [todo EXCEPT ![t] = Word]
    /\ UNCHANGED <<value, local, committed, held>>

\* Mutant: an index bound lets the copy stop one word early.
GetCopyWordShort(t) ==
    /\ where[t] = "get_copy"
    /\ \E w \in todo[t] :
          /\ local' = [local EXCEPT ![t] = [@ EXCEPT ![w] = value[w]]]
          /\ todo' = [todo EXCEPT ![t] = @ \ {w}]
    /\ where' = [where EXCEPT ![t] = "get_return"]
    /\ UNCHANGED <<mx, value, committed, held>>

GetCopyWord(t) ==
    /\ where[t] = "get_copy"
    /\ \E w \in todo[t] :
          /\ local' = [local EXCEPT ![t] = [@ EXCEPT ![w] = value[w]]]
          /\ todo' = [todo EXCEPT ![t] = @ \ {w}]
          /\ where' = [where EXCEPT ![t] =
                          IF todo[t] = {w} THEN "get_return" ELSE @]
    /\ UNCHANGED <<mx, value, committed, held>>

GetReturn(t) ==
    /\ Goto(t, "get_return", "idle")
    /\ held' = [held EXCEPT ![t] = {}]
    /\ UNCHANGED <<mx, value, todo, local, committed>>

-----------------------------------------------------------------------------
(* set(new_value): the assignment is made word by word under the lock.     *)

SetLock(t) ==
    /\ Goto(t, "idle", "set_assign")
    /\ Lock(t)
    /\ \E v \in Value :
          /\ local' = [local EXCEPT ![t] = v]
          /\ held' = [u \in Thread |->
                         IF where[u] \in Getting THEN held[u] \cup {v} ELSE held[u]]
    /\ todo' = [todo EXCEPT ![t] = Word]
    /\ UNCHANGED <<value, committed>>

SetAssignWord(t) ==
    /\ where[t] = "set_assign"
    /\ \E w \in todo[t] :
          /\ value' = [value EXCEPT ![w] = local[t][w]]
          /\ todo' = [todo EXCEPT ![t] = @ \ {w}]
          /\ where' = [where EXCEPT ![t] =
                          IF todo[t] = {w} THEN "set_unlock" ELSE @]
    /\ UNCHANGED <<mx, local, committed, held>>

SetUnlock(t) ==
    /\ Goto(t, "set_unlock", "idle")
    /\ Unlock(t)
    /\ committed' = local[t]
    /\ UNCHANGED <<value, todo, local, held>>

(* T::operator= throws half way: the exception leaves set() past           *)
(* mx.unlock(), for there is no guard object, and is not followed further. *)
\* Mutant: a guard object unlocks the mutex while the value is torn.
SetThrowUnlocking(t) ==
    /\ Goto(t, "set_assign", "thrown")
    /\ Unlock(t)
    /\ UNCHANGED <<value, todo, local, committed, held>>

SetThrow(t) ==
    /\ Goto(t, "set_assign", "thrown")
    /\ todo' = [todo EXCEPT ![t] = {}]
    /\ UNCHANGED <<mx, value, local, committed, held>>

-----------------------------------------------------------------------------
(* What a thread does without waiting for anybody.                         *)
Proceed(t) ==
    \/ GetUnlock(t) \/ GetCopyWord(t) \/ GetReturn(t)
    \/ SetAssignWord(t) \/ SetUnlock(t) \/ SetThrow(t)

MutexNext == \E t \in Thread : GetLock(t) \/ SetLock(t) \/ Proceed(t)

MutexSpec == MutexInit /\ [][MutexNext]_mutexVars

(* The operating system keeps scheduling a thread that can run.  Nothing   *)
(* is assumed of the mutex: pthread_mutex_lock promises no order.          *)
MutexFairness == \A t \in Thread : WF_mutexVars(Proceed(t))

-----------------------------------------------------------------------------
(* Mutual exclusion, and no lock lost: the owner of mx is the one thread   *)
(* inside a locked section of get() or set(), or the one an exception took *)
(* out of set() with the mutex still locked.                               *)
LockedSectionOwned == \A t \in Thread : mx = t <=> where[t] \in Locked

(* No torn store: whenever the mutex is free, `value' is the argument of   *)
(* one completed set() in all of its words, however the copies interleaved.*)
FreeMeansCommitted == mx = NoThread => value = committed

(* Weakest promise of get(): each word it returns belonged to some value   *)
(* that was current or being stored while the call ran, never to an older  *)
(* one left in the caller's copy.                                          *)
WordsAreCurrent ==
    \A t \in Thread : where[t] = "get_return" =>
        \A w \in Word : \E v \in held[t] : v[w] = local[t][w]

(* What "thread-safe read/write access" asks of get(): the value returned  *)
(* was, as a whole, the value of the variable at some time during the call.*)
GetIsAtomic ==
    \A t \in Thread : where[t] = "get_return" => local[t] \in held[t]

(* `value' changes only under the hand of the owner of mx.                 *)
OnlyOwnerStores ==
    [][value' # value => \E t \in Thread : mx = t /\ mx' = t]_mutexVars

(* A locked mutex is unlocked again, unless the assignment throws: then    *)
(* every later get() and set() of every thread blocks for good.            *)
LockReleased == \A t \in Thread : mx = t ~> (mx # t \/ where[t] = "thrown")
=============================================================================
