----------------------------- MODULE AppendLog -----------------------------
(***************************************************************************)
(* What logging backends promise to whoever owns their logger: each one is *)
(* an append-only log whose kept part (the bytes in the file, the entries  *)
(* of the vector) is at all times a prefix of everything logged, never     *)
(* shrinks, and is the whole log once the backend has been closed.         *)
(***************************************************************************)
EXTENDS Integers, Sequences

CONSTANT Name

VARIABLES log, kept, open   \* functions on Name

IsPrefixOf(s, t) == Len(s) <= Len(t) /\ s = SubSeq(t, 1, Len(s))

Init ==
    /\ log = [n \in Name |-> <<>>]
    /\ kept = [n \in Name |-> <<>>]
    /\ open = [n \in Name |-> TRUE]

Grow(n) ==
    /\ IsPrefixOf(log[n], log'[n])
    /\ IsPrefixOf(kept[n], kept'[n])
    /\ IsPrefixOf(kept'[n], log'[n])
    /\ ~open'[n] => kept'[n] = log'[n]

Rest(n) == log'[n] = log[n] /\ kept'[n] = kept[n] /\ ~open'[n]

Next == \A n \in Name : IF open[n] THEN Grow(n) ELSE Rest(n)

Spec == Init /\ [][Next]_<<log, kept, open>>
=============================================================================
