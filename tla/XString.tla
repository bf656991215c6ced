------------------------------- MODULE XString -----------------------------
(***************************************************************************)
(* The methods of core/xstring.cc that cut strings apart and put them      *)
(* together.  A string is a sequence of atoms: separators, blanks and      *)
(* other characters that matter one by one, and words that nothing cuts.   *)
(* A separator is one atom.                                                *)
(***************************************************************************)
EXTENDS Integers, Sequences, SequencesExt

(* A sequence, of whatever; a list of strings.                             *)
IsSequence(s) == s \in Seq({s[i] : i \in DOMAIN s})
AreSequences(list) == IsSequence(list) /\ \A i \in 1..Len(list) : IsSequence(list[i])

Occurs(c, s) == \E i \in 1..Len(s) : s[i] = c

(* strip(c), of a string it does not throw on.                             *)
Strip(s, c) ==
    LET other == {i \in 1..Len(s) : s[i] # c}
    IN  IF other = {} THEN <<>> ELSE SubSeq(s, Min(other), Max(other))

(* When nothing but c is there, the first loop erases it all and the       *)
(* second one asks for substr(length() - 1): out_of_range.                 *)
StripThrows(s, c) == s # <<>> /\ \A i \in 1..Len(s) : s[i] = c

(* split(c): one string more than there are separators, never none.        *)
Split(s, c) ==
    LET cuts == {0, Len(s) + 1} \cup {i \in 1..Len(s) : s[i] = c}
        cut(k) == CHOOSE i \in cuts : Cardinality({j \in cuts : j < i}) = k
    IN  [k \in 1..(Cardinality(cuts) - 1) |-> SubSeq(s, cut(k - 1) + 1, cut(k) - 1)]

(* XString(c).join(list): nothing for an empty list.                       *)
Join(list, c) ==
    FlattenSeq([i \in 1..Len(list) |-> IF i = 1 THEN list[i] ELSE <<c>> \o list[i]])
=============================================================================
