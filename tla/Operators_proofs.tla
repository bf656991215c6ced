-------------------------- MODULE Operators_proofs --------------------------
(* Lemmas about the operators that the models are built from: those of     *)
(* XString, for strings of any length, up to what split() makes of joined  *)
(* strings; the sums, folds and selections of the community modules, for   *)
(* any finite set and any sequence; powers, and loops as functions.  They  *)
(* rest on induction over the natural numbers, here in a form with sets.   *)
EXTENDS XString, SequenceTheorems, FiniteSetTheorems, WellFoundedInduction, TLAPS

-----------------------------------------------------------------------------
(* The numbers below others are well-founded.                              *)
LEMMA LessIsWellFounded == IsWellFoundedOn({ss \in Nat \X Nat : ss[1] < ss[2]}, Nat)
BY NatLessThanWellFounded DEF OpToRel

(* A set of natural numbers has a least element.                           *)
LEMMA LeastElement ==
    ASSUME NEW T, T \subseteq Nat, T # {}
    PROVE  \E x \in T : \A y \in T : x <= y
<1> DEFINE R == {ss \in Nat \X Nat : ss[1] < ss[2]}
<1>1. IsWellFoundedOn(R, Nat)
    BY LessIsWellFounded
<1>2. \A x, y \in Nat : y < x => <<y, x>> \in R
    OBVIOUS
<1> HIDE DEF R
<1>3. PICK x \in T : \A y \in T : ~ (<<y, x>> \in R)
    BY <1>1, WFMin
<1>4. ASSUME NEW y \in T PROVE x <= y
  <2>1. x \in Nat /\ y \in Nat
      OBVIOUS
  <2>2. ~ (y < x)
      BY <1>2, <1>3, <2>1
  <2> QED
      BY <2>1, <2>2
<1> QED
    BY <1>4

(* A set that holds 0 and with every number the next one holds them all.   *)
LEMMA Induction ==
    ASSUME NEW T, 0 \in T, \A n \in Nat : n \in T => n + 1 \in T
    PROVE  Nat \subseteq T
<1> DEFINE U == {n \in Nat : n \notin T}
<1>1. CASE U # {}
  <2>1. U \subseteq Nat
      OBVIOUS
  <2> HIDE DEF U
  <2>2. PICK x \in U : \A y \in U : x <= y
      BY <1>1, <2>1, LeastElement
  <2>3. x \in Nat /\ x # 0 /\ x - 1 \in Nat /\ x - 1 \notin U
      BY <2>2 DEF U
  <2>4. x \in T
      BY <2>3 DEF U
  <2> QED
      BY <2>2, <2>4 DEF U
<1> QED
    BY <1>1

(* A set of numbers between two bounds has a least and a greatest element. *)
LEMMA MinAndMax ==
    ASSUME NEW a \in Int, NEW b \in Int, NEW T, T \subseteq a..b, T # {}
    PROVE  /\ Min(T) \in T /\ \A y \in T : Min(T) <= y
           /\ Max(T) \in T /\ \A y \in T : y <= Max(T)
<1>1. \E x \in T : \A y \in T : x <= y
  <2> DEFINE U == {n \in Nat : a + n \in T}
  <2>1. U \subseteq Nat
      OBVIOUS
  <2>2. \A y \in T : y - a \in U /\ y \in Int
      OBVIOUS
  <2> HIDE DEF U
  <2>3. PICK u \in U : \A y \in U : u <= y
      BY <2>1, <2>2, LeastElement
  <2>4. a + u \in T /\ u \in Nat
      BY <2>3 DEF U
  <2>5. \A y \in T : a + u <= y
      BY <2>2, <2>3, <2>4
  <2> QED
      BY <2>4, <2>5
<1>2. \E x \in T : \A y \in T : y <= x
  <2> DEFINE U == {n \in Nat : b - n \in T}
  <2>1. U \subseteq Nat
      OBVIOUS
  <2>2. \A y \in T : b - y \in U /\ y \in Int
      OBVIOUS
  <2> HIDE DEF U
  <2>3. PICK u \in U : \A y \in U : u <= y
      BY <2>1, <2>2, LeastElement
  <2>4. b - u \in T /\ u \in Nat
      BY <2>3 DEF U
  <2>5. \A y \in T : y <= b - u
      BY <2>2, <2>3, <2>4
  <2> QED
      BY <2>4, <2>5
<1>3. \A x, y \in T : x >= y <=> y <= x
    OBVIOUS
<1> QED
    BY <1>1, <1>2, <1>3 DEF Min, Max

-----------------------------------------------------------------------------
(* A sequence of elements of any set is one.                               *)
LEMMA SequenceOf ==
    ASSUME NEW S, NEW s \in Seq(S)
    PROVE  IsSequence(s)
<1>1. s \in [1..Len(s) -> S] /\ Len(s) \in Nat
    BY LenProperties
<1>2. s \in [1..Len(s) -> {s[i] : i \in DOMAIN s}]
    BY <1>1
<1> QED
    BY <1>1, <1>2 DEF IsSequence

(* What is known of every sequence.                                        *)
LEMMA SequenceLen ==
    ASSUME NEW s, IsSequence(s)
    PROVE  Len(s) \in Nat /\ DOMAIN s = 1..Len(s) /\ \E S : s \in Seq(S)
BY LenProperties DEF IsSequence

(* A function on the first n numbers is a sequence of length n.            *)
LEMMA FunctionIsSequence ==
    ASSUME NEW n \in Nat, NEW S, NEW s \in [1..n -> S]
    PROVE  IsSequence(s) /\ Len(s) = n
<1>1. s \in Seq(S)
    OBVIOUS
<1> QED
    BY <1>1, SequenceOf

(* The same of a function whose values are nowhere in particular.          *)
LEMMA DomainIsSequence ==
    ASSUME NEW n \in Nat, NEW s, s = [i \in 1..n |-> s[i]]
    PROVE  IsSequence(s) /\ Len(s) = n
<1>1. s \in [1..n -> {s[i] : i \in 1..n}]
    OBVIOUS
<1> QED
    BY <1>1, FunctionIsSequence

(* Appending keeps a sequence one.                                         *)
LEMMA AppendIsSequence ==
    ASSUME NEW s, IsSequence(s), NEW e
    PROVE  /\ IsSequence(Append(s, e)) /\ Len(Append(s, e)) = Len(s) + 1
           /\ Append(s, e)[Len(s) + 1] = e
           /\ \A i \in 1..Len(s) : Append(s, e)[i] = s[i]
<1>1. PICK S : s \in Seq(S)
    BY SequenceLen
<1> DEFINE T == S \cup {e}
<1>2. s \in Seq(T) /\ e \in T
    BY <1>1
<1> HIDE DEF T
<1>3. /\ Append(s, e) \in Seq(T) /\ Len(Append(s, e)) = Len(s) + 1
      /\ Append(s, e)[Len(s) + 1] = e
      /\ \A i \in 1..Len(s) : Append(s, e)[i] = s[i]
    BY <1>2, AppendProperties
<1>4. IsSequence(Append(s, e))
    BY <1>3, SequenceOf
<1> QED
    BY <1>3, <1>4

(* So does overwriting an element.                                         *)
LEMMA ExceptIsSequence ==
    ASSUME NEW s, IsSequence(s), NEW i, NEW e
    PROVE  IsSequence([s EXCEPT ![i] = e]) /\ Len([s EXCEPT ![i] = e]) = Len(s)
<1>1. PICK S : s \in Seq(S)
    BY SequenceLen
<1>2. s \in [1..Len(s) -> S] /\ Len(s) \in Nat
    BY <1>1, LenProperties
<1>3. [s EXCEPT ![i] = e] \in [1..Len(s) -> S \cup {e}]
    BY <1>2
<1> QED
    BY <1>2, <1>3, FunctionIsSequence

(* A part of it is a sequence.                                             *)
LEMMA SubSeqIsSequence ==
    ASSUME NEW s, NEW m \in Int, NEW n \in Int
    PROVE  /\ IsSequence(SubSeq(s, m, n))
           /\ Len(SubSeq(s, m, n)) = IF m <= n THEN n - m + 1 ELSE 0
           /\ \A i \in 1..n - m + 1 : SubSeq(s, m, n)[i] = s[m + i - 1]
<1> DEFINE S == {s[j] : j \in m..n}
<1>1. \A i \in m..n : s[i] \in S
    OBVIOUS
<1> HIDE DEF S
<1>2. /\ SubSeq(s, m, n) \in Seq(S)
      /\ Len(SubSeq(s, m, n)) = IF m <= n THEN n - m + 1 ELSE 0
      /\ \A i \in 1..n - m + 1 : SubSeq(s, m, n)[i] = s[m + i - 1]
    BY <1>1, SubSeqProperties
<1>3. IsSequence(SubSeq(s, m, n))
    BY <1>2, SequenceOf
<1> QED
    BY <1>2, <1>3

(* Two after one another are one.                                          *)
LEMMA ConcatIsSequence ==
    ASSUME NEW s, NEW t, IsSequence(s), IsSequence(t)
    PROVE  /\ IsSequence(s \o t) /\ Len(s \o t) = Len(s) + Len(t)
           /\ \A i \in 1..Len(s) + Len(t) :
                 (s \o t)[i] = IF i <= Len(s) THEN s[i] ELSE t[i - Len(s)]
<1>1. PICK S, T : s \in Seq(S) /\ t \in Seq(T)
    BY SequenceLen
<1>2. s \in Seq(S \cup T) /\ t \in Seq(S \cup T)
    BY <1>1
<1> QED
    BY <1>2, ConcatProperties, SequenceOf

-----------------------------------------------------------------------------
(* The elements of a finite set, one after the other.                      *)
LEMMA SetToSeqIsSequence ==
    ASSUME NEW S, IsFiniteSet(S)
    PROVE  /\ IsSequence(SetToSeq(S)) /\ Len(SetToSeq(S)) = Cardinality(S)
           /\ SetToSeq(S) \in [1..Cardinality(S) -> S] /\ IsInjective(SetToSeq(S))
<1>1. Cardinality(S) \in Nat /\ ExistsBijection(1..Cardinality(S), S)
    BY FS_CardinalityType
<1>2. \E f \in [1..Cardinality(S) -> S] : IsInjective(f)
    BY <1>1 DEF ExistsBijection, Bijection, Injection, IsInjective
<1>3. SetToSeq(S) \in [1..Cardinality(S) -> S] /\ IsInjective(SetToSeq(S))
    BY <1>2 DEF SetToSeq
<1> QED
    BY <1>1, <1>3, FunctionIsSequence

Flattens(f, seqs, n) ==
    f = [i \in 1..n |-> IF i = 1 THEN seqs[i] ELSE f[i - 1] \o seqs[i]]

(* What FlattenSeq computes, part by part.                                 *)
LEMMA FlattenRecursion ==
    ASSUME NEW seqs, IsSequence(seqs), Len(seqs) # 0
    PROVE  \E f : Flattens(f, seqs, Len(seqs)) /\ FlattenSeq(seqs) = f[Len(seqs)]
<1> DEFINE T == {n \in Nat : \E f : Flattens(f, seqs, n)}
<1>1. 0 \in T
  <2>1. Flattens([i \in 1..0 |-> seqs[i]], seqs, 0)
      BY DEF Flattens
  <2> QED
      BY <2>1
<1>2. ASSUME NEW n \in Nat, n \in T
      PROVE  n + 1 \in T
  <2>1. PICK f : Flattens(f, seqs, n)
      BY <1>2
  <2> DEFINE g == [i \in 1..n + 1 |->
                      IF i <= n THEN f[i]
                      ELSE IF i = 1 THEN seqs[i] ELSE f[i - 1] \o seqs[i]]
  <2>2. ASSUME NEW i \in 1..n + 1
        PROVE  g[i] = IF i = 1 THEN seqs[i] ELSE g[i - 1] \o seqs[i]
    <3>1. CASE i <= n
      <4>1. i \in 1..n
          BY <3>1
      <4>2. f[i] = IF i = 1 THEN seqs[i] ELSE f[i - 1] \o seqs[i]
          BY <2>1, <4>1 DEF Flattens
      <4>3. g[i] = f[i] /\ (i # 1 => g[i - 1] = f[i - 1])
          BY <3>1, <4>1
      <4> QED
          BY <4>2, <4>3
    <3>2. CASE ~ (i <= n)
      <4>1. i # 1 => g[i - 1] = f[i - 1]
          BY <3>2
      <4> QED
          BY <3>2, <4>1
    <3> QED
        BY <3>1, <3>2
  <2>3. DOMAIN g = 1..n + 1
      OBVIOUS
  <2> HIDE DEF g
  <2>4. g = [i \in 1..n + 1 |-> IF i = 1 THEN seqs[i] ELSE g[i - 1] \o seqs[i]]
    <3>1. g = [i \in 1..n + 1 |-> g[i]]
        BY <2>3 DEF g
    <3> QED
        BY <2>2, <3>1
  <2>5. Flattens(g, seqs, n + 1)
      BY <2>4 DEF Flattens
  <2> QED
      BY <2>5
<1>3. Len(seqs) \in Nat
    BY SequenceLen
<1>4. \E f : Flattens(f, seqs, Len(seqs))
  <2> HIDE DEF T
  <2>1. Len(seqs) \in T
      BY <1>1, <1>2, <1>3, Induction
  <2> QED
      BY <2>1 DEF T
<1>5. FlattenSeq(seqs) = (CHOOSE f : Flattens(f, seqs, Len(seqs)))[Len(seqs)]
    BY Zenon DEF FlattenSeq, Flattens
<1> QED
    BY <1>4, <1>5

ElementsOf(seqs) == {seqs[p[1]][p[2]] : p \in {q \in (1..Len(seqs)) \X Nat :
                                                 q[2] \in 1..Len(seqs[q[1]])}}

(* Sequences flattened are a sequence of their elements.                   *)
LEMMA FlattenIsSequence ==
    ASSUME NEW seqs, AreSequences(seqs)
    PROVE  FlattenSeq(seqs) \in Seq(ElementsOf(seqs)) /\ IsSequence(FlattenSeq(seqs))
<1> DEFINE E == ElementsOf(seqs)
<1>1. IsSequence(seqs) /\ Len(seqs) \in Nat /\ \A i \in 1..Len(seqs) : IsSequence(seqs[i])
    BY SequenceLen DEF AreSequences
<1>4. ASSUME NEW i \in 1..Len(seqs)
      PROVE  seqs[i] \in Seq(E)
  <2>1. Len(seqs[i]) \in Nat /\ \E S : seqs[i] \in Seq(S)
      BY <1>1, SequenceLen
  <2>3. ASSUME NEW j \in 1..Len(seqs[i])
        PROVE  seqs[i][j] \in E
    <3> DEFINE p == <<i, j>>
    <3>1. p \in (1..Len(seqs)) \X Nat /\ p[1] = i /\ p[2] = j
        BY <2>1
    <3> HIDE DEF p
    <3>2. seqs[p[1]][p[2]] \in E
        BY <3>1 DEF ElementsOf
    <3> QED
        BY <3>1, <3>2
  <2> HIDE DEF E
  <2> QED
      BY <2>1, <2>3
<1> HIDE DEF E
<1>2. ASSUME Len(seqs) = 0
      PROVE  FlattenSeq(seqs) \in Seq(E)
  <2>1. seqs = <<>>
      BY <1>1, <1>2, SequenceLen
  <2>2. FlattenSeq(seqs) = seqs
      BY <1>2 DEF FlattenSeq
  <2>3. << >> \in Seq(E)
      OBVIOUS
  <2> QED
      BY <2>1, <2>2, <2>3, Zenon
<1>3. ASSUME Len(seqs) # 0
      PROVE  FlattenSeq(seqs) \in Seq(E)
  <2>1. PICK f : Flattens(f, seqs, Len(seqs)) /\ FlattenSeq(seqs) = f[Len(seqs)]
      BY <1>1, <1>3, FlattenRecursion
  <2>2. \A i \in 1..Len(seqs) : f[i] = IF i = 1 THEN seqs[i] ELSE f[i - 1] \o seqs[i]
      BY <2>1 DEF Flattens
  <2> DEFINE T == {n \in Nat : n \in 1..Len(seqs) => f[n] \in Seq(E)}
  <2>3. 0 \in T
      OBVIOUS
  <2>4. ASSUME NEW n \in Nat, n \in T, n + 1 \in 1..Len(seqs)
        PROVE  f[n + 1] \in Seq(E)
    <3>1. CASE n = 0
        BY <1>4, <2>2, <2>4, <3>1
    <3>2. CASE n # 0
      <4>1. n \in 1..Len(seqs) /\ n + 1 # 1 /\ (n + 1) - 1 = n
          BY <1>1, <2>4, <3>2
      <4>2. f[n + 1] = f[n] \o seqs[n + 1]
          BY <2>2, <2>4, <4>1
      <4>3. f[n] \in Seq(E) /\ seqs[n + 1] \in Seq(E)
          BY <1>4, <2>4, <4>1
      <4> QED
          BY <4>2, <4>3, ConcatProperties
    <3> QED
        BY <3>1, <3>2
  <2>5. \A n \in Nat : n \in T => n + 1 \in T
      BY <2>4
  <2> HIDE DEF T
  <2>6. Len(seqs) \in T
      BY <1>1, <2>3, <2>5, Induction
  <2> QED
      BY <1>1, <1>3, <2>1, <2>6 DEF T
<1>5. FlattenSeq(seqs) \in Seq(E)
    BY <1>1, <1>2, <1>3
<1>6. IsSequence(FlattenSeq(seqs))
    BY <1>5, SequenceOf
<1> QED
    BY <1>5, <1>6 DEF E

(* strip() yields a string.                                                *)
LEMMA StripIsSequence ==
    ASSUME NEW s, IsSequence(s), NEW c
    PROVE  IsSequence(Strip(s, c))
<1> DEFINE other == {i \in 1..Len(s) : s[i] # c}
<1>1. Strip(s, c) = IF other = {} THEN <<>> ELSE SubSeq(s, Min(other), Max(other))
    BY DEF Strip
<1>2. CASE other # {}
  <2>1. Len(s) \in Nat
      BY SequenceLen
  <2>2. Min(other) \in other /\ Max(other) \in other
      BY <1>2, <2>1, MinAndMax
  <2>3. Min(other) \in Int /\ Max(other) \in Int
      BY <2>2
  <2> QED
      BY <1>1, <1>2, <2>3, SubSeqIsSequence
<1>3. CASE other = {}
    BY <1>1, <1>3, EmptySeq, SequenceOf
<1> QED
    BY <1>2, <1>3

Rank(C, i) == Cardinality({j \in C : j < i})
Bounded(C) == \E a, b \in Int : C \subseteq a..b

(* In a set of numbers there is one with any number of others before it.   *)
LEMMA Ranks ==
    ASSUME NEW C, Bounded(C)
    PROVE  /\ IsFiniteSet(C) /\ Cardinality(C) \in Nat
           /\ \A k \in Nat : k < Cardinality(C) => \E i \in C : Rank(C, i) = k
<1> PICK a \in Int, b \in Int : C \subseteq a..b
    BY DEF Bounded
<1>1. IsFiniteSet(C) /\ Cardinality(C) \in Nat
    BY FS_Interval, FS_Subset, FS_CardinalityType
<1> DEFINE Below(i) == {j \in C : j < i}
           T == {k \in Nat : k < Cardinality(C) => \E i \in C : Cardinality(Below(i)) = k}
<1>2. \A i : Below(i) \subseteq C /\ IsFiniteSet(Below(i))
    BY <1>1, FS_Subset
<1>0. \A i \in C : i \in Int
    OBVIOUS
<1>3. 0 \in T
  <2>1. ASSUME 0 < Cardinality(C)
        PROVE  \E i \in C : Cardinality(Below(i)) = 0
    <3>1. C # {}
        BY <2>1, FS_EmptySet
    <3>2. PICK m \in C : \A j \in C : m <= j
        BY <3>1, MinAndMax
    <3>3. Below(m) = {}
      <4>1. ASSUME NEW j \in C PROVE ~ (j < m)
          BY <1>0, <3>2
      <4> QED
          BY <4>1
    <3> QED
        BY <3>2, <3>3, FS_EmptySet
  <2> QED
      BY <2>1
<1>4. ASSUME NEW k \in Nat, k \in T, k + 1 < Cardinality(C)
      PROVE  \E i \in C : Cardinality(Below(i)) = k + 1
  <2>1. PICK i \in C : Cardinality(Below(i)) = k
      BY <1>1, <1>4
  <2>2. Cardinality(Below(i) \cup {i}) = k + 1
    <3>1. i \notin Below(i)
        OBVIOUS
    <3> HIDE DEF Below
    <3> QED
        BY <1>2, <2>1, <3>1, FS_AddElement
  <2> DEFINE Above == {j \in C : j > i}
  <2>3. Above # {}
    <3>1. ASSUME Above = {} PROVE FALSE
      <4>1. C = Below(i) \cup {i}
        <5>1. ASSUME NEW j \in C PROVE j < i \/ j = i
            BY <1>0, <3>1
        <5> QED
            BY <5>1
      <4> QED
          BY <1>4, <2>2, <4>1
    <3> QED
        BY <3>1
  <2>4. PICK m \in Above : \A j \in Above : m <= j
      BY <2>3, MinAndMax
  <2>5. Below(m) = Below(i) \cup {i}
    <3>1. m \in C /\ m > i
        BY <2>4
    <3>2. ASSUME NEW j \in C PROVE j < m <=> (j < i \/ j = i)
      <4>1. CASE j > i
        <5>1. j \in Above
            BY <4>1
        <5> HIDE DEF Above
        <5> QED
            BY <1>0, <2>4, <3>1, <4>1, <5>1
      <4>2. CASE ~ (j > i)
          BY <1>0, <3>1, <4>2
      <4> QED
          BY <4>1, <4>2
    <3> HIDE DEF Above
    <3> QED
        BY <3>2
  <2>6. m \in C
      BY <2>4
  <2> HIDE DEF Below, Above
  <2> QED
      BY <2>2, <2>5, <2>6
<1>5. \A k \in Nat : k \in T => k + 1 \in T
  <2> HIDE DEF Below
  <2> QED
      BY <1>4
<1>6. Nat \subseteq T
  <2> HIDE DEF T
  <2> QED
      BY <1>3, <1>5, Induction
<1> QED
    BY <1>1, <1>6 DEF Rank

(* split() yields one string at least.                                     *)
LEMMA SplitIsSequences ==
    ASSUME NEW s, IsSequence(s), NEW c
    PROVE  /\ AreSequences(Split(s, c)) /\ Len(Split(s, c)) >= 1
           /\ Occurs(c, s) => Len(Split(s, c)) >= 2
<1> DEFINE cuts == {0, Len(s) + 1} \cup {i \in 1..Len(s) : s[i] = c}
           cut(k) == CHOOSE i \in cuts : Cardinality({j \in cuts : j < i}) = k
           parts == Cardinality(cuts) - 1
<1>1. Split(s, c) = [k \in 1..parts |-> SubSeq(s, cut(k - 1) + 1, cut(k) - 1)]
    BY DEF Split
<1>2. Len(s) \in Nat
    BY SequenceLen
<1>3. cuts \subseteq 0..Len(s) + 1 /\ 0 \in cuts /\ Len(s) + 1 \in cuts
    BY <1>2
<1>4. \A i \in cuts : i \in Int
    BY <1>2
<1> HIDE DEF cuts
<1>5. /\ IsFiniteSet(cuts) /\ Cardinality(cuts) \in Nat
      /\ \A k \in Nat : k < Cardinality(cuts) => \E i \in cuts : Rank(cuts, i) = k
  <2>1. Bounded(cuts)
    <3>1. Len(s) + 1 \in Int /\ 0 \in Int
        BY <1>2
    <3> QED
        BY <1>3, <3>1 DEF Bounded
  <2> QED
      BY <2>1, Ranks
<1>6. \A k \in Nat : k < Cardinality(cuts) => cut(k) \in Int
    BY <1>4, <1>5 DEF Rank
<1>7. parts \in Nat /\ parts >= 1
  <2>1. {0, Len(s) + 1} \subseteq cuts /\ IsFiniteSet({0, Len(s) + 1}) /\ Cardinality({0, Len(s) + 1}) = 2
    <3>1. IsFiniteSet({0}) /\ Cardinality({0}) = 1
        BY FS_Singleton
    <3>2. Len(s) + 1 \notin {0}
        BY <1>2
    <3>3. IsFiniteSet({0} \cup {Len(s) + 1}) /\ Cardinality({0} \cup {Len(s) + 1}) = 1 + 1
        BY <3>1, <3>2, FS_AddElement
    <3>4. {0} \cup {Len(s) + 1} = {0, Len(s) + 1}
        OBVIOUS
    <3> QED
        BY <1>3, <3>3, <3>4
  <2>2. 2 <= Cardinality(cuts)
      BY <1>5, <2>1, FS_Subset
  <2> QED
      BY <1>5, <2>2
<1> HIDE DEF cut, parts
<1>8. IsSequence(Split(s, c)) /\ Len(Split(s, c)) = parts
  <2>1. Split(s, c) = [k \in 1..parts |-> Split(s, c)[k]]
      BY <1>1
  <2> QED
      BY <1>7, <2>1, DomainIsSequence
<1>9. ASSUME NEW k \in 1..parts
      PROVE  IsSequence(Split(s, c)[k])
  <2>1. cut(k - 1) \in Int /\ cut(k) \in Int
      BY <1>5, <1>6, <1>7 DEF parts
  <2>2. Split(s, c)[k] = SubSeq(s, cut(k - 1) + 1, cut(k) - 1)
      BY <1>1
  <2> QED
      BY <2>1, <2>2, SubSeqIsSequence
<1>10. ASSUME Occurs(c, s) PROVE parts >= 2
  <2>1. PICK i \in 1..Len(s) : s[i] = c
      BY <1>10 DEF Occurs
  <2> DEFINE U == ({0} \cup {i}) \cup {Len(s) + 1}
  <2>2. U \subseteq cuts
      BY <1>3, <2>1 DEF cuts
  <2>3. IsFiniteSet({0}) /\ Cardinality({0}) = 1
      BY FS_Singleton
  <2>4. i \notin {0} /\ Len(s) + 1 \notin {0} \cup {i}
      BY <1>2
  <2>5. IsFiniteSet({0} \cup {i}) /\ Cardinality({0} \cup {i}) = 2
      BY <2>3, <2>4, FS_AddElement
  <2>6. IsFiniteSet(U) /\ Cardinality(U) = 3
    <3> DEFINE V == {0} \cup {i}
               e == Len(s) + 1
    <3>1. IsFiniteSet(V) /\ Cardinality(V) = 2 /\ e \notin V
        BY <2>4, <2>5
    <3> HIDE DEF V, e
    <3>2. IsFiniteSet(V \cup {e}) /\ Cardinality(V \cup {e}) = 2 + 1
        BY <3>1, FS_AddElement
    <3> QED
        BY <3>2 DEF V, e
  <2> HIDE DEF U
  <2>7. 3 <= Cardinality(cuts)
      BY <1>5, <2>2, <2>6, FS_Subset
  <2> QED
      BY <1>5, <2>7 DEF parts
<1> QED
    BY <1>7, <1>8, <1>9, <1>10 DEF AreSequences

(* join() yields a string.                                                 *)
LEMMA JoinIsSequence ==
    ASSUME NEW list, AreSequences(list), NEW c
    PROVE  IsSequence(Join(list, c))
<1> DEFINE parts == [i \in 1..Len(list) |-> IF i = 1 THEN list[i] ELSE <<c>> \o list[i]]
<1>1. Len(list) \in Nat
    BY SequenceLen DEF AreSequences
<1>2. IsSequence(parts) /\ Len(parts) = Len(list)
  <2>1. parts = [i \in 1..Len(list) |-> parts[i]]
      OBVIOUS
  <2> HIDE DEF parts
  <2> QED
      BY <1>1, <2>1, DomainIsSequence
<1>3. ASSUME NEW i \in 1..Len(list)
      PROVE  IsSequence(parts[i])
  <2>1. <<c>> \in Seq({c})
      OBVIOUS
  <2>2. IsSequence(<<c>>) /\ IsSequence(list[i])
      BY <2>1, SequenceOf DEF AreSequences
  <2>3. IsSequence(<<c>> \o list[i])
      BY <2>2, ConcatIsSequence
  <2> QED
      BY <2>2, <2>3
<1>4. AreSequences(parts)
    BY <1>2, <1>3 DEF AreSequences
<1>5. Join(list, c) = FlattenSeq(parts)
    BY DEF Join
<1> QED
    BY <1>4, <1>5, FlattenIsSequence

-----------------------------------------------------------------------------
(* Sums of functions over finite sets.                                     *)

Picked(s) == CHOOSE x \in s : TRUE

(* g holds the sums over the subsets of S of up to n elements, taken in    *)
(* the order in which SumFunctionOnSet takes them.                         *)
Small(S, n) == {s \in SUBSET S : Cardinality(s) <= n}
Sums(g, fun, D) == g = [s \in D |-> IF s = {} THEN 0 ELSE fun[Picked(s)] + g[s \ {Picked(s)}]]

(* Taking the picked element out.                                           *)
LEMMA WithoutPicked ==
    ASSUME NEW S, IsFiniteSet(S), NEW s \in SUBSET S, s # {}
    PROVE  /\ IsFiniteSet(s) /\ Cardinality(s) \in Nat /\ Picked(s) \in s
           /\ \A x \in s : /\ s \ {x} \in SUBSET S /\ IsFiniteSet(s \ {x})
                           /\ Cardinality(s \ {x}) = Cardinality(s) - 1
<1>1. IsFiniteSet(s) /\ Cardinality(s) \in Nat
    BY FS_Subset, FS_CardinalityType
<1>2. Picked(s) \in s
    BY DEF Picked
<1> QED
    BY <1>1, <1>2, FS_RemoveElement

(* What SumFunctionOnSet computes, subset by subset.                       *)
LEMMA SumRecursion ==
    ASSUME NEW fun, NEW S, IsFiniteSet(S)
    PROVE  \E g : Sums(g, fun, SUBSET S) /\ SumFunctionOnSet(fun, S) = g[S]
<1> DEFINE T == {n \in Nat : \E g : Sums(g, fun, Small(S, n))}
<1>1. 0 \in T
  <2> DEFINE g == [s \in Small(S, 0) |-> 0]
  <2>1. ASSUME NEW s \in Small(S, 0) PROVE s = {}
      BY <2>1, WithoutPicked, FS_EmptySet, FS_Subset, FS_CardinalityType DEF Small
  <2>2. Sums(g, fun, Small(S, 0))
      BY <2>1 DEF Sums
  <2> QED
      BY <2>2
<1>2. ASSUME NEW n \in Nat, n \in T
      PROVE  n + 1 \in T
  <2>1. PICK g : Sums(g, fun, Small(S, n))
      BY <1>2
  <2> DEFINE h == [s \in Small(S, n + 1) |->
                      IF s \in Small(S, n) THEN g[s]
                      ELSE fun[Picked(s)] + g[s \ {Picked(s)}]]
  <2>2. ASSUME NEW s \in Small(S, n + 1)
        PROVE  h[s] = IF s = {} THEN 0 ELSE fun[Picked(s)] + h[s \ {Picked(s)}]
    <3>1. CASE s = {}
      <4>1. s \in Small(S, n)
          BY <3>1, FS_EmptySet DEF Small
      <4>2. g[s] = 0
          BY <2>1, <3>1, <4>1 DEF Sums
      <4> QED
          BY <3>1, <4>1, <4>2
    <3>2. CASE s # {}
      <4> DEFINE r == s \ {Picked(s)}
      <4>1. r \in Small(S, n)
          BY <3>2, WithoutPicked DEF Small
      <4>2. r \in Small(S, n + 1)
          BY <4>1, FS_Subset, FS_CardinalityType DEF Small
      <4>3. h[r] = g[r]
          BY <4>1, <4>2
      <4>4. s \in Small(S, n) => g[s] = fun[Picked(s)] + g[r]
          BY <2>1, <3>2 DEF Sums
      <4> HIDE DEF r
      <4>5. h[s] = fun[Picked(s)] + g[r]
          BY <4>4 DEF r
      <4> QED
          BY <3>2, <4>3, <4>5 DEF r
    <3> QED
        BY <3>1, <3>2
  <2>3. h = [s \in Small(S, n + 1) |-> h[s]]
      OBVIOUS
  <2> HIDE DEF h
  <2>4. Sums(h, fun, Small(S, n + 1))
      BY <2>2, <2>3 DEF Sums
  <2> QED
      BY <2>4
<1> HIDE DEF T
<1>3. Cardinality(S) \in T
    BY <1>1, <1>2, Induction, FS_CardinalityType
<1>4. Small(S, Cardinality(S)) = SUBSET S
    BY FS_Subset DEF Small
<1>5. \E g : Sums(g, fun, SUBSET S)
    BY <1>3, <1>4 DEF T
<1>6. SumFunctionOnSet(fun, S) = (CHOOSE g : Sums(g, fun, SUBSET S))[S]
    BY Zenon DEF SumFunctionOnSet, FoldFunctionOnSet, MapThenFoldSet, Sums, Picked
<1> QED
    BY <1>5, <1>6

(* The sums over the subsets are the same, whatever they are subsets of.   *)
LEMMA SumsOfSubsets ==
    ASSUME NEW fun, NEW S, IsFiniteSet(S), NEW g, Sums(g, fun, SUBSET S), NEW D \in SUBSET S
    PROVE  SumFunctionOnSet(fun, D) = g[D]
<1>1. IsFiniteSet(D) /\ Cardinality(D) \in Nat
    BY FS_Subset, FS_CardinalityType
<1>2. PICK h : Sums(h, fun, SUBSET D) /\ SumFunctionOnSet(fun, D) = h[D]
    BY <1>1, SumRecursion
<1> DEFINE T == {n \in Nat : \A s \in SUBSET D : Cardinality(s) = n => h[s] = g[s]}
<1>3. ASSUME NEW s \in SUBSET D
      PROVE  /\ s = {} => h[s] = g[s]
             /\ s # {} => /\ h[s] = fun[Picked(s)] + h[s \ {Picked(s)}]
                          /\ g[s] = fun[Picked(s)] + g[s \ {Picked(s)}]
    BY <1>2 DEF Sums
<1>4. 0 \in T
  <2>1. ASSUME NEW s \in SUBSET D, Cardinality(s) = 0 PROVE s = {}
      BY <1>1, <2>1, FS_Subset, FS_EmptySet
  <2> QED
      BY <1>3, <2>1
<1>5. ASSUME NEW n \in Nat, n \in T
      PROVE  n + 1 \in T
  <2>1. ASSUME NEW s \in SUBSET D, Cardinality(s) = n + 1
        PROVE  h[s] = g[s]
    <3>1. s # {}
        BY <2>1, FS_EmptySet
    <3>2. /\ s \ {Picked(s)} \in SUBSET D
          /\ Cardinality(s \ {Picked(s)}) = Cardinality(s) - 1
        BY <1>1, <3>1, WithoutPicked
    <3>3. Cardinality(s \ {Picked(s)}) = n
        BY <2>1, <3>2
    <3>4. h[s \ {Picked(s)}] = g[s \ {Picked(s)}]
        BY <1>5, <3>2, <3>3
    <3> QED
        BY <1>3, <3>1, <3>4
  <2> QED
      BY <2>1
<1> HIDE DEF T
<1>6. Cardinality(D) \in T
    BY <1>1, <1>4, <1>5, Induction
<1> QED
    BY <1>2, <1>6 DEF T

IsSum(fun, D) ==
    /\ SumFunctionOnSet(fun, D) \in Int
    /\ \A x \in D : /\ SumFunctionOnSet(fun, D \ {x}) \in Int
                    /\ SumFunctionOnSet(fun, D) = fun[x] + SumFunctionOnSet(fun, D \ {x})

(* A sum of integers is one, and any of them may be added last.            *)
LEMMA SumOfIntegers ==
    ASSUME NEW S, IsFiniteSet(S), NEW fun, \A x \in S : fun[x] \in Int
    PROVE  SumFunctionOnSet(fun, {}) = 0 /\ \A D \in SUBSET S : IsSum(fun, D)
<1> DEFINE Sum(D) == SumFunctionOnSet(fun, D)
           T == {n \in Nat : \A D \in SUBSET S : Cardinality(D) = n => IsSum(fun, D)}
<1>1. PICK g : Sums(g, fun, SUBSET S)
    BY SumRecursion
<1>2. \A D \in SUBSET S : Sum(D) = g[D]
    BY <1>1, SumsOfSubsets
<1>3. Sum({}) = 0
  <2>1. g[{}] = 0
      BY <1>1 DEF Sums
  <2> QED
      BY <1>2, <2>1
<1>4. ASSUME NEW D \in SUBSET S, D # {}
      PROVE  Sum(D) = fun[Picked(D)] + Sum(D \ {Picked(D)})
  <2>1. g[D] = fun[Picked(D)] + g[D \ {Picked(D)}]
      BY <1>1, <1>4 DEF Sums
  <2> QED
      BY <1>2, <2>1
<1> HIDE DEF Sum
<1>5. 0 \in T
  <2>1. ASSUME NEW D \in SUBSET S, Cardinality(D) = 0 PROVE D = {}
      BY <2>1, FS_Subset, FS_EmptySet
  <2>2. IsSum(fun, {})
      BY <1>3 DEF IsSum, Sum
  <2> QED
      BY <2>1, <2>2
<1>6. ASSUME NEW n \in Nat, n \in T
      PROVE  n + 1 \in T
  <2>1. ASSUME NEW D \in SUBSET S, Cardinality(D) = n PROVE IsSum(fun, D)
      BY <1>6, <2>1
  <2>2. ASSUME NEW D \in SUBSET S, Cardinality(D) = n + 1
        PROVE  IsSum(fun, D)
    <3> DEFINE c == Picked(D)
               R == D \ {c}
    <3>0. D # {}
        BY <2>2, FS_EmptySet
    <3>1. D # {} /\ c \in D
        BY <3>0, WithoutPicked
    <3>2. ASSUME NEW x \in D PROVE D \ {x} \in SUBSET S /\ Cardinality(D \ {x}) = n
      <4>1. D \ {x} \in SUBSET S /\ Cardinality(D \ {x}) = Cardinality(D) - 1
          BY <3>1, WithoutPicked
      <4>2. (n + 1) - 1 = n
          OBVIOUS
      <4> QED
          BY <2>2, <4>1, <4>2
    <3>3. Sum(D) = fun[c] + Sum(R)
        BY <1>4, <3>1
    <3>4. R \in SUBSET S /\ Cardinality(R) = n
        BY <3>1, <3>2
    <3>5. IsSum(fun, R)
        BY <2>1, <3>4
    <3>6. Sum(R) \in Int /\ fun[c] \in Int
        BY <3>1, <3>5 DEF IsSum, Sum
    <3>7. ASSUME NEW x \in D, x # c
          PROVE  Sum(D) = fun[x] + Sum(D \ {x})
      <4> DEFINE Q == D \ {x}
      <4>1. x \in R /\ c \in Q /\ R \ {x} = Q \ {c}
          BY <3>1, <3>7
      <4>2. Sum(R) = fun[x] + Sum(R \ {x}) /\ Sum(R \ {x}) \in Int
          BY <3>5, <4>1 DEF IsSum, Sum
      <4>3. IsSum(fun, Q)
          BY <2>1, <3>2
      <4>4. Sum(Q) = fun[c] + Sum(Q \ {c}) /\ Sum(Q) \in Int
          BY <4>1, <4>3 DEF IsSum, Sum
      <4>5. fun[x] \in Int
          OBVIOUS
      <4> DEFINE a == Sum(R \ {x})
                 b == Sum(R)
                 d == Sum(Q)
      <4>6. a \in Int /\ b = fun[x] + a /\ d = fun[c] + a /\ Sum(D) = fun[c] + b
          BY <3>3, <4>1, <4>2, <4>4
      <4> HIDE DEF a, b, d, c
      <4>7. Sum(D) = fun[x] + d
          BY <3>6, <4>5, <4>6
      <4> QED
          BY <4>7 DEF d
    <3>8. ASSUME NEW x \in D PROVE Sum(D \ {x}) \in Int /\ Sum(D) = fun[x] + Sum(D \ {x})
      <4>1. IsSum(fun, D \ {x})
          BY <2>1, <3>2
      <4> QED
          BY <3>3, <3>7, <4>1 DEF IsSum, Sum
    <3>9. Sum(D) \in Int
        BY <3>3, <3>6
    <3> QED
        BY <3>8, <3>9 DEF IsSum, Sum
  <2> QED
      BY <2>2
<1> HIDE DEF T
<1>7. ASSUME NEW D \in SUBSET S PROVE IsSum(fun, D)
  <2>1. Cardinality(D) \in T
      BY <1>5, <1>6, Induction, FS_Subset, FS_CardinalityType
  <2> QED
      BY <2>1 DEF T
<1> QED
    BY <1>3, <1>7 DEF Sum

(* Sums of functions that agree are the same.                              *)
LEMMA SumOfSame ==
    ASSUME NEW S, IsFiniteSet(S), NEW fun, NEW gun,
           \A x \in S : fun[x] \in Int /\ gun[x] = fun[x]
    PROVE  SumFunctionOnSet(gun, S) = SumFunctionOnSet(fun, S)
<1> DEFINE T == {n \in Nat : \A D \in SUBSET S : Cardinality(D) = n =>
                                SumFunctionOnSet(gun, D) = SumFunctionOnSet(fun, D)}
<1>1. /\ SumFunctionOnSet(fun, {}) = 0 /\ \A D \in SUBSET S : IsSum(fun, D)
      /\ SumFunctionOnSet(gun, {}) = 0 /\ \A D \in SUBSET S : IsSum(gun, D)
    BY SumOfIntegers
<1>2. 0 \in T
  <2>1. ASSUME NEW D \in SUBSET S, Cardinality(D) = 0 PROVE D = {}
      BY <2>1, FS_Subset, FS_EmptySet
  <2> QED
      BY <1>1, <2>1
<1>3. ASSUME NEW n \in Nat, n \in T
      PROVE  n + 1 \in T
  <2>1. ASSUME NEW D \in SUBSET S, Cardinality(D) = n + 1
        PROVE  SumFunctionOnSet(gun, D) = SumFunctionOnSet(fun, D)
    <3>1. D # {}
        BY <2>1, FS_EmptySet
    <3>2. PICK x \in D : D \ {x} \in SUBSET S /\ Cardinality(D \ {x}) = Cardinality(D) - 1
        BY <3>1, WithoutPicked
    <3>3. Cardinality(D \ {x}) = n
        BY <2>1, <3>2
    <3>4. SumFunctionOnSet(gun, D \ {x}) = SumFunctionOnSet(fun, D \ {x})
        BY <1>3, <3>2, <3>3
    <3>5. IsSum(fun, D) /\ IsSum(gun, D) /\ fun[x] = gun[x]
        BY <1>1
    <3> QED
        BY <3>4, <3>5 DEF IsSum
  <2> QED
      BY <2>1
<1> HIDE DEF T
<1>4. Cardinality(S) \in T
    BY <1>2, <1>3, Induction, FS_CardinalityType
<1> QED
    BY <1>4 DEF T

(* A sum grows and shrinks with each of what is added.                     *)
LEMMA SumOfChanged ==
    ASSUME NEW S, IsFiniteSet(S), NEW fun, NEW gun, NEW x \in S,
           \A y \in S : fun[y] \in Int /\ gun[y] \in Int,
           \A y \in S \ {x} : gun[y] = fun[y]
    PROVE  SumFunctionOnSet(gun, S) = SumFunctionOnSet(fun, S) - fun[x] + gun[x]
<1>1. IsSum(fun, S) /\ IsSum(gun, S)
    BY SumOfIntegers
<1>2. IsFiniteSet(S \ {x})
    BY FS_Subset
<1>3. SumFunctionOnSet(gun, S \ {x}) = SumFunctionOnSet(fun, S \ {x})
    BY <1>2, SumOfSame
<1>4. fun[x] \in Int /\ gun[x] \in Int
    OBVIOUS
<1> QED
    BY <1>1, <1>3, <1>4 DEF IsSum

(* A sum of natural numbers is no less than any of them.                   *)
LEMMA SumOfNaturals ==
    ASSUME NEW S, IsFiniteSet(S), NEW fun, \A x \in S : fun[x] \in Nat
    PROVE  /\ SumFunctionOnSet(fun, S) \in Nat
           /\ \A x \in S : fun[x] <= SumFunctionOnSet(fun, S)
<1> DEFINE T == {n \in Nat : \A D \in SUBSET S : Cardinality(D) = n =>
                                SumFunctionOnSet(fun, D) \in Nat}
<1>1. SumFunctionOnSet(fun, {}) = 0 /\ \A D \in SUBSET S : IsSum(fun, D)
    BY SumOfIntegers
<1>2. 0 \in T
  <2>1. ASSUME NEW D \in SUBSET S, Cardinality(D) = 0 PROVE D = {}
      BY <2>1, FS_Subset, FS_EmptySet
  <2> QED
      BY <1>1, <2>1
<1>3. ASSUME NEW n \in Nat, n \in T
      PROVE  n + 1 \in T
  <2>1. ASSUME NEW D \in SUBSET S, Cardinality(D) = n + 1
        PROVE  SumFunctionOnSet(fun, D) \in Nat
    <3>1. D # {}
        BY <2>1, FS_EmptySet
    <3>2. PICK x \in D : D \ {x} \in SUBSET S /\ Cardinality(D \ {x}) = Cardinality(D) - 1
        BY <3>1, WithoutPicked
    <3>3. Cardinality(D \ {x}) = n
        BY <2>1, <3>2
    <3>4. SumFunctionOnSet(fun, D \ {x}) \in Nat
        BY <1>3, <3>2, <3>3
    <3>5. IsSum(fun, D) /\ fun[x] \in Nat
        BY <1>1
    <3> QED
        BY <3>4, <3>5 DEF IsSum
  <2> QED
      BY <2>1
<1> HIDE DEF T
<1>4. \A n \in Nat : n \in T
    BY <1>2, <1>3, Induction
<1>5. ASSUME NEW D \in SUBSET S PROVE SumFunctionOnSet(fun, D) \in Nat
  <2>1. Cardinality(D) \in T
      BY <1>4, FS_Subset, FS_CardinalityType
  <2> QED
      BY <2>1 DEF T
<1>6. ASSUME NEW x \in S PROVE fun[x] <= SumFunctionOnSet(fun, S)
  <2>1. SumFunctionOnSet(fun, S \ {x}) \in Nat /\ IsSum(fun, S) /\ fun[x] \in Nat
      BY <1>1, <1>5
  <2> QED
      BY <2>1 DEF IsSum
<1> QED
    BY <1>5, <1>6

(* A sum of zeros is one.                                                  *)
LEMMA SumOfZeros ==
    ASSUME NEW S, IsFiniteSet(S), NEW fun, \A x \in S : fun[x] = 0
    PROVE  SumFunctionOnSet(fun, S) = 0
<1> DEFINE T == {n \in Nat : \A D \in SUBSET S : Cardinality(D) = n =>
                                SumFunctionOnSet(fun, D) = 0}
<1>1. SumFunctionOnSet(fun, {}) = 0 /\ \A D \in SUBSET S : IsSum(fun, D)
    BY SumOfIntegers
<1>2. 0 \in T
  <2>1. ASSUME NEW D \in SUBSET S, Cardinality(D) = 0 PROVE D = {}
      BY <2>1, FS_Subset, FS_EmptySet
  <2> QED
      BY <1>1, <2>1
<1>3. ASSUME NEW n \in Nat, n \in T PROVE n + 1 \in T
  <2>1. ASSUME NEW D \in SUBSET S, Cardinality(D) = n + 1
        PROVE  SumFunctionOnSet(fun, D) = 0
    <3>1. D # {}
        BY <2>1, FS_EmptySet
    <3>2. PICK x \in D : D \ {x} \in SUBSET S /\ Cardinality(D \ {x}) = Cardinality(D) - 1
        BY <3>1, WithoutPicked
    <3>3. Cardinality(D \ {x}) = n
        BY <2>1, <3>2
    <3>4. SumFunctionOnSet(fun, D \ {x}) = 0
        BY <1>3, <3>2, <3>3
    <3> QED
        BY <1>1, <3>4 DEF IsSum
  <2> QED
      BY <2>1
<1> HIDE DEF T
<1>4. Cardinality(S) \in T
    BY <1>2, <1>3, FS_CardinalityType, Induction
<1> QED
    BY <1>4 DEF T

-----------------------------------------------------------------------------
(* The greatest of some of the first n numbers.                            *)
LEMMA Greatest ==
    ASSUME NEW n \in Nat, NEW s \in SUBSET (1..n), s # {}
    PROVE  Max(s) \in s /\ Max(s) \in 1..n /\ s \ {Max(s)} \in SUBSET (1..n)
<1>1. s \subseteq 1..n /\ 1 \in Int /\ n \in Int
    OBVIOUS
<1>2. Max(s) \in s
    BY <1>1, MinAndMax, Zenon
<1> QED
    BY <1>2

(* The first k of them.                                                    *)
LEMMA Prefix ==
    ASSUME NEW n \in Nat, NEW k \in 1..n
    PROVE  /\ Max(1..k) = k /\ (1..k) \ {k} = 1..(k - 1)
           /\ 1..k \in SUBSET (1..n) /\ 1..(k - 1) \in SUBSET (1..n) /\ 1..k # {}
<1>1. k \in 1..k /\ 1..k # {}
    OBVIOUS
<1>2. Max(1..k) \in 1..k /\ \A y \in 1..k : y <= Max(1..k)
  <2>1. 1..k \subseteq 1..k /\ 1 \in Int /\ k \in Int
      OBVIOUS
  <2> QED
      BY <1>1, <2>1, MinAndMax, Zenon
<1>3. Max(1..k) = k
    BY <1>1, <1>2
<1> QED
    BY <1>1, <1>3

(* What FoldLeft computes: h holds the results for the sets of indices,    *)
(* each of which is made from the one without the greatest index.          *)
Folds(h, base, step, n) ==
    h = [s \in SUBSET (1..n) |-> IF s = {} THEN base ELSE step[<<h[s \ {Max(s)}], Max(s)>>]]

(* There are such results, when the steps stay in a set.                   *)
LEMMA FoldExists ==
    ASSUME NEW n \in Nat, NEW V, NEW base \in V, NEW step \in [V \X (1..n) -> V]
    PROVE  \E h \in [SUBSET (1..n) -> V] : Folds(h, base, step, n)
<1> DEFINE D == 1..n
           small(m) == {s \in SUBSET D : Cardinality(s) <= m}
           Ok(h, S) == /\ h \in [S -> V]
                       /\ h = [s \in S |-> IF s = {} THEN base ELSE step[<<h[s \ {Max(s)}], Max(s)>>]]
           T == {m \in Nat : \E h : Ok(h, small(m))}
<1>0. IsFiniteSet(D) /\ \A s \in SUBSET D : s # {} => Max(s) \in s /\ Max(s) \in D
  <2>1. \A s \in SUBSET (1..n) : s # {} => Max(s) \in s /\ Max(s) \in 1..n
      BY Greatest
  <2> QED
      BY <2>1, FS_Interval
<1>00. \A s \in SUBSET D : IsFiniteSet(s) /\ Cardinality(s) \in Nat /\ (Cardinality(s) = 0 <=> s = {})
    BY <1>0, FS_EmptySet, FS_Subset, FS_CardinalityType
<1>1. 0 \in T
  <2> DEFINE h == [s \in small(0) |-> base]
  <2>1. ASSUME NEW s \in small(0) PROVE s = {}
      BY <1>00, <2>1
  <2>2. Ok(h, small(0))
      BY <2>1
  <2> QED
      BY <2>2
<1>2. ASSUME NEW m \in Nat, m \in T
      PROVE  m + 1 \in T
  <2>1. PICK g : Ok(g, small(m))
      BY <1>2
  <2> DEFINE h == [s \in small(m + 1) |->
                      IF s = {} THEN base ELSE step[<<g[s \ {Max(s)}], Max(s)>>]]
  <2>2. ASSUME NEW s \in small(m + 1), s # {}
        PROVE  s \ {Max(s)} \in small(m) /\ Max(s) \in D
    <3>1. s \ {Max(s)} \in SUBSET D /\ Cardinality(s \ {Max(s)}) = Cardinality(s) - 1
        BY <1>0, <2>2, WithoutPicked
    <3>2. Cardinality(s) \in Nat /\ Cardinality(s) <= m + 1
        BY <1>0, FS_Subset, FS_CardinalityType
    <3> QED
        BY <1>0, <2>2, <3>1, <3>2
  <2>3. ASSUME NEW s \in small(m) PROVE s \in small(m + 1) /\ h[s] = g[s]
    <3>1. s \in small(m + 1)
        BY <1>00
    <3>2. g[s] = IF s = {} THEN base ELSE step[<<g[s \ {Max(s)}], Max(s)>>]
        BY <2>1
    <3> QED
        BY <3>1, <3>2
  <2>4. ASSUME NEW s \in small(m + 1)
        PROVE  /\ h[s] = IF s = {} THEN base ELSE step[<<h[s \ {Max(s)}], Max(s)>>]
               /\ h[s] \in V
    <3>1. CASE s = {}
        BY <3>1
    <3>2. CASE s # {}
      <4>1. /\ s \ {Max(s)} \in small(m) /\ Max(s) \in D
            /\ h[s \ {Max(s)}] = g[s \ {Max(s)}]
          BY <2>2, <2>3, <3>2
      <4>2. g[s \ {Max(s)}] \in V
          BY <2>1, <4>1
      <4> HIDE DEF small
      <4> QED
          BY <3>2, <4>1, <4>2
    <3> QED
        BY <3>1, <3>2
  <2>5. h = [s \in small(m + 1) |-> h[s]]
      OBVIOUS
  <2> HIDE DEF h, small
  <2>6. Ok(h, small(m + 1))
      BY <2>4, <2>5
  <2> HIDE DEF Ok
  <2> QED
      BY <2>6
<1> HIDE DEF T
<1>3. Cardinality(D) \in T /\ Cardinality(D) \in Nat
    BY <1>0, <1>1, <1>2, Induction, FS_CardinalityType
<1>4. small(Cardinality(D)) = SUBSET D
    BY <1>0, FS_Subset
<1>5. PICK h : Ok(h, SUBSET D)
    BY <1>3, <1>4 DEF T
<1> QED
    BY <1>5 DEF Folds

(* From the results for sets to those for the first elements.              *)
FoldsBy(h, base, e, n) == h = [S \in SUBSET (1..n) |-> IF S = {} THEN base ELSE e[S]]

(* The results for the first k elements.                                   *)
LEMMA FoldPrefixes ==
    ASSUME NEW n \in Nat, NEW h, NEW base, NEW e, FoldsBy(h, base, e, n)
    PROVE  h[1..0] = base /\ \A k \in 1..n : h[1..k] = e[1..k]
<1>1. 1..0 \in SUBSET (1..n) /\ 1..0 = {}
    OBVIOUS
<1>2. \A k \in 1..n : 1..k \in SUBSET (1..n) /\ 1..k # {}
    BY Prefix
<1> QED
    BY <1>1, <1>2 DEF FoldsBy

(* Adding from left to right.                                              *)
LEMMA LeftToRight ==
    ASSUME NEW s, IsSequence(s), \A i \in 1..Len(s) : s[i] \in Int
    PROVE  \E acc : /\ acc[0] = 0 /\ \A k \in 1..Len(s) : acc[k] = acc[k - 1] + s[k]
                    /\ FoldLeft(LAMBDA out, v : out + v, 0, s) = acc[Len(s)]
<1> DEFINE n == Len(s)
           step == [q \in Int \X (1..n) |-> q[1] + s[q[2]]]
           P(h) == h = [S \in SUBSET (1..n) |->
                          IF S = {} THEN 0 ELSE h[S \ {Max(S)}] + s[Max(S)]]
           h == CHOOSE h : P(h)
<1>1. n \in Nat /\ DOMAIN s = 1..n
    BY SequenceLen
<1>2. step \in [Int \X (1..n) -> Int]
    BY <1>1
<1>3. PICK g \in [SUBSET (1..n) -> Int] : Folds(g, 0, step, n)
  <2> HIDE DEF step, n
  <2> QED
      BY <1>1, <1>2, FoldExists, 0 \in Int
<1>4. P(g)
  <2>1. ASSUME NEW S \in SUBSET (1..n), S # {}
        PROVE  step[<<g[S \ {Max(S)}], Max(S)>>] = g[S \ {Max(S)}] + s[Max(S)]
    <3>1. Max(S) \in 1..n /\ S \ {Max(S)} \in SUBSET (1..n)
        BY <1>1, <2>1, Greatest
    <3> QED
        BY <1>3, <3>1
  <2> HIDE DEF step
  <2> QED
      BY <1>3, <2>1 DEF Folds
<1>5. FoldLeft(LAMBDA out, v : out + v, 0, s) = h[1..n]
    BY <1>1, Zenon DEF FoldLeft, MapThenFoldSet
<1>6. P(h)
    BY <1>4, Zenon
<1> HIDE DEF h, n
<1> DEFINE e == [S \in SUBSET (1..n) |-> h[S \ {Max(S)}] + s[Max(S)]]
<1>7. FoldsBy(h, 0, e, n)
    BY <1>6 DEF FoldsBy
<1>8. \A k \in 1..n : e[1..k] = h[1..(k - 1)] + s[k]
    BY <1>1, Prefix
<1> HIDE DEF e, P
<1>9. h[1..0] = 0 /\ \A k \in 1..n : h[1..k] = e[1..k]
    BY <1>1, <1>7, FoldPrefixes
<1> DEFINE acc == [k \in 0..n |-> h[1..k]]
<1>10. acc[0] = 0 /\ acc[n] = h[1..n]
    BY <1>1, <1>9
<1>11. \A k \in 1..n : acc[k] = acc[k - 1] + s[k]
    BY <1>1, <1>8, <1>9
<1> HIDE DEF acc
<1> QED
    BY <1>5, <1>10, <1>11 DEF n

(* Sums of the first k of n integers.                                      *)
LEMMA SumOfPrefixes ==
    ASSUME NEW n \in Nat, NEW fun, \A i \in 1..n : fun[i] \in Int
    PROVE  /\ SumFunctionOnSet(fun, 1..0) = 0
           /\ \A k \in 0..n : SumFunctionOnSet(fun, 1..k) \in Int
           /\ \A k \in 1..n :
                 SumFunctionOnSet(fun, 1..k) = SumFunctionOnSet(fun, 1..(k - 1)) + fun[k]
<1>1. IsFiniteSet(1..n)
    BY FS_Interval
<1>2. SumFunctionOnSet(fun, {}) = 0 /\ \A D \in SUBSET (1..n) : IsSum(fun, D)
    BY <1>1, SumOfIntegers
<1>3. 1..0 = {}
    OBVIOUS
<1>4. ASSUME NEW k \in 0..n PROVE SumFunctionOnSet(fun, 1..k) \in Int
  <2>1. 1..k \in SUBSET (1..n)
      OBVIOUS
  <2> QED
      BY <1>2, <2>1 DEF IsSum
<1>5. ASSUME NEW k \in 1..n
      PROVE  SumFunctionOnSet(fun, 1..k) = SumFunctionOnSet(fun, 1..(k - 1)) + fun[k]
  <2>1. 1..k \in SUBSET (1..n) /\ k \in 1..k /\ (1..k) \ {k} = 1..(k - 1)
      BY Prefix
  <2>2. SumFunctionOnSet(fun, 1..k) = fun[k] + SumFunctionOnSet(fun, (1..k) \ {k})
      BY <1>2, <2>1 DEF IsSum
  <2>3. SumFunctionOnSet(fun, 1..(k - 1)) \in Int /\ fun[k] \in Int
      BY <1>4
  <2>4. SumFunctionOnSet(fun, (1..k) \ {k}) = SumFunctionOnSet(fun, 1..(k - 1))
      BY <2>1, Zenon
  <2> QED
      BY <2>2, <2>3, <2>4
<1> QED
    BY <1>2, <1>3, <1>4, <1>5

(* Whatever grows by the same amounts from the same start is that sum.     *)
Adds(acc, start, c, fun, n) ==
    acc[0] = start /\ \A k \in 1..n : acc[k] = acc[k - 1] + c * fun[k]

IsSumOf(acc, start, c, fun, n) ==
    \A k \in 0..n : acc[k] = start + c * SumFunctionOnSet(fun, 1..k)

(* Adding one by one, with a factor and from any start, gives the sum.     *)
LEMMA SumFromLeft ==
    ASSUME NEW n \in Nat, NEW fun, \A i \in 1..n : fun[i] \in Int,
           NEW c \in Int, NEW start \in Int, NEW acc, Adds(acc, start, c, fun, n)
    PROVE  IsSumOf(acc, start, c, fun, n)
<1> DEFINE Sum(k) == SumFunctionOnSet(fun, 1..k)
           T == {k \in Nat : k <= n => acc[k] = start + c * Sum(k)}
<1>1. /\ Sum(0) = 0 /\ \A k \in 0..n : Sum(k) \in Int
      /\ \A k \in 1..n : Sum(k) = Sum(k - 1) + fun[k]
    BY SumOfPrefixes
<1> HIDE DEF Sum
<1>2. 0 \in T
    BY <1>1 DEF Adds
<1>3. ASSUME NEW k \in Nat, k \in T PROVE k + 1 \in T
  <2>1. CASE k + 1 <= n
    <3>1. k + 1 \in 1..n /\ (k + 1) - 1 = k /\ k \in 0..n
        BY <2>1
    <3>2. acc[k + 1] = (start + c * Sum(k)) + c * fun[k + 1]
        BY <1>3, <3>1 DEF Adds
    <3>3. Sum(k + 1) = Sum(k) + fun[k + 1] /\ Sum(k) \in Int /\ fun[k + 1] \in Int
        BY <1>1, <3>1
    <3> HIDE DEF T
    <3>4. c * Sum(k + 1) = c * Sum(k) + c * fun[k + 1]
        BY <3>3
    <3>5. c * Sum(k) \in Int /\ c * fun[k + 1] \in Int
        BY <3>3
    <3>6. acc[k + 1] = start + c * Sum(k + 1)
        BY <3>2, <3>4, <3>5
    <3> QED
        BY <3>6 DEF T
  <2>2. CASE ~ (k + 1 <= n)
      BY <2>2
  <2> QED
      BY <2>1, <2>2
<1> HIDE DEF T
<1>4. Nat \subseteq T
    BY <1>2, <1>3, Induction
<1> QED
    BY <1>4 DEF T, Sum, IsSumOf

(* The sum of a sequence, added from left to right or not.                 *)
LEMMA LeftSum ==
    ASSUME NEW s, IsSequence(s), \A i \in 1..Len(s) : s[i] \in Int
    PROVE  FoldLeft(LAMBDA out, v : out + v, 0, s) = SumFunction(s) /\ SumFunction(s) \in Int
<1>1. Len(s) \in Nat /\ DOMAIN s = 1..Len(s)
    BY SequenceLen
<1>2. PICK acc : /\ acc[0] = 0 /\ \A k \in 1..Len(s) : acc[k] = acc[k - 1] + s[k]
                 /\ FoldLeft(LAMBDA out, v : out + v, 0, s) = acc[Len(s)]
    BY LeftToRight
<1>3. Adds(acc, 0, 1, s, Len(s))
  <2>1. \A k \in 1..Len(s) : 1 * s[k] = s[k]
      BY <1>1
  <2> QED
      BY <1>2, <2>1, Zenon DEF Adds
<1>4. acc[Len(s)] = SumFunctionOnSet(s, 1..Len(s))
  <2>1. \A k \in 0..Len(s) : acc[k] = 0 + 1 * SumFunctionOnSet(s, 1..k)
    <3>1. 0 \in Int /\ 1 \in Int
        OBVIOUS
    <3> QED
        BY <1>1, <1>3, <3>1, SumFromLeft DEF IsSumOf
  <2>2. SumFunctionOnSet(s, 1..Len(s)) \in Int /\ Len(s) \in 0..Len(s)
      BY <1>1, SumOfPrefixes
  <2> QED
      BY <2>1, <2>2
<1>5. SumFunctionOnSet(s, 1..Len(s)) \in Int
  <2>1. \A k \in 0..Len(s) : SumFunctionOnSet(s, 1..k) \in Int
      BY <1>1, SumOfPrefixes
  <2> QED
      BY <1>1, <2>1
<1>6. SumFunction(s) = SumFunctionOnSet(s, 1..Len(s))
    BY <1>1 DEF SumFunction
<1> QED
    BY <1>2, <1>4, <1>5, <1>6

(* A sum of multiples.                                                     *)
LEMMA SumOfMultiples ==
    ASSUME NEW n \in Nat, NEW fun, \A i \in 1..n : fun[i] \in Int, NEW c \in Int,
           NEW gun, \A i \in 1..n : gun[i] = c * fun[i]
    PROVE  SumFunctionOnSet(gun, 1..n) = c * SumFunctionOnSet(fun, 1..n)
<1> DEFINE acc == [k \in 0..n |-> SumFunctionOnSet(gun, 1..k)]
<1>1. \A i \in 1..n : gun[i] \in Int
    OBVIOUS
<1>2. /\ SumFunctionOnSet(gun, 1..0) = 0
      /\ \A k \in 1..n : SumFunctionOnSet(gun, 1..k) = SumFunctionOnSet(gun, 1..(k - 1)) + gun[k]
    BY <1>1, SumOfPrefixes
<1>3. Adds(acc, 0, c, fun, n)
    BY <1>2 DEF Adds
<1>4. acc[n] = SumFunctionOnSet(gun, 1..n)
    OBVIOUS
<1> HIDE DEF acc
<1>5. IsSumOf(acc, 0, c, fun, n)
  <2>1. 0 \in Int
      OBVIOUS
  <2> QED
      BY <1>3, <2>1, SumFromLeft
<1>6. \A k \in 0..n : SumFunctionOnSet(fun, 1..k) \in Int
    BY SumOfPrefixes
<1>7. n \in 0..n
    OBVIOUS
<1> QED
    BY <1>4, <1>5, <1>6, <1>7 DEF IsSumOf

-----------------------------------------------------------------------------
(* Cutting strings apart where they were put together.                     *)

(* Strings with the same atoms are the same.                               *)
LEMMA SameString ==
    ASSUME NEW s, IsSequence(s), NEW t, IsSequence(t), Len(s) = Len(t),
           \A i \in 1..Len(s) : s[i] = t[i]
    PROVE  s = t
<1>1. /\ DOMAIN s = 1..Len(s) /\ \E S : s \in Seq(S)
      /\ DOMAIN t = 1..Len(t) /\ \E S : t \in Seq(S)
    BY SequenceLen
<1>2. s = [i \in 1..Len(s) |-> s[i]] /\ t = [i \in 1..Len(t) |-> t[i]]
    BY <1>1
<1> QED
    BY <1>2, Zenon

(* strip() takes away what is c at the ends, and no more.                  *)
LEMMA StripTo ==
    ASSUME NEW s, IsSequence(s), NEW c, NEW a \in 1..Len(s), NEW b \in 1..Len(s),
           s[a] # c, s[b] # c, \A i \in 1..Len(s) : s[i] # c => a <= i /\ i <= b
    PROVE  Strip(s, c) = SubSeq(s, a, b) /\ ~ StripThrows(s, c)
<1> DEFINE other == {i \in 1..Len(s) : s[i] # c}
<1>1. Len(s) \in Nat /\ 1 \in Int /\ Len(s) \in Int
    BY SequenceLen
<1>2. other \subseteq 1..Len(s) /\ other # {} /\ a \in other /\ b \in other
    OBVIOUS
<1>3. \A i \in other : a <= i /\ i <= b
    OBVIOUS
<1>4. Strip(s, c) = IF other = {} THEN <<>> ELSE SubSeq(s, Min(other), Max(other))
    BY DEF Strip
<1>5. ~ StripThrows(s, c)
    BY DEF StripThrows
<1> HIDE DEF other
<1>6. /\ Min(other) \in other /\ \A y \in other : Min(other) <= y
      /\ Max(other) \in other /\ \A y \in other : y <= Max(other)
    BY <1>1, <1>2, MinAndMax, Zenon
<1>7. Min(other) = a /\ Max(other) = b
  <2>1. /\ Min(other) \in 1..Len(s) /\ Max(other) \in 1..Len(s)
        /\ Min(other) <= a /\ a <= Min(other) /\ Max(other) <= b /\ b <= Max(other)
      BY <1>2, <1>3, <1>6
  <2> QED
      BY <1>1, <2>1
<1> QED
    BY <1>2, <1>4, <1>5, <1>7

(* A string without c at its ends stays as it is.                          *)
LEMMA StripNothing ==
    ASSUME NEW s, IsSequence(s), NEW c, Len(s) # 0 => s[1] # c /\ s[Len(s)] # c
    PROVE  Strip(s, c) = s /\ ~ StripThrows(s, c)
<1> DEFINE n == Len(s)
<1>1. n \in Nat /\ \E S : s \in Seq(S)
    BY SequenceLen
<1>2. CASE n = 0
  <2>1. s = <<>>
      BY <1>1, <1>2
  <2>2. {i \in 1..Len(s) : s[i] # c} = {}
      BY <1>2
  <2> QED
      BY <2>1, <2>2 DEF Strip, StripThrows
<1>3. CASE n # 0
  <2>1. 1 \in 1..n /\ n \in 1..n /\ \A i \in 1..n : 1 <= i /\ i <= n
      BY <1>1, <1>3
  <2>2. Strip(s, c) = SubSeq(s, 1, n) /\ ~ StripThrows(s, c)
      BY <1>3, <2>1, StripTo
  <2>3. SubSeq(s, 1, n) = s
      BY <1>1
  <2> QED
      BY <2>2, <2>3
<1> QED
    BY <1>2, <1>3

(* What grows with every step grows.                                       *)
LEMMA GrowsByStep ==
    ASSUME NEW n \in Nat, NEW g, \A k \in 0..n : g[k] \in Int,
           \A k \in 1..n : g[k - 1] < g[k]
    PROVE  \A j, k \in 0..n : j < k => g[j] < g[k]
<1> DEFINE T == {k \in Nat : k <= n => \A j \in 0..n : j < k => g[j] < g[k]}
<1>1. 0 \in T
    OBVIOUS
<1>2. ASSUME NEW k \in Nat, k \in T
      PROVE  k + 1 \in T
  <2>1. ASSUME k + 1 <= n, NEW j \in 0..n, j < k + 1
        PROVE  g[j] < g[k + 1]
    <3>1. k + 1 \in 1..n /\ k \in 0..n /\ (k + 1) - 1 = k
        BY <2>1
    <3>2. g[k] < g[k + 1]
        BY <3>1
    <3>3. j = k \/ g[j] < g[k]
        BY <1>2, <2>1
    <3> QED
        BY <2>1, <3>1, <3>2, <3>3
  <2> QED
      BY <2>1
<1> HIDE DEF T
<1>3. Nat \subseteq T
    BY <1>1, <1>2, Induction
<1> QED
    BY <1>3 DEF T

(* m different values are m.                                               *)
LEMMA CountOf ==
    ASSUME NEW m \in Nat, NEW g, \A j, k \in 0..m - 1 : j < k => g[j] < g[k],
           \A k \in 0..m - 1 : g[k] \in Int
    PROVE  /\ IsFiniteSet({g[k] : k \in 0..m - 1})
           /\ Cardinality({g[k] : k \in 0..m - 1}) = m
<1> DEFINE S == {g[k] : k \in 0..m - 1}
           h == [i \in 1..m |-> g[i - 1]]
<1>1. h \in [1..m -> S]
    OBVIOUS
<1>2. ASSUME NEW i \in 1..m, NEW j \in 1..m, h[i] = h[j]
      PROVE  i = j
  <2>1. i - 1 \in 0..m - 1 /\ j - 1 \in 0..m - 1 /\ g[i - 1] = g[j - 1]
      BY <1>2
  <2>2. ~ (i - 1 < j - 1) /\ ~ (j - 1 < i - 1)
      BY <2>1
  <2> QED
      BY <2>1, <2>2
<1>3. ASSUME NEW t \in S
      PROVE  \E i \in 1..m : h[i] = t
  <2>1. PICK k \in 0..m - 1 : t = g[k]
      OBVIOUS
  <2>2. k + 1 \in 1..m /\ h[k + 1] = t
      BY <2>1
  <2> QED
      BY <2>2
<1> HIDE DEF h, S
<1>4. h \in Bijection(1..m, S)
    BY <1>1, <1>2, <1>3 DEF Bijection, Injection, Surjection, IsInjective
<1>5. ExistsBijection(1..m, S)
    BY <1>4 DEF ExistsBijection
<1>6. IsFiniteSet(1..m) /\ Cardinality(1..m) = m
  <2>1. IsFiniteSet(1..m)
      BY FS_Interval
  <2>2. Cardinality(1..m) = IF 1 > m THEN 0 ELSE m - 1 + 1
      BY FS_Interval
  <2> QED
      BY <2>1, <2>2
<1>7. IsFiniteSet(S) /\ Cardinality(S) = m
    BY <1>5, <1>6, FS_Bijection
<1> QED
    BY <1>7 DEF S

(* g is where a string of n parts is cut: before its first atom, at every  *)
(* c in it, and after its last atom.                                       *)
CutAt(g, n, s, c) ==
    /\ g[0] = 0 /\ g[n] = Len(s) + 1
    /\ \A k \in 0..n : g[k] \in Int
    /\ \A k \in 1..n : g[k - 1] < g[k]
    /\ \A k \in 1..n - 1 : s[g[k]] = c
    /\ \A i \in 1..Len(s) : s[i] = c => \E k \in 1..n - 1 : g[k] = i

PartsOf(list, g, n, s) ==
    /\ IsSequence(list) /\ Len(list) = n
    /\ \A k \in 1..n : list[k] = SubSeq(s, g[k - 1] + 1, g[k] - 1)

(* The parts that split() gives.                                           *)
LEMMA SplitParts ==
    ASSUME NEW s, IsSequence(s), NEW c, NEW n \in Nat \ {0}, NEW g, CutAt(g, n, s, c)
    PROVE  PartsOf(Split(s, c), g, n, s)
<1> DEFINE cuts == {0, Len(s) + 1} \cup {i \in 1..Len(s) : s[i] = c}
           cut(k) == CHOOSE i \in cuts : Cardinality({j \in cuts : j < i}) = k
<1>1. Len(s) \in Nat
    BY SequenceLen
<1>2. /\ g[0] = 0 /\ g[n] = Len(s) + 1
      /\ \A k \in 0..n : g[k] \in Int
      /\ \A k \in 1..n : g[k - 1] < g[k]
      /\ \A k \in 1..n - 1 : s[g[k]] = c
      /\ \A i \in 1..Len(s) : s[i] = c => \E k \in 1..n - 1 : g[k] = i
    BY DEF CutAt
<1>3. \A j, k \in 0..n : j < k => g[j] < g[k]
    BY <1>2, GrowsByStep
<1>4. cuts = {g[k] : k \in 0..n}
  <2>1. ASSUME NEW i \in cuts
        PROVE  \E k \in 0..n : i = g[k]
    <3>1. CASE i = 0
        BY <1>2, <3>1
    <3>2. CASE i = Len(s) + 1
        BY <1>2, <3>2
    <3>3. CASE i \in 1..Len(s) /\ s[i] = c
        BY <1>2, <3>3
    <3> QED
        BY <3>1, <3>2, <3>3
  <2>2. ASSUME NEW k \in 0..n
        PROVE  g[k] \in cuts
    <3>1. CASE k = 0 \/ k = n
        BY <1>2, <3>1
    <3>2. CASE k \in 1..n - 1
      <4>1. g[0] < g[k] /\ g[k] < g[n]
          BY <1>3, <3>2
      <4>2. g[k] \in 1..Len(s) /\ s[g[k]] = c
          BY <1>1, <1>2, <3>2, <4>1
      <4> QED
          BY <4>2
    <3> QED
        BY <3>1, <3>2
  <2> QED
      BY <2>1, <2>2
<1> HIDE DEF cuts
<1>5. ASSUME NEW k \in 0..n
      PROVE  Cardinality({j \in cuts : j < g[k]}) = k
  <2>1. {j \in cuts : j < g[k]} = {g[j] : j \in 0..k - 1}
    <3>1. \A j \in 0..n : g[j] < g[k] <=> j \in 0..k - 1
      <4>1. ASSUME NEW j \in 0..n
            PROVE  g[j] < g[k] <=> j \in 0..k - 1
        <5>1. j < k \/ j = k \/ k < j
            OBVIOUS
        <5>2. g[j] \in Int /\ g[k] \in Int
            BY <1>2
        <5> QED
            BY <1>3, <5>1, <5>2
      <4> QED
          BY <4>1
    <3> QED
        BY <1>4, <3>1
  <2>2. \A i, j \in 0..k - 1 : i < j => g[i] < g[j]
      BY <1>3
  <2>3. \A i \in 0..k - 1 : g[i] \in Int
      BY <1>2
  <2>4. k \in Nat
      OBVIOUS
  <2> QED
      BY <2>1, <2>2, <2>3, <2>4, CountOf
<1>6. Cardinality(cuts) = n + 1
  <2>1. 0..n = 0..(n + 1) - 1 /\ n + 1 \in Nat
      OBVIOUS
  <2>2. \A i, j \in 0..(n + 1) - 1 : i < j => g[i] < g[j]
      BY <1>3, <2>1
  <2>3. \A i \in 0..(n + 1) - 1 : g[i] \in Int
      BY <1>2, <2>1
  <2>4. Cardinality({g[k] : k \in 0..(n + 1) - 1}) = n + 1
      BY <2>1, <2>2, <2>3, CountOf
  <2> QED
      BY <1>4, <2>1, <2>4
<1>7. \A k \in 0..n : cut(k) = g[k]
  <2>1. ASSUME NEW k \in 0..n
        PROVE  cut(k) = g[k]
    <3>1. g[k] \in cuts /\ Cardinality({j \in cuts : j < g[k]}) = k
        BY <1>4, <1>5
    <3>2. ASSUME NEW i \in cuts, Cardinality({j \in cuts : j < i}) = k
          PROVE  i = g[k]
      <4>1. PICK m \in 0..n : i = g[m]
          BY <1>4
      <4>2. Cardinality({j \in cuts : j < g[m]}) = m
          BY <1>5
      <4> QED
          BY <3>2, <4>1, <4>2
    <3> QED
        BY <3>1, <3>2
  <2> QED
      BY <2>1
<1>8. Split(s, c) = [k \in 1..Cardinality(cuts) - 1 |-> SubSeq(s, cut(k - 1) + 1, cut(k) - 1)]
    BY DEF Split, cuts
<1> HIDE DEF cut
<1>9. Split(s, c) = [k \in 1..n |-> SubSeq(s, cut(k - 1) + 1, cut(k) - 1)]
    BY <1>6, <1>8
<1>10. IsSequence(Split(s, c)) /\ Len(Split(s, c)) = n
  <2>1. Split(s, c) = [k \in 1..n |-> Split(s, c)[k]]
      BY <1>9
  <2> QED
      BY <2>1, DomainIsSequence
<1>11. ASSUME NEW k \in 1..n
       PROVE  Split(s, c)[k] = SubSeq(s, g[k - 1] + 1, g[k] - 1)
  <2>1. k - 1 \in 0..n /\ k \in 0..n
      OBVIOUS
  <2>2. cut(k - 1) = g[k - 1] /\ cut(k) = g[k]
      BY <1>7, <2>1
  <2>3. Split(s, c)[k] = SubSeq(s, cut(k - 1) + 1, cut(k) - 1)
      BY <1>9
  <2> QED
      BY <2>2, <2>3
<1> QED
    BY <1>10, <1>11 DEF PartsOf

(* A string with one c at p has two parts.                                 *)
LEMMA SplitInTwo ==
    ASSUME NEW s, IsSequence(s), NEW c, NEW p \in 1..Len(s),
           \A i \in 1..Len(s) : s[i] = c <=> i = p
    PROVE  /\ IsSequence(Split(s, c)) /\ Len(Split(s, c)) = 2
           /\ Split(s, c)[1] = SubSeq(s, 1, p - 1)
           /\ Split(s, c)[2] = SubSeq(s, p + 1, Len(s))
<1> DEFINE g == [k \in 0..2 |-> IF k = 0 THEN 0 ELSE IF k = 1 THEN p ELSE Len(s) + 1]
<1>1. Len(s) \in Nat /\ p \in Int
    BY SequenceLen
<1>2. g[0] = 0 /\ g[1] = p /\ g[2] = Len(s) + 1
    OBVIOUS
<1> HIDE DEF g
<1>3. CutAt(g, 2, s, c)
  <2>1. \A k \in 0..2 : k = 0 \/ k = 1 \/ k = 2
      OBVIOUS
  <2>2. \A k \in 1..2 : (k = 1 /\ k - 1 = 0) \/ (k = 2 /\ k - 1 = 1)
      OBVIOUS
  <2>3. 2 - 1 = 1 /\ \A k \in 1..1 : k = 1
      OBVIOUS
  <2>4. \A k \in 0..2 : g[k] \in Int
      BY <1>1, <1>2, <2>1
  <2>5. \A k \in 1..2 : g[k - 1] < g[k]
      BY <1>1, <1>2, <2>2
  <2>6. \A k \in 1..2 - 1 : s[g[k]] = c
      BY <1>2, <2>3
  <2>7. 1 \in 1..2 - 1
      OBVIOUS
  <2>8. \A i \in 1..Len(s) : s[i] = c => g[1] = i
      BY <1>2
  <2> QED
      BY <1>2, <2>4, <2>5, <2>6, <2>7, <2>8 DEF CutAt
<1>4. 2 \in Nat \ {0} /\ 1 \in 1..2 /\ 2 \in 1..2 /\ 1 - 1 = 0 /\ 2 - 1 = 1
    OBVIOUS
<1>5. /\ IsSequence(Split(s, c)) /\ Len(Split(s, c)) = 2
      /\ \A k \in 1..2 : Split(s, c)[k] = SubSeq(s, g[k - 1] + 1, g[k] - 1)
  <2>1. PartsOf(Split(s, c), g, 2, s)
      BY <1>3, <1>4, SplitParts
  <2> QED
      BY <2>1 DEF PartsOf
<1>6. /\ Split(s, c)[1] = SubSeq(s, g[0] + 1, g[1] - 1)
      /\ Split(s, c)[2] = SubSeq(s, g[1] + 1, g[2] - 1)
    BY <1>4, <1>5
<1>7. 0 + 1 = 1 /\ (Len(s) + 1) - 1 = Len(s)
    BY <1>1
<1> QED
    BY <1>2, <1>5, <1>6, <1>7

(* e tells after how many atoms of the flattened sequence s each of the    *)
(* sequences ends.                                                         *)
PlacesOf(e, seqs, s) ==
    /\ e[0] = 0 /\ e[Len(seqs)] = Len(s)
    /\ \A k \in 0..Len(seqs) : e[k] \in Nat
    /\ \A k \in 1..Len(seqs) : e[k] = e[k - 1] + Len(seqs[k])
    /\ \A k \in 1..Len(seqs) : \A i \in 1..Len(seqs[k]) : s[e[k - 1] + i] = seqs[k][i]

(* Where FlattenSeq puts what.                                             *)
LEMMA FlattenPlaces ==
    ASSUME NEW seqs, AreSequences(seqs)
    PROVE  \E e : PlacesOf(e, seqs, FlattenSeq(seqs))
<1> DEFINE n == Len(seqs)
           s == FlattenSeq(seqs)
<1>1. IsSequence(seqs) /\ n \in Nat /\ \A i \in 1..n : IsSequence(seqs[i])
    BY SequenceLen DEF AreSequences
<1>2. \A i \in 1..n : Len(seqs[i]) \in Nat
    BY <1>1, SequenceLen
<1>3. CASE n = 0
  <2>1. seqs = <<>> /\ s = seqs
      BY <1>1, <1>3, SequenceLen DEF FlattenSeq
  <2>2. Len(s) = 0
      BY <1>3, <2>1
  <2> DEFINE e == [k \in 0..0 |-> 0]
  <2>3. e[0] = 0 /\ \A k \in 0..0 : k = 0
      OBVIOUS
  <2> HIDE DEF e, s
  <2>4. PlacesOf(e, seqs, s)
      BY <1>3, <2>2, <2>3 DEF PlacesOf
  <2> QED
      BY <2>4 DEF s
<1>4. CASE n # 0
  <2>1. PICK f : Flattens(f, seqs, n) /\ s = f[n]
      BY <1>1, <1>4, FlattenRecursion
  <2>2. \A i \in 1..n : f[i] = IF i = 1 THEN seqs[i] ELSE f[i - 1] \o seqs[i]
      BY <2>1 DEF Flattens
  <2> DEFINE e == [k \in 0..n |-> IF k = 0 THEN 0 ELSE Len(f[k])]
             Fine(m) == /\ IsSequence(f[m])
                        /\ e[m] = e[m - 1] + Len(seqs[m])
                        /\ \A k \in 1..m : \A i \in 1..Len(seqs[k]) :
                              e[k - 1] + i \in 1..e[m] /\ f[m][e[k - 1] + i] = seqs[k][i]
             T == {m \in Nat : m \in 1..n => Fine(m)}
  <2>3. /\ e[0] = 0 /\ \A k \in 1..n : e[k] = Len(f[k])
      OBVIOUS
  <2> HIDE DEF e, Fine
  <2>4. Fine(1)
    <3>1. f[1] = seqs[1] /\ 1 - 1 = 0 /\ e[1] = Len(f[1]) /\ 1 \in 1..n
        BY <1>1, <1>4, <2>2, <2>3
    <3>2. \A i \in 1..Len(seqs[1]) : 0 + i = i
        BY <1>2, <3>1
    <3>3. \A k \in 1..1 : k = 1
        OBVIOUS
    <3>4. e[1] = e[0] + Len(seqs[1])
        BY <1>2, <2>3, <3>1
    <3> QED
      <4>1. \A i \in 1..Len(seqs[1]) :
               e[1 - 1] + i \in 1..e[1] /\ f[1][e[1 - 1] + i] = seqs[1][i]
          BY <1>2, <2>3, <3>1, <3>2
      <4>2. IsSequence(f[1]) /\ e[1] = e[1 - 1] + Len(seqs[1])
          BY <1>1, <3>1, <3>4
      <4> QED
          BY <3>3, <4>1, <4>2 DEF Fine
  <2>5. ASSUME NEW m \in Nat, m \in 1..n, m + 1 \in 1..n, Fine(m)
        PROVE  Fine(m + 1)
    <3>1. f[m + 1] = f[m] \o seqs[m + 1] /\ (m + 1) - 1 = m
      <4>1. m + 1 # 1 /\ (m + 1) - 1 = m
          BY <2>5
      <4> QED
          BY <2>2, <2>5, <4>1
    <3>2. IsSequence(f[m]) /\ IsSequence(seqs[m + 1])
        BY <1>1, <2>5 DEF Fine
    <3>3. /\ IsSequence(f[m + 1]) /\ Len(f[m + 1]) = Len(f[m]) + Len(seqs[m + 1])
          /\ \A i \in 1..Len(f[m]) + Len(seqs[m + 1]) :
                f[m + 1][i] = IF i <= Len(f[m]) THEN f[m][i] ELSE seqs[m + 1][i - Len(f[m])]
      <4> DEFINE t == f[m] \o seqs[m + 1]
      <4>1. /\ IsSequence(t) /\ Len(t) = Len(f[m]) + Len(seqs[m + 1])
            /\ \A i \in 1..Len(f[m]) + Len(seqs[m + 1]) :
                  t[i] = IF i <= Len(f[m]) THEN f[m][i] ELSE seqs[m + 1][i - Len(f[m])]
          BY <3>2, ConcatIsSequence
      <4> HIDE DEF t
      <4>2. f[m + 1] = t
          BY <3>1 DEF t
      <4> QED
          BY <4>1, <4>2
    <3>4. /\ e[m] = Len(f[m]) /\ e[m + 1] = Len(f[m + 1])
          /\ Len(f[m]) \in Nat /\ Len(seqs[m + 1]) \in Nat
        BY <1>2, <2>3, <2>5, <3>2, SequenceLen
    <3>5. ASSUME NEW k \in 1..m + 1, NEW i \in 1..Len(seqs[k])
          PROVE  e[k - 1] + i \in 1..e[m + 1] /\ f[m + 1][e[k - 1] + i] = seqs[k][i]
      <4>1. CASE k \in 1..m
        <5> DEFINE j == e[k - 1] + i
        <5>1. j \in 1..e[m] /\ f[m][j] = seqs[k][i]
            BY <2>5, <4>1 DEF Fine
        <5> HIDE DEF j
        <5>2. j \in 1..Len(f[m]) + Len(seqs[m + 1]) /\ j <= Len(f[m])
          <6>1. PICK p \in Nat, q \in Nat : p = Len(f[m]) /\ q = Len(seqs[m + 1])
              BY <3>4
          <6>2. j \in 1..p
              BY <3>4, <5>1, <6>1
          <6>3. j \in 1..p + q /\ j <= p
              BY <6>2
          <6> QED
              BY <6>1, <6>3
        <5>3. f[m + 1][j] = f[m][j]
            BY <3>3, <5>2
        <5> QED
            BY <3>3, <3>4, <5>1, <5>2, <5>3 DEF j
      <4>2. CASE k = m + 1
        <5> DEFINE j == e[m] + i
        <5>1. i \in 1..Len(seqs[m + 1])
            BY <4>2
        <5>2. /\ j \in 1..Len(f[m]) + Len(seqs[m + 1]) /\ ~ (j <= Len(f[m]))
              /\ j - Len(f[m]) = i
          <6>1. PICK p \in Nat, q \in Nat : p = Len(f[m]) /\ q = Len(seqs[m + 1])
              BY <3>4
          <6>2. i \in 1..q /\ j = p + i
              BY <3>4, <5>1, <6>1
          <6>3. p + i \in 1..p + q /\ ~ (p + i <= p) /\ (p + i) - p = i
              BY <6>2
          <6> QED
              BY <6>1, <6>2, <6>3
        <5> HIDE DEF j
        <5>3. f[m + 1][j] = seqs[m + 1][i]
            BY <3>3, <5>2
        <5>4. e[k - 1] + i = j
            BY <3>1, <4>2 DEF j
        <5> QED
            BY <3>3, <3>4, <4>2, <5>2, <5>3, <5>4
      <4> QED
          BY <4>1, <4>2
    <3>6. e[m + 1] = e[(m + 1) - 1] + Len(seqs[m + 1])
        BY <3>1, <3>3, <3>4
    <3> QED
        BY <3>3, <3>5, <3>6 DEF Fine
  <2>6. 0 \in T
      OBVIOUS
  <2>7. ASSUME NEW m \in Nat, m \in T
        PROVE  m + 1 \in T
    <3>1. CASE m = 0
        BY <2>4, <3>1
    <3>2. CASE m # 0 /\ m + 1 \in 1..n
      <4>1. m \in 1..n
          BY <1>1, <3>2
      <4>2. Fine(m)
          BY <2>7, <4>1
      <4> QED
          BY <2>5, <3>2, <4>1, <4>2
    <3> QED
        BY <3>1, <3>2
  <2> HIDE DEF T
  <2>8. Nat \subseteq T
      BY <2>6, <2>7, Induction
  <2>9. \A m \in 1..n : Fine(m)
      BY <2>8 DEF T
  <2>10. n \in 1..n
      BY <1>1, <1>4
  <2>11. /\ \A m \in 1..n : IsSequence(f[m]) /\ e[m] = e[m - 1] + Len(seqs[m])
         /\ \A k \in 1..n : \A i \in 1..Len(seqs[k]) : f[n][e[k - 1] + i] = seqs[k][i]
      BY <2>9, <2>10 DEF Fine
  <2>12. \A k \in 0..n : e[k] \in Nat
    <3> TAKE k \in 0..n
    <3>1. CASE k = 0
        BY <2>3, <3>1
    <3>2. CASE k # 0
      <4>1. k \in 1..n
          BY <1>1, <3>2
      <4>2. e[k] = Len(f[k]) /\ IsSequence(f[k])
          BY <2>3, <2>11, <4>1
      <4> QED
          BY <4>2, SequenceLen
    <3> QED
        BY <3>1, <3>2
  <2>13. e[n] = Len(s)
      BY <2>1, <2>3, <2>10
  <2> HIDE DEF s
  <2>14. PlacesOf(e, seqs, s)
      BY <2>1, <2>3, <2>11, <2>12, <2>13 DEF PlacesOf
  <2> QED
      BY <2>14 DEF s
<1> QED
    BY <1>3, <1>4

(* Places in a joined list: those of its strings, and of the c between.    *)
JoinedAt(g, list, c, s) ==
    /\ g[0] = 0 /\ g[Len(list)] = Len(s) + 1
    /\ \A k \in 0..Len(list) : g[k] \in Nat
    /\ \A k \in 1..Len(list) : g[k] = g[k - 1] + Len(list[k]) + 1
    /\ \A k \in 1..Len(list) - 1 : s[g[k]] = c
    /\ \A k \in 1..Len(list) : \A i \in 1..Len(list[k]) : s[g[k - 1] + i] = list[k][i]

(* Where Join puts what.                                                   *)
LEMMA JoinPlaces ==
    ASSUME NEW list, AreSequences(list), Len(list) # 0, NEW c
    PROVE  \E g : JoinedAt(g, list, c, Join(list, c))
<1> DEFINE n == Len(list)
           parts == [i \in 1..n |-> IF i = 1 THEN list[i] ELSE <<c>> \o list[i]]
           s == Join(list, c)
<1>1. n \in Nat /\ n # 0 /\ \A i \in 1..n : IsSequence(list[i])
    BY SequenceLen DEF AreSequences
<1>2. IsSequence(parts) /\ Len(parts) = n
  <2>1. parts = [i \in 1..n |-> parts[i]]
      OBVIOUS
  <2> HIDE DEF parts
  <2> QED
      BY <1>1, <2>1, DomainIsSequence
<1>3. \A i \in 1..n : Len(list[i]) \in Nat
    BY <1>1, SequenceLen
<1>4. s = FlattenSeq(parts)
    BY DEF Join
<1>5. 1 \in 1..n /\ parts[1] = list[1]
    BY <1>1
<1>6. ASSUME NEW k \in 2..n
      PROVE  /\ IsSequence(parts[k]) /\ Len(parts[k]) = Len(list[k]) + 1 /\ parts[k][1] = c
             /\ \A i \in 1..Len(list[k]) : parts[k][i + 1] = list[k][i]
  <2>1. parts[k] = <<c>> \o list[k] /\ k \in 1..n
      BY <1>1
  <2>2. IsSequence(<<c>>) /\ Len(<<c>>) = 1 /\ <<c>>[1] = c
    <3>1. <<c>> \in Seq({c})
        OBVIOUS
    <3> QED
        BY <3>1, SequenceOf
  <2>3. IsSequence(list[k]) /\ Len(list[k]) \in Nat
      BY <1>1, <1>3, <2>1
  <2>4. /\ IsSequence(<<c>> \o list[k]) /\ Len(<<c>> \o list[k]) = 1 + Len(list[k])
        /\ \A i \in 1..1 + Len(list[k]) :
              (<<c>> \o list[k])[i] = IF i <= 1 THEN <<c>>[i] ELSE list[k][i - 1]
      BY <2>2, <2>3, ConcatIsSequence
  <2>5. parts[k][1] = c
      BY <2>1, <2>2, <2>3, <2>4
  <2>6. ASSUME NEW i \in 1..Len(list[k])
        PROVE  parts[k][i + 1] = list[k][i]
    <3>1. i + 1 \in 1..1 + Len(list[k]) /\ ~ (i + 1 <= 1) /\ (i + 1) - 1 = i
        BY <2>3
    <3> QED
        BY <2>1, <2>4, <3>1
  <2> QED
      BY <2>1, <2>3, <2>4, <2>5, <2>6
<1> HIDE DEF parts
<1>7. \A i \in 1..n : i = 1 \/ i \in 2..n
    BY <1>1
<1>8. AreSequences(parts)
  <2>1. \A i \in 1..n : IsSequence(parts[i])
      BY <1>1, <1>5, <1>6, <1>7
  <2> QED
      BY <1>2, <2>1 DEF AreSequences
<1>9. PICK e : PlacesOf(e, parts, FlattenSeq(parts))
    BY <1>8, FlattenPlaces
<1>10. /\ e[0] = 0 /\ e[n] = Len(s)
       /\ \A k \in 0..n : e[k] \in Nat
       /\ \A k \in 1..n : e[k] = e[k - 1] + Len(parts[k])
       /\ \A k \in 1..n : \A i \in 1..Len(parts[k]) : s[e[k - 1] + i] = parts[k][i]
    BY <1>2, <1>4, <1>9 DEF PlacesOf
<1> HIDE DEF s
<1> DEFINE g == [k \in 0..n |-> IF k = 0 THEN 0 ELSE e[k] + 1]
<1>11. g[0] = 0 /\ \A k \in 1..n : g[k] = e[k] + 1
    OBVIOUS
<1> HIDE DEF g
<1>12. g[n] = Len(s) + 1 /\ \A k \in 0..n : g[k] \in Nat
  <2>1. n \in 1..n /\ \A k \in 0..n : k = 0 \/ k \in 1..n
      BY <1>1
  <2>2. \A k \in 1..n : e[k] \in Nat /\ g[k] = e[k] + 1
      BY <1>1, <1>10, <1>11
  <2>3. g[n] = e[n] + 1
      BY <2>1, <2>2
  <2>4. g[0] \in Nat /\ \A k \in 1..n : g[k] \in Nat
      BY <1>11, <2>2
  <2> QED
      BY <1>10, <2>1, <2>3, <2>4
<1>13. ASSUME NEW k \in 1..n
       PROVE  /\ g[k] = g[k - 1] + Len(list[k]) + 1
              /\ \A i \in 1..Len(list[k]) : s[g[k - 1] + i] = list[k][i]
  <2>1. CASE k = 1
    <3>1. e[1] = e[0] + Len(list[1]) /\ 1 - 1 = 0
        BY <1>5, <1>10
    <3>2. \A i \in 1..Len(list[1]) : s[e[0] + i] = list[1][i]
        BY <1>5, <1>10, <3>1
    <3> QED
        BY <1>3, <1>5, <1>10, <1>11, <2>1, <3>1, <3>2
  <2>2. CASE k \in 2..n
    <3>1. e[k] = e[k - 1] + Len(list[k]) + 1 /\ k - 1 \in 1..n
      <4>1. k \in 1..n /\ k - 1 \in 1..n /\ k - 1 \in 0..n
          BY <1>1, <2>2
      <4>2. Len(parts[k]) = Len(list[k]) + 1 /\ Len(list[k]) \in Nat
          BY <1>3, <1>6, <2>2
      <4>3. e[k] = e[k - 1] + Len(parts[k]) /\ e[k - 1] \in Nat
          BY <1>10, <4>1
      <4> QED
          BY <4>1, <4>2, <4>3
    <3>2. g[k] = e[k] + 1 /\ g[k - 1] = e[k - 1] + 1 /\ e[k - 1] \in Nat
        BY <1>10, <1>11, <3>1
    <3>3. ASSUME NEW i \in 1..Len(list[k])
          PROVE  s[g[k - 1] + i] = list[k][i]
      <4>1. i + 1 \in 1..Len(parts[k]) /\ parts[k][i + 1] = list[k][i]
          BY <1>3, <1>6, <2>2
      <4>2. s[e[k - 1] + (i + 1)] = parts[k][i + 1]
          BY <1>10, <4>1
      <4>3. e[k - 1] + (i + 1) = g[k - 1] + i
        <5> HIDE DEF s
        <5>1. i \in Int
            OBVIOUS
        <5> QED
            BY <3>2, <5>1
      <4> QED
          BY <4>1, <4>2, <4>3
    <3> QED
        BY <1>3, <3>1, <3>2, <3>3
  <2> QED
      BY <1>7, <2>1, <2>2
<1>14. ASSUME NEW k \in 1..n - 1
       PROVE  s[g[k]] = c
  <2>1. k + 1 \in 2..n /\ k + 1 \in 1..n /\ (k + 1) - 1 = k /\ k \in 1..n
      BY <1>1
  <2>2. 1 \in 1..Len(parts[k + 1]) /\ parts[k + 1][1] = c
      BY <1>3, <1>6, <2>1
  <2>3. s[e[k] + 1] = parts[k + 1][1]
      BY <1>10, <2>1, <2>2
  <2> QED
      BY <1>11, <2>1, <2>2, <2>3
<1>15. JoinedAt(g, list, c, s)
    BY <1>11, <1>12, <1>13, <1>14 DEF JoinedAt
<1> QED
    BY <1>15 DEF s

(* A joined list is a string.                                              *)
LEMMA JoinedIsCut ==
    ASSUME NEW list, AreSequences(list), Len(list) # 0, NEW c,
           \A k \in 1..Len(list) : ~ Occurs(c, list[k]),
           NEW s, IsSequence(s), NEW g, JoinedAt(g, list, c, s)
    PROVE  CutAt(g, Len(list), s, c)
<1> DEFINE n == Len(list)
<1>1. n \in Nat /\ n # 0 /\ \A i \in 1..n : IsSequence(list[i])
    BY SequenceLen DEF AreSequences
<1>2. \A i \in 1..n : Len(list[i]) \in Nat
    BY <1>1, SequenceLen
<1>3. /\ g[0] = 0 /\ g[n] = Len(s) + 1
      /\ \A k \in 0..n : g[k] \in Nat
      /\ \A k \in 1..n : g[k] = g[k - 1] + Len(list[k]) + 1
      /\ \A k \in 1..n - 1 : s[g[k]] = c
      /\ \A k \in 1..n : \A i \in 1..Len(list[k]) : s[g[k - 1] + i] = list[k][i]
    BY DEF JoinedAt
<1>4. \A k \in 1..n : ~ Occurs(c, list[k])
    OBVIOUS
<1> HIDE DEF n
<1>5. ASSUME NEW k \in 1..n
      PROVE  g[k - 1] \in Nat /\ g[k - 1] < g[k]
  <2>1. k - 1 \in 0..n
      BY <1>1
  <2>2. g[k - 1] \in Nat /\ g[k] = g[k - 1] + Len(list[k]) + 1 /\ Len(list[k]) \in Nat
      BY <1>2, <1>3, <2>1
  <2> QED
      BY <2>2
<1>6. ASSUME NEW i \in 1..Len(s), s[i] = c
      PROVE  \E k \in 1..n - 1 : g[k] = i
  <2>1. Len(s) \in Nat
      BY SequenceLen
  <2> DEFINE U == {k \in 0..n : i <= g[k]}
  <2>2. U \subseteq Nat /\ n \in U
      BY <1>1, <1>3, <2>1
  <2>3. PICK k \in U : \A j \in U : k <= j
      BY <2>2, LeastElement
  <2>4. k \in 0..n /\ i <= g[k]
      BY <2>3
  <2>5. k \in 1..n /\ k - 1 \in 0..n
      BY <1>1, <1>3, <2>1, <2>4
  <2>6. ~ (i <= g[k - 1])
    <3>1. k - 1 \in 0..n /\ ~ (k <= k - 1)
        BY <2>5
    <3> QED
        BY <2>3, <3>1
  <2> HIDE DEF U
  <2>7. g[k - 1] \in Nat /\ Len(list[k]) \in Nat /\ g[k] = g[k - 1] + Len(list[k]) + 1
      BY <1>2, <1>3, <1>5, <2>5
  <2>8. i \in Int
      OBVIOUS
  <2>9. CASE i = g[k]
    <3>1. k # n
        BY <1>3, <2>1, <2>9
    <3>2. k \in 1..n - 1
        BY <1>1, <2>5, <3>1
    <3> QED
        BY <2>9, <3>2
  <2>10. CASE i # g[k]
    <3>1. PICK m \in Int : m = i - g[k - 1]
        BY <2>7, <2>8
    <3>2. m \in 1..Len(list[k]) /\ g[k - 1] + m = i
      <4>1. PICK a \in Nat, l \in Nat :
                a = g[k - 1] /\ l = Len(list[k]) /\ g[k] = a + l + 1
          BY <2>7
      <4>2. i <= a + l + 1 /\ ~ (i <= a) /\ i # a + l + 1 /\ m = i - a
          BY <2>4, <2>6, <2>10, <3>1, <4>1
      <4>3. m \in 1..l /\ a + m = i
          BY <2>8, <4>2
      <4> QED
          BY <4>1, <4>3
    <3>3. list[k][m] = c
        BY <1>3, <1>6, <2>5, <3>2
    <3>4. Occurs(c, list[k])
        BY <3>2, <3>3 DEF Occurs
    <3> QED
        BY <1>4, <2>5, <3>4
  <2> QED
      BY <2>9, <2>10
<1>7. \A k \in 0..n : g[k] \in Int
    BY <1>3
<1>8. CutAt(g, n, s, c)
    BY <1>3, <1>5, <1>6, <1>7 DEF CutAt
<1> QED
    BY <1>8 DEF n

(* split() takes apart what join() has put together, if no string of the   *)
(* list holds the separator.                                               *)
LEMMA SplitOfJoin ==
    ASSUME NEW list, AreSequences(list), Len(list) # 0, NEW c,
           \A k \in 1..Len(list) : ~ Occurs(c, list[k])
    PROVE  Split(Join(list, c), c) = list
<1> DEFINE n == Len(list)
           s == Join(list, c)
           parts == Split(s, c)
<1>1. n \in Nat /\ n # 0 /\ IsSequence(list) /\ \A i \in 1..n : IsSequence(list[i])
    BY SequenceLen DEF AreSequences
<1>2. IsSequence(s)
    BY JoinIsSequence
<1>3. PICK g : JoinedAt(g, list, c, s)
    BY JoinPlaces
<1>4. CutAt(g, n, s, c)
  <2> HIDE DEF s
  <2> QED
      BY <1>2, <1>3, JoinedIsCut
<1>5. PartsOf(parts, g, n, s)
  <2> HIDE DEF s
  <2>1. n \in Nat \ {0}
      BY <1>1
  <2> HIDE DEF n
  <2> QED
      BY <1>2, <1>4, <2>1, SplitParts
<1> HIDE DEF s, parts
<1>6. /\ IsSequence(parts) /\ Len(parts) = n
      /\ \A k \in 1..n : parts[k] = SubSeq(s, g[k - 1] + 1, g[k] - 1)
    BY <1>5 DEF PartsOf
<1>7. ASSUME NEW k \in 1..n
      PROVE  parts[k] = list[k]
  <2>1. /\ \A i \in 0..n : g[i] \in Nat
        /\ g[k] = g[k - 1] + Len(list[k]) + 1
        /\ \A i \in 1..Len(list[k]) : s[g[k - 1] + i] = list[k][i]
      BY <1>3 DEF JoinedAt
  <2>2. IsSequence(list[k]) /\ Len(list[k]) \in Nat
      BY <1>1, SequenceLen
  <2>3. PICK a \in Nat, m \in Nat : a = g[k - 1] /\ m = Len(list[k]) /\ g[k] = a + m + 1
    <3>1. k - 1 \in 0..n
        BY <1>1
    <3> QED
        BY <2>1, <2>2, <3>1
  <2>4. parts[k] = SubSeq(s, a + 1, a + m)
    <3>1. (a + m + 1) - 1 = a + m
        OBVIOUS
    <3> QED
        BY <1>6, <2>3, <3>1
  <2>5. /\ IsSequence(SubSeq(s, a + 1, a + m))
        /\ Len(SubSeq(s, a + 1, a + m)) = IF a + 1 <= a + m THEN (a + m) - (a + 1) + 1 ELSE 0
        /\ \A i \in 1..(a + m) - (a + 1) + 1 : SubSeq(s, a + 1, a + m)[i] = s[a + 1 + i - 1]
    <3>1. a + 1 \in Int /\ a + m \in Int
        OBVIOUS
    <3> QED
        BY <3>1, SubSeqIsSequence
  <2>6. Len(parts[k]) = m /\ IsSequence(parts[k])
      BY <2>4, <2>5
  <2>7. ASSUME NEW i \in 1..m
        PROVE  parts[k][i] = list[k][i]
    <3>1. i \in 1..(a + m) - (a + 1) + 1 /\ a + 1 + i - 1 = a + i
        OBVIOUS
    <3>2. parts[k][i] = s[a + i]
        BY <2>4, <2>5, <3>1
    <3>3. s[a + i] = list[k][i]
        BY <2>1, <2>3
    <3> QED
        BY <3>2, <3>3
  <2> QED
      BY <2>2, <2>3, <2>6, <2>7, SameString
<1>8. parts = list
    BY <1>1, <1>6, <1>7, SameString
<1> QED
    BY <1>8 DEF parts, s

-----------------------------------------------------------------------------
(* Powers up to m.                                                         *)
Powers(f, b, m) ==
    f \in [0..m -> Nat] /\ f[0] = 1 /\ \A e \in 1..m : f[e] = b * f[e - 1]

(* Powers by repeated multiplication exist.                                *)
LEMMA PowersExist ==
    ASSUME NEW b \in Nat, NEW m \in Nat
    PROVE  \E f : Powers(f, b, m)
<1> DEFINE T == {k \in Nat : \E f : Powers(f, b, k)}
<1>1. 0 \in T
  <2>1. Powers([e \in 0..0 |-> 1], b, 0)
      BY DEF Powers
  <2> QED
      BY <2>1
<1>2. ASSUME NEW k \in Nat, k \in T PROVE k + 1 \in T
  <2>1. PICK f : Powers(f, b, k)
      BY <1>2
  <2> DEFINE g == [e \in 0..(k + 1) |-> IF e = k + 1 THEN b * f[k] ELSE f[e]]
  <2>2. f \in [0..k -> Nat] /\ f[0] = 1 /\ \A e \in 1..k : f[e] = b * f[e - 1]
      BY <2>1 DEF Powers
  <2>3. b * f[k] \in Nat
      BY <2>2
  <2>4. g \in [0..(k + 1) -> Nat] /\ g[0] = 1
      BY <2>2, <2>3
  <2>5. \A e \in 1..(k + 1) : g[e] = b * g[e - 1]
      BY <2>2
  <2> HIDE DEF g
  <2>6. Powers(g, b, k + 1)
      BY <2>4, <2>5 DEF Powers
  <2> QED
      BY <2>6
<1> HIDE DEF T
<1>3. m \in T
    BY <1>1, <1>2, Induction
<1> QED
    BY <1>3 DEF T

(* The powers up to m + 1 continue those up to m.                          *)
LEMMA PowersAgree ==
    ASSUME NEW b \in Nat, NEW m \in Nat, NEW f, NEW g, Powers(f, b, m), Powers(g, b, m + 1)
    PROVE  g[m] = f[m]
<1> DEFINE T == {k \in Nat : k <= m => g[k] = f[k]}
<1>1. 0 \in T
    BY DEF Powers
<1>2. ASSUME NEW k \in Nat, k \in T PROVE k + 1 \in T
  <2>1. CASE k + 1 <= m
    <3>1. k + 1 \in 1..m /\ k + 1 \in 1..(m + 1) /\ (k + 1) - 1 = k /\ k <= m
        BY <2>1
    <3>2. f[k + 1] = b * f[k] /\ g[k + 1] = b * g[k]
        BY <3>1 DEF Powers
    <3> QED
        BY <1>2, <3>1, <3>2
  <2>2. CASE ~ (k + 1 <= m)
      BY <2>2
  <2> QED
      BY <2>1, <2>2
<1> HIDE DEF T
<1>3. m \in T
    BY <1>1, <1>2, Induction
<1> QED
    BY <1>3 DEF T

(* The powers of a number, for every exponent.                             *)
LEMMA PowerFunction ==
    ASSUME NEW b \in Nat, NEW pow,
           pow = CHOOSE p : p = [e \in Nat |-> IF e = 0 THEN 1 ELSE b * p[e - 1]]
    PROVE  /\ pow[0] = 1
           /\ \A e \in Nat : pow[e] \in Nat /\ pow[e + 1] = b * pow[e]
<1> DEFINE F == [m \in Nat |-> CHOOSE f : Powers(f, b, m)]
           v == [e \in Nat |-> F[e][e]]
           P(p) == p = [e \in Nat |-> IF e = 0 THEN 1 ELSE b * p[e - 1]]
           p == CHOOSE p : P(p)
<1>1. \A m \in Nat : Powers(F[m], b, m)
    BY PowersExist
<1> HIDE DEF F
<1>2. v[0] = 1 /\ \A e \in Nat : v[e] \in Nat
    BY <1>1 DEF Powers
<1>3. ASSUME NEW e \in Nat PROVE v[e + 1] = b * v[e]
  <2>1. Powers(F[e], b, e) /\ Powers(F[e + 1], b, e + 1)
      BY <1>1
  <2>2. F[e + 1][e] = F[e][e]
      BY <2>1, PowersAgree
  <2>3. e + 1 \in 1..(e + 1) /\ (e + 1) - 1 = e
      OBVIOUS
  <2>4. F[e + 1][e + 1] = b * F[e + 1][e]
      BY <2>1, <2>3 DEF Powers
  <2> QED
      BY <2>2, <2>4
<1>4. v = [e \in Nat |-> v[e]]
    OBVIOUS
<1> HIDE DEF v
<1>5. \A e \in Nat : v[e] = IF e = 0 THEN 1 ELSE b * v[e - 1]
  <2>1. ASSUME NEW e \in Nat, e # 0 PROVE v[e] = b * v[e - 1]
    <3>1. e - 1 \in Nat /\ (e - 1) + 1 = e
        BY <2>1
    <3>2. v[(e - 1) + 1] = b * v[e - 1]
        BY <1>3, <3>1
    <3> QED
        BY <3>1, <3>2
  <2> QED
      BY <1>2, <2>1
<1>6. P(v)
    BY <1>4, <1>5
<1>7. P(p)
    BY <1>6, Zenon
<1>8. pow = p
    OBVIOUS
<1> HIDE DEF p
<1>9. p[0] = 1 /\ \A e \in Nat : p[e + 1] = b * p[e]
    BY <1>7
<1> HIDE DEF P
<1>10. \A e \in Nat : p[e] \in Nat
  <2> DEFINE T == {k \in Nat : p[k] \in Nat}
  <2>1. 0 \in T
      BY <1>9
  <2>2. ASSUME NEW k \in Nat, k \in T PROVE k + 1 \in T
    <3>1. p[k + 1] = b * p[k] /\ p[k] \in Nat
        BY <1>9, <2>2
    <3> QED
        BY <3>1
  <2> HIDE DEF T
  <2>3. Nat \subseteq T
      BY <2>1, <2>2, Induction
  <2> QED
      BY <2>3 DEF T
<1> QED
    BY <1>8, <1>9, <1>10

-----------------------------------------------------------------------------
(* A loop, that goes on with step[x] until x is in done, as a function.    *)
LoopsFrom(x, y, step, done, n, path) ==
    /\ path[0] = x /\ path[n] = y /\ y \in done
    /\ \A k \in 0..n - 1 : path[k] \notin done /\ path[k + 1] = step[path[k]]

Ends(x, S, step, done) == {y \in S : \E n \in Nat : \E path : LoopsFrom(x, y, step, done, n, path)}

(* Nothing is done where the loop ends at once.                            *)
LEMMA EndsAtOnce ==
    ASSUME NEW S, NEW step, NEW done, NEW x \in S, x \in done
    PROVE  Ends(x, S, step, done) = {x}
<1>1. ASSUME NEW y, NEW n \in Nat, NEW path, LoopsFrom(x, y, step, done, n, path)
      PROVE  y = x
  <2>1. n # 0 => 0 \in 0..n - 1
      OBVIOUS
  <2> QED
      BY <1>1, <2>1 DEF LoopsFrom
<1>2. LoopsFrom(x, x, step, done, 0, [k \in {0} |-> x])
  <2>1. 0..0 - 1 = {}
      OBVIOUS
  <2> QED
      BY <2>1 DEF LoopsFrom
<1>3. \E n \in Nat : \E path : LoopsFrom(x, x, step, done, n, path)
    BY <1>2
<1> QED
    BY <1>1, <1>3 DEF Ends

(* Elsewhere it ends where it ends after a step.                           *)
LEMMA EndsAfterStep ==
    ASSUME NEW S, NEW step, NEW done, NEW x \in S, x \notin done
    PROVE  Ends(x, S, step, done) = Ends(step[x], S, step, done)
<1>1. ASSUME NEW y, NEW n \in Nat, NEW path, LoopsFrom(x, y, step, done, n, path)
      PROVE  \E m \in Nat : \E rest : LoopsFrom(step[x], y, step, done, m, rest)
  <2>1. n # 0
      BY <1>1 DEF LoopsFrom
  <2>2. PICK m \in Nat : m = n - 1
      BY <2>1
  <2> DEFINE rest == [k \in 0..m |-> path[k + 1]]
  <2>3. rest[0] = path[1] /\ rest[m] = path[n]
      BY <2>2
  <2>4. path[1] = step[x]
    <3>1. 0 \in 0..n - 1 /\ 0 + 1 = 1
        BY <2>1
    <3> QED
        BY <1>1, <3>1 DEF LoopsFrom
  <2>5. ASSUME NEW k \in 0..m - 1
        PROVE  rest[k] \notin done /\ rest[k + 1] = step[rest[k]]
    <3>1. k + 1 \in 0..n - 1 /\ k \in 0..m /\ k + 1 \in 0..m
        BY <2>2
    <3>2. rest[k] = path[k + 1] /\ rest[k + 1] = path[(k + 1) + 1]
        BY <3>1
    <3> HIDE DEF rest
    <3>3. path[k + 1] \notin done /\ path[(k + 1) + 1] = step[path[k + 1]]
        BY <1>1, <3>1 DEF LoopsFrom
    <3> QED
        BY <3>2, <3>3
  <2> HIDE DEF rest
  <2>6. LoopsFrom(step[x], y, step, done, m, rest)
      BY <1>1, <2>3, <2>4, <2>5 DEF LoopsFrom
  <2> QED
      BY <2>6
<1>2. ASSUME NEW y, NEW m \in Nat, NEW rest, LoopsFrom(step[x], y, step, done, m, rest)
      PROVE  \E n \in Nat : \E path : LoopsFrom(x, y, step, done, n, path)
  <2>1. PICK n \in Nat : n = m + 1
      OBVIOUS
  <2> DEFINE path == [k \in 0..n |-> IF k = 0 THEN x ELSE rest[k - 1]]
  <2>2. path[0] = x /\ path[n] = rest[m]
      BY <2>1
  <2>3. ASSUME NEW k \in 0..n - 1
        PROVE  path[k] \notin done /\ path[k + 1] = step[path[k]]
    <3>1. k + 1 \in 0..n /\ k \in 0..n /\ k + 1 # 0 /\ (k + 1) - 1 = k
        BY <2>1
    <3>2. path[k + 1] = rest[k] /\ path[k] = IF k = 0 THEN x ELSE rest[k - 1]
        BY <3>1
    <3> HIDE DEF path
    <3>3. CASE k = 0
        BY <1>2, <3>2, <3>3 DEF LoopsFrom
    <3>4. CASE k # 0
      <4>1. k - 1 \in 0..m - 1 /\ (k - 1) + 1 = k
          BY <2>1, <3>4
      <4>2. rest[k - 1] \notin done /\ rest[(k - 1) + 1] = step[rest[k - 1]]
          BY <1>2, <4>1 DEF LoopsFrom
      <4> QED
          BY <3>2, <3>4, <4>1, <4>2
    <3> QED
        BY <3>3, <3>4
  <2> HIDE DEF path
  <2>4. LoopsFrom(x, y, step, done, n, path)
      BY <1>2, <2>2, <2>3 DEF LoopsFrom
  <2> QED
      BY <2>4
<1> QED
    BY <1>1, <1>2 DEF Ends

(* There is a function that goes through it, whether it ends or not.       *)
LEMMA LoopFunction ==
    ASSUME NEW S, NEW step, \A x \in S : step[x] \in S, NEW done
    PROVE  \E g : g = [x \in S |-> IF x \in done THEN x ELSE g[step[x]]]
<1> DEFINE one(T) == CHOOSE y : y \in T
           g == [x \in S |-> one(Ends(x, S, step, done))]
<1>1. ASSUME NEW x \in S, x \in done
      PROVE  g[x] = x
  <2>1. Ends(x, S, step, done) = {x}
      BY <1>1, EndsAtOnce
  <2> QED
      BY <2>1
<1>2. ASSUME NEW x \in S, x \notin done
      PROVE  g[x] = g[step[x]]
  <2>1. Ends(x, S, step, done) = Ends(step[x], S, step, done)
      BY <1>2, EndsAfterStep
  <2>2. step[x] \in S
      OBVIOUS
  <2>3. g[x] = one(Ends(x, S, step, done)) /\ g[step[x]] = one(Ends(step[x], S, step, done))
      BY <2>2
  <2> HIDE DEF g
  <2> QED
      BY <2>1, <2>3
<1>3. g = [x \in S |-> g[x]]
    OBVIOUS
<1> HIDE DEF g
<1>4. g = [x \in S |-> IF x \in done THEN x ELSE g[step[x]]]
  <2>1. \A x \in S : g[x] = IF x \in done THEN x ELSE g[step[x]]
      BY <1>1, <1>2
  <2> QED
      BY <1>3, <2>1
<1> QED
    BY <1>4
=============================================================================
