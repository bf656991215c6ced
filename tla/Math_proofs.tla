---------------------------- MODULE Math_proofs ----------------------------
(* Proofs about StreamingKMeans and MovingAnalyzer.                        *)
EXTENDS StreamingKMeans, MovingAnalyzer, Operators_proofs

(* Dividing by a divisor.                                                  *)
LEMMA Divides ==
    ASSUME NEW a \in Int, NEW g \in Nat \ {0}, a % g = 0
    PROVE  a \div g \in Int /\ a = g * (a \div g)
OBVIOUS

(* Multiplying and cancelling.                                             *)
LEMMA Cancel ==
    ASSUME NEW a \in Int, NEW b \in Int, NEW g \in Nat \ {0}
    PROVE  (g * a = g * b => a = b) /\ (g * a <= g * b => a <= b)
OBVIOUS

(* A comparison is kept by a factor that is not negative.                  *)
LEMMA Multiply ==
    ASSUME NEW a \in Int, NEW b \in Int, NEW g \in Nat, a <= b
    PROVE  g * a <= g * b
OBVIOUS

(* What is cancelled is a common divisor.                                  *)
LEMMA ReducedFraction ==
    ASSUME NEW x \in Fraction
    PROVE  /\ Reduced(x) \in Fraction
           /\ \E g \in Nat \ {0} : x.n = g * Reduced(x).n /\ x.d = g * Reduced(x).d
<1> DEFINE common == {k \in 1..x.d : x.d % k = 0 /\ x.n % k = 0}
           g == Max(common)
<1>1. x.n \in Int /\ x.d \in Nat \ {0}
    BY DEF Fraction
<1>2. g \in common
  <2>1. 1 \in common
      BY <1>1
  <2>2. common \subseteq 1..x.d /\ 1 \in Int /\ x.d \in Int
      BY <1>1
  <2> HIDE DEF common
  <2> QED
      BY <2>1, <2>2, MinAndMax, Zenon
<1>3. Reduced(x) = [n |-> x.n \div g, d |-> x.d \div g]
    BY DEF Reduced
<1>4. g \in Nat \ {0} /\ x.d % g = 0 /\ x.n % g = 0
    BY <1>1, <1>2
<1> HIDE DEF g
<1>5. /\ x.n = g * (x.n \div g) /\ x.n \div g \in Int
      /\ x.d = g * (x.d \div g) /\ x.d \div g \in Int
  <2>1. x.n \div g \in Int /\ x.n = g * (x.n \div g)
      BY <1>1, <1>4, Divides
  <2>2. x.d \in Int
      BY <1>1
  <2>3. x.d \div g \in Int /\ x.d = g * (x.d \div g)
      BY <1>4, <2>2, Divides
  <2> QED
      BY <2>1, <2>3
<1>6. x.d \div g > 0
    BY <1>1, <1>4, <1>5
<1> QED
    BY <1>3, <1>4, <1>5, <1>6 DEF Fraction

(* Fractions are totally ordered.                                          *)
LEMMA LeqOrder ==
    ASSUME NEW x \in Fraction, NEW y \in Fraction
    PROVE  /\ Leq(x, y) \/ Leq(y, x)
           /\ Leq(x, x)
           /\ \A z \in Fraction : Leq(x, y) /\ Leq(y, z) => Leq(x, z)
<1>1. x.n \in Int /\ x.d \in Nat \ {0} /\ y.n \in Int /\ y.d \in Nat \ {0}
    BY DEF Fraction
<1>2. ASSUME NEW z \in Fraction, Leq(x, y), Leq(y, z)
      PROVE  Leq(x, z)
  <2>1. z.n \in Int /\ z.d \in Nat \ {0}
      BY DEF Fraction
  <2> DEFINE a == x.n
             b == y.n
             c == z.n
             p == x.d
             q == y.d
             r == z.d
  <2>2. a * q <= b * p /\ b * r <= c * q
      BY <1>2 DEF Leq
  <2>3. a \in Int /\ b \in Int /\ c \in Int /\ p \in Nat \ {0} /\ q \in Nat \ {0} /\ r \in Nat \ {0}
      BY <1>1, <2>1
  <2> HIDE DEF a, b, c, p, q, r
  <2>4. a * r <= c * p
      BY <2>2, <2>3
  <2> QED
      BY <2>4 DEF Leq, a, c, p, r
<1>3. Leq(x, y) \/ Leq(y, x)
  <2>1. x.n * y.d \in Int /\ y.n * x.d \in Int
      BY <1>1
  <2> QED
      BY <2>1 DEF Leq
<1>4. Leq(x, x)
  <2>1. x.n * x.d \in Int
      BY <1>1
  <2> QED
      BY <2>1 DEF Leq
<1> QED
    BY <1>2, <1>3, <1>4

(* One of finitely many is the least.                                      *)
LEMMA LeastFraction ==
    ASSUME NEW n \in Nat \ {0}, NEW f, \A i \in 1..n : f[i] \in Fraction
    PROVE  \E i \in 1..n : \A j \in 1..n : Leq(f[i], f[j])
<1> DEFINE T == {m \in Nat : m + 1 <= n => \E i \in 1..(m + 1) : \A j \in 1..(m + 1) : Leq(f[i], f[j])}
<1>1. 0 \in T
  <2>1. 1..(0 + 1) = {1} /\ 1 \in 1..n
      OBVIOUS
  <2>2. Leq(f[1], f[1])
      BY <2>1, LeqOrder
  <2> QED
      BY <2>1, <2>2
<1>2. ASSUME NEW m \in Nat, m \in T PROVE m + 1 \in T
  <2>1. CASE ~ ((m + 1) + 1 <= n)
      BY <2>1
  <2>2. CASE (m + 1) + 1 <= n
    <3> DEFINE k == (m + 1) + 1
    <3>1. m + 1 <= n /\ k \in 1..n /\ 1..k = 1..(m + 1) \cup {k}
        BY <2>2
    <3>2. PICK i \in 1..(m + 1) : \A j \in 1..(m + 1) : Leq(f[i], f[j])
        BY <1>2, <3>1
    <3>3. i \in 1..n /\ f[i] \in Fraction /\ f[k] \in Fraction
          /\ \A j \in 1..(m + 1) : f[j] \in Fraction
        BY <3>1
    <3> HIDE DEF k, T
    <3>4. \E a \in 1..k : \A j \in 1..k : Leq(f[a], f[j])
      <4>1. CASE Leq(f[i], f[k])
          BY <3>1, <3>2, <4>1
      <4>2. CASE Leq(f[k], f[i])
        <5>1. \A j \in 1..(m + 1) : Leq(f[k], f[j])
            BY <3>2, <3>3, <4>2, LeqOrder
        <5>2. Leq(f[k], f[k])
            BY <3>3, LeqOrder
        <5> QED
            BY <3>1, <5>1, <5>2
      <4> QED
          BY <3>3, <4>1, <4>2, LeqOrder
    <3> QED
        BY <3>4 DEF T, k
  <2> QED
      BY <2>1, <2>2
<1> HIDE DEF T
<1>3. n - 1 \in Nat /\ (n - 1) + 1 = n
    OBVIOUS
<1>4. n - 1 \in T
    BY <1>1, <1>2, <1>3, Induction
<1> QED
    BY <1>3, <1>4 DEF T

(* A fraction between two integers.                                        *)
Between(c, lo, hi) == lo * c.d <= c.n /\ c.n <= hi * c.d

(* A mean of m data whose sum is s becomes one of m + 1 data.              *)
LEMMA MovedMean ==
    ASSUME NEW c \in Fraction, NEW m \in Nat, NEW s \in Int, m * c.n = s * c.d,
           NEW lo \in Int, NEW hi \in Int, NEW datum \in lo..hi, Between(c, lo, hi)
    PROVE  LET r == Moved(c, m + 1, datum) IN
           r \in Fraction /\ (m + 1) * r.n = (s + datum) * r.d /\ Between(r, lo, hi)
<1> DEFINE x == [n |-> ((m + 1) - 1) * c.n + datum * c.d, d |-> (m + 1) * c.d]
           r == Moved(c, m + 1, datum)
           p == c.n
           q == c.d
           rn == r.n
           rd == r.d
<1>1. p \in Int /\ q \in Nat \ {0} /\ datum \in Int
    BY DEF Fraction
<1>2. m * p = s * q /\ lo * q <= p /\ p <= hi * q
    BY DEF Between
<1>3. x \in Fraction /\ x.n = m * p + datum * q /\ x.d = (m + 1) * q
  <2>1. m * p \in Int /\ datum * q \in Int /\ (m + 1) * q \in Int /\ (m + 1) - 1 = m
      BY <1>1
  <2>2. (m + 1) * q > 0
      BY <1>1
  <2> QED
      BY <2>1, <2>2 DEF Fraction
<1>4. r = Reduced(x)
    BY DEF Moved
<1>5. /\ r \in Fraction
      /\ \E g \in Nat \ {0} : x.n = g * rn /\ x.d = g * rd
    BY <1>3, <1>4, ReducedFraction
<1>6. rn \in Int /\ rd \in Nat \ {0}
    BY <1>5 DEF Fraction
<1>7. PICK g \in Nat \ {0} : m * p + datum * q = g * rn /\ (m + 1) * q = g * rd
    BY <1>3, <1>5
<1> HIDE DEF x, r, p, q, rn, rd
<1>8. (m + 1) * rn = (s + datum) * rd
  <2>1. g * rn = (s + datum) * q
    <3>1. (s + datum) * q = s * q + datum * q
        BY <1>1
    <3> QED
        BY <1>2, <1>7, <3>1
  <2>2. g * ((m + 1) * rn) = (m + 1) * (g * rn)
      BY <1>6
  <2>3. (m + 1) * ((s + datum) * q) = (s + datum) * ((m + 1) * q)
      BY <1>1
  <2>4. (s + datum) * (g * rd) = g * ((s + datum) * rd)
      BY <1>1, <1>6
  <2>5. g * ((m + 1) * rn) = g * ((s + datum) * rd)
      BY <1>7, <2>1, <2>2, <2>3, <2>4
  <2>6. (m + 1) * rn \in Int /\ (s + datum) * rd \in Int
      BY <1>1, <1>6
  <2> QED
      BY <2>5, <2>6, Cancel
<1>9. lo * rd <= rn
  <2>1. m * (lo * q) <= m * p
      BY <1>1, <1>2, Multiply
  <2>2. lo * q <= datum * q
      BY <1>1
  <2>3. g * (lo * rd) = m * (lo * q) + lo * q
    <3>1. g * (lo * rd) = lo * (g * rd)
        BY <1>6
    <3>2. lo * ((m + 1) * q) = m * (lo * q) + lo * q
        BY <1>1
    <3> QED
        BY <1>7, <3>1, <3>2
  <2>4. lo * q \in Int /\ m * (lo * q) \in Int /\ m * p \in Int /\ datum * q \in Int
      BY <1>1
  <2>5. g * (lo * rd) <= g * rn
      BY <1>7, <2>1, <2>2, <2>3, <2>4
  <2>6. lo * rd \in Int
      BY <1>6
  <2> QED
      BY <1>6, <2>5, <2>6, Cancel
<1>10. rn <= hi * rd
  <2>1. m * p <= m * (hi * q)
      BY <1>1, <1>2, Multiply
  <2>2. datum * q <= hi * q
      BY <1>1
  <2>3. g * (hi * rd) = m * (hi * q) + hi * q
    <3>1. g * (hi * rd) = hi * (g * rd)
        BY <1>6
    <3>2. hi * ((m + 1) * q) = m * (hi * q) + hi * q
        BY <1>1
    <3> QED
        BY <1>7, <3>1, <3>2
  <2>4. hi * q \in Int /\ m * (hi * q) \in Int /\ m * p \in Int /\ datum * q \in Int
      BY <1>1
  <2>5. g * rn <= g * (hi * rd)
      BY <1>7, <2>1, <2>2, <2>3, <2>4
  <2>6. hi * rd \in Int
      BY <1>6
  <2> QED
      BY <1>6, <2>5, <2>6, Cancel
<1> QED
    BY <1>5, <1>8, <1>9, <1>10 DEF r, rn, rd, Between

(* Moving a centre yields a fraction.                                      *)
LEMMA MovedFraction ==
    ASSUME NEW c \in Fraction, NEW m \in Nat, NEW datum \in Int
    PROVE  Moved(c, m + 1, datum) \in Fraction
<1> DEFINE x == [n |-> ((m + 1) - 1) * c.n + datum * c.d, d |-> (m + 1) * c.d]
<1>1. c.n \in Int /\ c.d \in Nat \ {0}
    BY DEF Fraction
<1>2. ((m + 1) - 1) * c.n + datum * c.d \in Int /\ (m + 1) * c.d \in Nat \ {0}
    BY <1>1
<1>3. x \in Fraction
    BY <1>2 DEF Fraction
<1> QED
    BY <1>3, ReducedFraction DEF Moved

-----------------------------------------------------------------------------
(* The state of the loops, whose centres are means between lo and hi of    *)
(* data whose sums are in S; those of none are among the seeds W.          *)
Weighed(km, S, lo, hi, W) ==
    /\ km \in [num_members : [Idx -> Nat], centers : [Idx -> Fraction]]
    /\ S \in [Idx -> Int]
    /\ \A i \in Idx :
          /\ km.num_members[i] * km.centers[i].n = S[i] * km.centers[i].d
          /\ Between(km.centers[i], lo, hi)
          /\ km.num_members[i] = 0 => km.centers[i] \in W

Accounted(km, count, sum, lo, hi, W) ==
    \E S : /\ Weighed(km, S, lo, hi, W)
           /\ SumFunctionOnSet(km.num_members, Idx) = count
           /\ SumFunctionOnSet(S, Idx) = sum

Configured == config \in Configs

(* What the configuration is.                                              *)
LEMMA ConfigType ==
    ASSUME Configured
    PROVE  /\ config.num_centers \in Nat \ {0} /\ config.min_batch_size \in Nat \ {0}
           /\ config.num_iters \in Nat \ {0} /\ config.always_fill_batch \in BOOLEAN
           /\ config.num_centers <= config.min_batch_size
           /\ IsFiniteSet(Idx) /\ Idx = 1..config.num_centers
<1>1. /\ config.num_centers \in Nat \ {0} /\ config.min_batch_size \in Nat \ {0}
      /\ config.num_iters \in Nat \ {0} /\ config.always_fill_batch \in BOOLEAN
      /\ config.num_centers <= config.min_batch_size
    BY StreamingKMeansAssumption DEF Configured
<1>2. IsFiniteSet(1..config.num_centers)
  <2>1. 1 \in Int /\ config.num_centers \in Int
      BY <1>1
  <2> QED
      BY <2>1, FS_Interval
<1> QED
    BY <1>1, <1>2 DEF Idx

(* There is a nearest centre.                                              *)
LEMMA NearestCentre ==
    ASSUME Configured, NEW km, \A i \in Idx : km.centers[i] \in Fraction, NEW datum \in Int
    PROVE  Nearest(km, datum) \in Idx
<1> DEFINE n == config.num_centers
           f == [i \in Idx |-> Distance(km, i, datum)]
           near == {i \in Idx : \A j \in Idx : Leq(Distance(km, i, datum), Distance(km, j, datum))}
<1>1. n \in Nat \ {0} /\ Idx = 1..n
    BY ConfigType
<1>2. ASSUME NEW i \in 1..n PROVE f[i] \in Fraction
  <2> DEFINE c == km.centers[i]
  <2>1. c.n \in Int /\ c.d \in Nat \ {0}
      BY <1>1 DEF Fraction
  <2>2. f[i] = [n |-> IF datum * c.d - c.n * 1 < 0 THEN -(datum * c.d - c.n * 1)
                      ELSE datum * c.d - c.n * 1, d |-> 1 * c.d]
      BY <1>1 DEF Distance, Abs, Minus, Whole
  <2>3. datum * c.d - c.n * 1 \in Int /\ 1 * c.d \in Nat \ {0}
      BY <2>1
  <2> HIDE DEF f, c
  <2> QED
      BY <2>2, <2>3 DEF Fraction
<1>3. \E i \in 1..n : \A j \in 1..n : Leq(f[i], f[j])
  <2> HIDE DEF f, n
  <2> QED
      BY <1>1, <1>2, LeastFraction
<1>4. near # {}
    BY <1>1, <1>3
<1>5. near \subseteq 1..n /\ 1 \in Int /\ n \in Int
    BY <1>1
<1>6. Nearest(km, datum) = Min(near)
    BY DEF Nearest
<1> HIDE DEF near
<1>7. Min(near) \in near
    BY <1>4, <1>5, MinAndMax, Zenon
<1> QED
    BY <1>1, <1>5, <1>6, <1>7

(* One datum is added to the members of one centre, and to their sum.      *)
LEMMA AttractedAccounts ==
    ASSUME Configured, NEW km, NEW count \in Int, NEW sum \in Int,
           NEW lo \in Int, NEW hi \in Int, NEW W,
           Accounted(km, count, sum, lo, hi, W), NEW datum \in lo..hi
    PROVE  Accounted(Attracted(km, datum), count + 1, sum + datum, lo, hi, W)
<1>1. PICK S : /\ Weighed(km, S, lo, hi, W)
               /\ SumFunctionOnSet(km.num_members, Idx) = count
               /\ SumFunctionOnSet(S, Idx) = sum
    BY DEF Accounted
<1> DEFINE i == Nearest(km, datum)
           weight == km.num_members[i] + 1
           r == Moved(km.centers[i], weight, datum)
           members == [km.num_members EXCEPT ![i] = weight]
           centres == [km.centers EXCEPT ![i] = r]
           T == [S EXCEPT ![i] = S[i] + datum]
<1>2. /\ km.num_members \in [Idx -> Nat] /\ km.centers \in [Idx -> Fraction] /\ S \in [Idx -> Int]
      /\ datum \in Int
    BY <1>1 DEF Weighed
<1>3. i \in Idx
    BY <1>2, NearestCentre
<1>4. Attracted(km, datum) = [num_members |-> members, centers |-> centres]
    BY DEF Attracted
<1> HIDE DEF i
<1>5. /\ km.centers[i] \in Fraction /\ km.num_members[i] \in Nat /\ S[i] \in Int
      /\ km.num_members[i] * km.centers[i].n = S[i] * km.centers[i].d
      /\ Between(km.centers[i], lo, hi)
    BY <1>1, <1>2, <1>3 DEF Weighed
<1>6. r \in Fraction /\ weight * r.n = (S[i] + datum) * r.d /\ Between(r, lo, hi)
    BY <1>5, MovedMean
<1> HIDE DEF r
<1>7. /\ members \in [Idx -> Nat] /\ centres \in [Idx -> Fraction] /\ T \in [Idx -> Int]
      /\ members[i] = weight /\ centres[i] = r /\ T[i] = S[i] + datum /\ weight # 0
      /\ \A j \in Idx \ {i} : members[j] = km.num_members[j] /\ centres[j] = km.centers[j] /\ T[j] = S[j]
    BY <1>2, <1>3, <1>5, <1>6
<1> HIDE DEF members, centres, T, weight
<1>8. ASSUME NEW j \in Idx
      PROVE  /\ members[j] * centres[j].n = T[j] * centres[j].d
             /\ Between(centres[j], lo, hi)
             /\ members[j] = 0 => centres[j] \in W
  <2>1. CASE j = i
      BY <1>6, <1>7, <2>1
  <2>2. CASE j # i
      BY <1>1, <1>7, <2>2 DEF Weighed
  <2> QED
      BY <2>1, <2>2
<1>9. Weighed(Attracted(km, datum), T, lo, hi, W)
    BY <1>4, <1>7, <1>8 DEF Weighed
<1>10. SumFunctionOnSet(members, Idx) = count + 1
  <2>1. SumFunctionOnSet(members, Idx) = count - km.num_members[i] + members[i]
    <3>1. \A j \in Idx : km.num_members[j] \in Int /\ members[j] \in Int
        BY <1>2, <1>7
    <3>2. \A j \in Idx \ {i} : members[j] = km.num_members[j]
        BY <1>7
    <3>3. IsFiniteSet(Idx)
        BY ConfigType
    <3>4. SumFunctionOnSet(members, Idx) = SumFunctionOnSet(km.num_members, Idx) - km.num_members[i] + members[i]
        BY <1>3, <3>1, <3>2, <3>3, SumOfChanged
    <3> QED
        BY <1>1, <3>4
  <2> QED
      BY <1>5, <1>7, <2>1 DEF weight
<1>11. SumFunctionOnSet(T, Idx) = sum + datum
  <2>1. SumFunctionOnSet(T, Idx) = sum - S[i] + T[i]
    <3>1. \A j \in Idx : S[j] \in Int /\ T[j] \in Int
        BY <1>2, <1>7
    <3>2. \A j \in Idx \ {i} : T[j] = S[j]
        BY <1>7
    <3>3. IsFiniteSet(Idx)
        BY ConfigType
    <3>4. SumFunctionOnSet(T, Idx) = SumFunctionOnSet(S, Idx) - S[i] + T[i]
        BY <1>3, <3>1, <3>2, <3>3, SumOfChanged
    <3> QED
        BY <1>1, <3>4
  <2> QED
      BY <1>2, <1>5, <1>7, <2>1
<1> QED
    BY <1>4, <1>9, <1>10, <1>11 DEF Accounted

(* One iteration adds every datum once.                                    *)
LEMMA IterationAccounts ==
    ASSUME Configured, NEW km, NEW count \in Int, NEW sum \in Int,
           NEW lo \in Int, NEW hi \in Int, NEW W,
           Accounted(km, count, sum, lo, hi, W),
           NEW data, IsSequence(data), \A k \in 1..Len(data) : data[k] \in lo..hi
    PROVE  Accounted(Iteration(km, data), count + Len(data), sum + SumFunction(data), lo, hi, W)
<1> DEFINE n == Len(data)
           V == [num_members : [Idx -> Nat], centers : [Idx -> Fraction]]
           step == [q \in V \X (1..n) |-> Attracted(q[1], data[q[2]])]
           P(h) == h = [s \in SUBSET (1..n) |->
                          IF s = {} THEN km ELSE Attracted(h[s \ {Max(s)}], data[Max(s)])]
           h == CHOOSE h : P(h)
<1>1. n \in Nat /\ DOMAIN data = 1..n /\ \A k \in 1..n : data[k] \in Int
    BY SequenceLen
<1>2. step \in [V \X (1..n) -> V]
  <2>1. ASSUME NEW v \in V, NEW k \in 1..n PROVE Attracted(v, data[k]) \in V
    <3> DEFINE i == Nearest(v, data[k])
               r == Moved(v.centers[i], v.num_members[i] + 1, data[k])
    <3>1. v.num_members \in [Idx -> Nat] /\ v.centers \in [Idx -> Fraction] /\ data[k] \in Int
        BY <1>1
    <3>2. i \in Idx
        BY <3>1, NearestCentre
    <3>3. r \in Fraction
      <4>1. v.centers[i] \in Fraction /\ v.num_members[i] \in Nat
          BY <3>1, <3>2
      <4> HIDE DEF i
      <4> QED
          BY <3>1, <4>1, MovedFraction
    <3>4. Attracted(v, data[k]) = [num_members |-> [v.num_members EXCEPT ![i] = v.num_members[i] + 1],
                                   centers     |-> [v.centers EXCEPT ![i] = r]]
        BY DEF Attracted
    <3> HIDE DEF i, r
    <3>5. /\ [v.num_members EXCEPT ![i] = v.num_members[i] + 1] \in [Idx -> Nat]
          /\ [v.centers EXCEPT ![i] = r] \in [Idx -> Fraction]
        BY <3>1, <3>2, <3>3
    <3> QED
        BY <3>4, <3>5
  <2> HIDE DEF V
  <2> QED
      BY <2>1
<1>3. km \in V
    BY DEF Accounted, Weighed
<1>4. PICK g \in [SUBSET (1..n) -> V] : Folds(g, km, step, n)
  <2> HIDE DEF step, n, V
  <2> QED
      BY <1>1, <1>2, <1>3, FoldExists
<1>5. P(g)
  <2>1. ASSUME NEW s \in SUBSET (1..n), s # {}
        PROVE  step[<<g[s \ {Max(s)}], Max(s)>>] = Attracted(g[s \ {Max(s)}], data[Max(s)])
    <3>1. Max(s) \in 1..n /\ s \ {Max(s)} \in SUBSET (1..n)
        BY <1>1, <2>1, Greatest
    <3> HIDE DEF V
    <3> QED
        BY <1>4, <3>1
  <2> HIDE DEF step
  <2> QED
      BY <1>4, <2>1 DEF Folds
<1>6. Iteration(km, data) = h[1..n]
    BY <1>1, Zenon DEF Iteration, FoldLeft, MapThenFoldSet
<1>7. P(h)
    BY <1>5, Zenon
<1> HIDE DEF h, n, V, step
<1> DEFINE e == [s \in SUBSET (1..n) |-> Attracted(h[s \ {Max(s)}], data[Max(s)])]
<1>8. FoldsBy(h, km, e, n)
    BY <1>7 DEF FoldsBy
<1>9. \A k \in 1..n : e[1..k] = Attracted(h[1..(k - 1)], data[k])
    BY <1>1, Prefix
<1> HIDE DEF e, P
<1>10. h[1..0] = km /\ \A k \in 1..n : h[1..k] = e[1..k]
    BY <1>1, <1>8, FoldPrefixes
<1> DEFINE Sum(k) == SumFunctionOnSet(data, 1..k)
           Done(k) == Accounted(h[1..k], count + k, sum + Sum(k), lo, hi, W)
           T == {k \in Nat : k <= n => Done(k)}
<1>11. /\ Sum(0) = 0 /\ \A k \in 0..n : Sum(k) \in Int
       /\ \A k \in 1..n : Sum(k) = Sum(k - 1) + data[k]
    BY <1>1, SumOfPrefixes
<1>12. Done(0)
  <2>1. count + 0 = count /\ sum + Sum(0) = sum
      BY <1>11
  <2> QED
      BY <1>10, <2>1
<1>13. ASSUME NEW k \in Nat, k \in T PROVE k + 1 \in T
  <2>1. CASE ~ (k + 1 <= n)
      BY <2>1
  <2>2. CASE k + 1 <= n
    <3>0. Done(k)
      <4> HIDE DEF Done
      <4> QED
          BY <1>1, <1>13, <2>2
    <3>1. k + 1 \in 1..n /\ k \in 0..n /\ (k + 1) - 1 = k /\ Done(k)
        BY <1>1, <2>2, <3>0
    <3>2. h[1..(k + 1)] = Attracted(h[1..k], data[k + 1]) /\ data[k + 1] \in lo..hi
        BY <1>9, <1>10, <3>1 DEF n
    <3>3. count + k \in Int /\ sum + Sum(k) \in Int
        BY <1>11, <3>1
    <3>4. Accounted(h[1..(k + 1)], (count + k) + 1, (sum + Sum(k)) + data[k + 1], lo, hi, W)
      <4> HIDE DEF Sum
      <4> QED
          BY <3>1, <3>2, <3>3, AttractedAccounts
    <3>5. (count + k) + 1 = count + (k + 1)
        OBVIOUS
    <3>6. (sum + Sum(k)) + data[k + 1] = sum + Sum(k + 1)
      <4> HIDE DEF Sum
      <4> QED
          BY <1>1, <1>11, <3>1
    <3>7. Done(k + 1)
        BY <3>4, <3>5, <3>6
    <3> HIDE DEF Done
    <3> QED
        BY <3>7
  <2> QED
      BY <2>1, <2>2
<1> HIDE DEF Done
<1>14. 0 \in T
    BY <1>12
<1> HIDE DEF T
<1>15. n \in T
    BY <1>1, <1>13, <1>14, Induction
<1>16. Done(n)
    BY <1>1, <1>15 DEF T
<1> QED
    BY <1>1, <1>6, <1>16 DEF Done, SumFunction, n

(* All iterations over the data.                                           *)
LEMMA IteratedAccounts ==
    ASSUME Configured, NEW km, NEW count \in Int, NEW sum \in Int,
           NEW lo \in Int, NEW hi \in Int, NEW W,
           Accounted(km, count, sum, lo, hi, W),
           NEW data, IsSequence(data), \A k \in 1..Len(data) : data[k] \in lo..hi
    PROVE  Accounted(Iterated(km, data), count + config.num_iters * Len(data),
                     sum + config.num_iters * SumFunction(data), lo, hi, W)
<1> DEFINE n == config.num_iters
           idx == [i \in 1..n |-> i]
           V == {v \in [num_members : [Idx -> Nat], centers : [Idx -> Fraction]] :
                    \E c, s \in Int : Accounted(v, c, s, lo, hi, W)}
           step == [q \in V \X (1..n) |-> Iteration(q[1], data)]
           P(h) == h = [s \in SUBSET (1..n) |->
                          IF s = {} THEN km ELSE Iteration(h[s \ {Max(s)}], data)]
           h == CHOOSE h : P(h)
<1>1. n \in Nat
    BY ConfigType
<1>2. Len(data) \in Nat /\ SumFunction(data) \in Int
  <2>1. \A k \in 1..Len(data) : data[k] \in Int
      OBVIOUS
  <2> QED
      BY <2>1, SequenceLen, LeftSum
<1>3. step \in [V \X (1..n) -> V]
  <2>1. ASSUME NEW v \in V PROVE Iteration(v, data) \in V
    <3>1. PICK c \in Int, s \in Int : Accounted(v, c, s, lo, hi, W)
        OBVIOUS
    <3>2. /\ Accounted(Iteration(v, data), c + Len(data), s + SumFunction(data), lo, hi, W)
          /\ c + Len(data) \in Int /\ s + SumFunction(data) \in Int
        BY <1>2, <3>1, IterationAccounts
    <3>3. Iteration(v, data) \in [num_members : [Idx -> Nat], centers : [Idx -> Fraction]]
        BY <3>2 DEF Accounted, Weighed
    <3> QED
        BY <3>2, <3>3
  <2> HIDE DEF V
  <2> QED
      BY <2>1
<1>4. km \in V
  <2>1. km \in [num_members : [Idx -> Nat], centers : [Idx -> Fraction]]
      BY DEF Accounted, Weighed
  <2> QED
      BY <2>1
<1>5. PICK g \in [SUBSET (1..n) -> V] : Folds(g, km, step, n)
  <2> HIDE DEF step, n, V
  <2> QED
      BY <1>1, <1>3, <1>4, FoldExists
<1>6. P(g)
  <2>1. ASSUME NEW s \in SUBSET (1..n), s # {}
        PROVE  step[<<g[s \ {Max(s)}], Max(s)>>] = Iteration(g[s \ {Max(s)}], data)
    <3>1. Max(s) \in 1..n /\ s \ {Max(s)} \in SUBSET (1..n)
        BY <1>1, <2>1, Greatest
    <3> HIDE DEF V
    <3> QED
        BY <1>5, <3>1
  <2> HIDE DEF step
  <2> QED
      BY <1>5, <2>1 DEF Folds
<1>7. Iterated(km, data) = h[1..n]
  <2>1. DOMAIN idx = 1..n
      OBVIOUS
  <2> QED
      BY <2>1, Zenon DEF Iterated, FoldLeft, MapThenFoldSet
<1>8. P(h)
    BY <1>6, Zenon
<1> HIDE DEF h, n, V, step
<1> DEFINE e == [s \in SUBSET (1..n) |-> Iteration(h[s \ {Max(s)}], data)]
<1>9. FoldsBy(h, km, e, n)
    BY <1>8 DEF FoldsBy
<1>10. \A k \in 1..n : e[1..k] = Iteration(h[1..(k - 1)], data)
    BY <1>1, Prefix
<1> HIDE DEF e, P
<1>11. h[1..0] = km /\ \A k \in 1..n : h[1..k] = e[1..k]
    BY <1>1, <1>9, FoldPrefixes
<1> DEFINE size == Len(data)
           total == SumFunction(data)
           Done(k) == Accounted(h[1..k], count + k * size, sum + k * total, lo, hi, W)
           T == {k \in Nat : k <= n => Done(k)}
<1>12. Done(0)
  <2>1. count + 0 * size = count /\ sum + 0 * total = sum
      BY <1>2
  <2> QED
      BY <1>11, <2>1
<1>13. ASSUME NEW k \in Nat, k \in T PROVE k + 1 \in T
  <2>1. CASE ~ (k + 1 <= n)
      BY <2>1
  <2>2. CASE k + 1 <= n
    <3>0. Done(k)
      <4> HIDE DEF Done
      <4> QED
          BY <1>1, <1>13, <2>2
    <3>1. k + 1 \in 1..n /\ (k + 1) - 1 = k
        BY <1>1, <2>2
    <3>2. h[1..(k + 1)] = Iteration(h[1..k], data)
        BY <1>10, <1>11, <3>1
    <3>3. count + k * size \in Int /\ sum + k * total \in Int
        BY <1>2
    <3>4. Accounted(h[1..(k + 1)], (count + k * size) + size, (sum + k * total) + total, lo, hi, W)
        BY <3>0, <3>2, <3>3, IterationAccounts
    <3>5. /\ (count + k * size) + size = count + (k + 1) * size
          /\ (sum + k * total) + total = sum + (k + 1) * total
        BY <1>2
    <3>6. Done(k + 1)
        BY <3>4, <3>5
    <3> HIDE DEF Done
    <3> QED
        BY <3>6
  <2> QED
      BY <2>1, <2>2
<1> HIDE DEF Done
<1>14. 0 \in T
    BY <1>12
<1> HIDE DEF T
<1>15. n \in T
    BY <1>1, <1>13, <1>14, Induction
<1>16. Done(n)
    BY <1>1, <1>15 DEF T
<1> QED
    BY <1>7, <1>16 DEF Done, n

-----------------------------------------------------------------------------
(* The least and the greatest element of a sequence of integers.           *)
LEMMA RangeOf ==
    ASSUME NEW s \in Seq(Int), Len(s) > 0
    PROVE  /\ Min(ToSet(s)) \in ToSet(s) /\ Max(ToSet(s)) \in ToSet(s)
           /\ \A i \in 1..Len(s) : s[i] \in ToSet(s) /\ s[i] \in Min(ToSet(s))..Max(ToSet(s))
           /\ ToSet(s) \subseteq Int
<1> DEFINE n == Len(s)
           f == [i \in 1..n |-> Whole(s[i])]
           g == [i \in 1..n |-> Whole(-s[i])]
<1>1. n \in Nat \ {0} /\ DOMAIN s = 1..n /\ \A i \in 1..n : s[i] \in Int
    OBVIOUS
<1>2. \A i \in 1..n : f[i] \in Fraction /\ g[i] \in Fraction
    BY <1>1 DEF Fraction, Whole
<1>3. \A i, j \in 1..n : Leq(f[i], f[j]) => s[i] <= s[j]
    BY <1>1 DEF Leq, Whole
<1>4. \A i, j \in 1..n : Leq(g[i], g[j]) => s[j] <= s[i]
    BY <1>1 DEF Leq, Whole
<1>5. ToSet(s) = {s[i] : i \in 1..n}
    BY <1>1 DEF ToSet
<1> HIDE DEF n, f, g
<1>6. \E i \in 1..n : \A j \in 1..n : s[i] <= s[j]
  <2>1. \E i \in 1..n : \A j \in 1..n : Leq(f[i], f[j])
      BY <1>1, <1>2, LeastFraction
  <2> QED
      BY <1>3, <2>1
<1>7. \E i \in 1..n : \A j \in 1..n : s[j] <= s[i]
  <2>1. \E i \in 1..n : \A j \in 1..n : Leq(g[i], g[j])
      BY <1>1, <1>2, LeastFraction
  <2> QED
      BY <1>4, <2>1
<1>8. \E x \in ToSet(s) : \A y \in ToSet(s) : x =< y
    BY <1>5, <1>6
<1>9. \E x \in ToSet(s) : \A y \in ToSet(s) : x >= y
    BY <1>1, <1>5, <1>7
<1>10. Min(ToSet(s)) \in ToSet(s) /\ \A y \in ToSet(s) : Min(ToSet(s)) <= y
    BY <1>8 DEF Min
<1>11. Max(ToSet(s)) \in ToSet(s) /\ \A y \in ToSet(s) : Max(ToSet(s)) >= y
    BY <1>9 DEF Max
<1>12. \A i \in 1..n : s[i] \in ToSet(s)
    BY <1>5
<1>13. ToSet(s) \subseteq Int
    BY <1>1, <1>5
<1>14. ASSUME NEW i \in 1..n PROVE s[i] \in Min(ToSet(s))..Max(ToSet(s))
  <2> DEFINE lo == Min(ToSet(s))
             hi == Max(ToSet(s))
  <2>1. lo \in Int /\ hi \in Int /\ s[i] \in Int /\ lo <= s[i] /\ hi >= s[i]
      BY <1>10, <1>11, <1>12, <1>13
  <2> HIDE DEF lo, hi
  <2>2. s[i] \in lo..hi
      BY <2>1
  <2> QED
      BY <2>2 DEF lo, hi
<1> QED
    BY <1>10, <1>11, <1>12, <1>13, <1>14 DEF n

(* What is accounted for is so between wider bounds.                       *)
LEMMA AccountedWidens ==
    ASSUME Configured, NEW km, NEW count, NEW sum,
           NEW lo \in Int, NEW hi \in Int, NEW W, Accounted(km, count, sum, lo, hi, W),
           NEW low \in Int, NEW high \in Int, NEW V, low <= lo, hi <= high, W \subseteq V
    PROVE  Accounted(km, count, sum, low, high, V)
<1>1. PICK S : /\ Weighed(km, S, lo, hi, W)
               /\ SumFunctionOnSet(km.num_members, Idx) = count
               /\ SumFunctionOnSet(S, Idx) = sum
    BY DEF Accounted
<1>2. ASSUME NEW i \in Idx PROVE Between(km.centers[i], low, high)
  <2> DEFINE c == km.centers[i]
             p == c.n
             q == c.d
  <2>1. c \in Fraction /\ Between(c, lo, hi)
      BY <1>1 DEF Weighed
  <2>2. p \in Int /\ q \in Nat \ {0} /\ lo * q <= p /\ p <= hi * q
      BY <2>1 DEF Fraction, Between
  <2> HIDE DEF p, q
  <2>3. low * q <= lo * q /\ hi * q <= high * q
      BY <2>2
  <2>4. low * q \in Int /\ lo * q \in Int /\ hi * q \in Int /\ high * q \in Int
      BY <2>2
  <2>5. low * q <= p /\ p <= high * q
      BY <2>2, <2>3, <2>4
  <2> QED
      BY <2>5 DEF Between, p, q
<1>3. Weighed(km, S, low, high, V)
    BY <1>1, <1>2 DEF Weighed
<1> QED
    BY <1>1, <1>3 DEF Accounted

(* The first update starts at data, the later ones where the last stopped. *)
LEMMA SeedsAreData ==
    ASSUME Configured, NEW data \in Seq(Int), config.min_batch_size <= Len(data)
    PROVE  Accounted([num_members |-> [i \in Idx |-> 0], centers |-> Seeds(data)], 0, 0,
                     Min(ToSet(data)), Max(ToSet(data)), {Whole(d) : d \in ToSet(data)})
<1> DEFINE lo == Min(ToSet(data))
           hi == Max(ToSet(data))
           W == {Whole(d) : d \in ToSet(data)}
           none == [i \in Idx |-> 0]
           seeds == Seeds(data)
<1>1. /\ config.num_centers \in Nat \ {0} /\ config.min_batch_size \in Nat \ {0}
      /\ config.num_iters \in Nat \ {0} /\ config.num_centers <= config.min_batch_size
      /\ IsFiniteSet(Idx) /\ Idx = 1..config.num_centers
    BY ConfigType
<1>2. /\ Len(data) \in Nat /\ Len(data) > 0
      /\ \A i \in 1..Len(data) : data[i] \in ToSet(data) /\ data[i] \in lo..hi
      /\ lo \in Int /\ hi \in Int /\ ToSet(data) \subseteq Int
  <2>1. Len(data) \in Nat /\ Len(data) > 0
      BY <1>1
  <2>2. /\ lo \in ToSet(data) /\ hi \in ToSet(data) /\ ToSet(data) \subseteq Int
        /\ \A i \in 1..Len(data) : data[i] \in ToSet(data) /\ data[i] \in lo..hi
      BY <2>1, RangeOf
  <2> QED
      BY <2>1, <2>2
<1> HIDE DEF lo, hi
<1>3. ASSUME NEW i \in Idx
      PROVE  \E d \in ToSet(data) : seeds[i] = Whole(d) /\ d \in lo..hi
  <2> DEFINE k == config.num_iters * config.min_batch_size * i
             c == config.num_centers
             at == k % c
  <2>1. k \in Int
      BY <1>1
  <2>2. seeds[i] = Whole(data[at + 1])
      BY DEF Seeds
  <2> HIDE DEF k
  <2>3. at \in 0..(c - 1)
      BY <1>1, <2>1
  <2>4. at + 1 \in 1..Len(data)
      BY <1>1, <2>3
  <2> HIDE DEF at
  <2> QED
      BY <1>2, <2>2, <2>4
<1>4. seeds = [i \in Idx |-> seeds[i]]
    BY DEF Seeds
<1> HIDE DEF seeds
<1>5. ASSUME NEW i \in Idx
      PROVE  seeds[i] \in Fraction /\ Between(seeds[i], lo, hi) /\ seeds[i] \in W
  <2>1. PICK d \in ToSet(data) : seeds[i] = Whole(d) /\ d \in lo..hi
      BY <1>3
  <2>2. d \in Int /\ lo * 1 <= d /\ d <= hi * 1
      BY <1>2, <2>1
  <2> QED
      BY <2>1, <2>2 DEF Whole, Fraction, Between
<1> HIDE DEF W
<1>6. ASSUME NEW i \in Idx PROVE none[i] * seeds[i].n = none[i] * seeds[i].d
  <2>1. seeds[i].n \in Int /\ seeds[i].d \in Int /\ none[i] = 0
      BY <1>5 DEF Fraction
  <2> QED
      BY <2>1
<1>7. seeds \in [Idx -> Fraction] /\ none \in [Idx -> Nat] /\ none \in [Idx -> Int]
    BY <1>4, <1>5
<1>8. SumFunctionOnSet(none, Idx) = 0
    BY <1>1, SumOfZeros
<1> HIDE DEF none
<1> DEFINE km == [num_members |-> none, centers |-> seeds]
<1>9. Weighed(km, none, lo, hi, W)
    BY <1>5, <1>6, <1>7 DEF Weighed
<1>10. Accounted(km, 0, 0, lo, hi, W)
    BY <1>8, <1>9 DEF Accounted
<1> QED
    BY <1>10 DEF lo, hi, W, none, seeds

-----------------------------------------------------------------------------
(* The state between two calls: the data of the updates are accounted for. *)
KMeansInv ==
    /\ KMeansTypeOK
    /\ fed \in [count : Nat, sum : Int]
    /\ IF first_run
       THEN /\ Len(batch) < config.min_batch_size
            /\ num_members = [i \in Idx |-> 0] /\ fed = [count |-> 0, sum |-> 0]
       ELSE /\ Len(batch) >= config.min_batch_size
            /\ Accounted([num_members |-> num_members, centers |-> centers], fed.count, fed.sum,
                         Min(ToSet(batch)), Max(ToSet(batch)), {Whole(d) : d \in ToSet(batch)})

(* Before the first datum there is nothing to account for.                 *)
LEMMA KMeansInitInv == KMeansInit => KMeansInv
<1> SUFFICES ASSUME KMeansInit PROVE KMeansInv
    OBVIOUS
<1>1. Configured
    BY DEF KMeansInit, Configured
<1>2. config.min_batch_size \in Nat \ {0}
    BY <1>1, ConfigType
<1>3. num_members \in [Idx -> Nat] /\ centers \in [Idx -> Fraction]
    BY DEF KMeansInit, Whole, Fraction
<1>4. batch \in Seq(Int) /\ Len(batch) = 0
    BY DEF KMeansInit
<1> QED
    BY <1>2, <1>3, <1>4, StreamingKMeansAssumption DEF KMeansInit, KMeansInv, KMeansTypeOK

(* reset() forgets everything.                                             *)
LEMMA ResetInv ==
    ASSUME KMeansInv, NEW c \in Configs, Reset(c)
    PROVE  KMeansInv'
<1>1. c.num_centers \in Nat \ {0} /\ c.min_batch_size \in Nat \ {0}
    BY StreamingKMeansAssumption
<1>2. /\ config' = c /\ num_members' = [i \in 1..c.num_centers |-> 0]
      /\ centers' = [i \in 1..c.num_centers |-> Whole(0)]
      /\ batch' = <<>> /\ first_run' = TRUE /\ fed' = [count |-> 0, sum |-> 0]
    BY DEF Reset, Cleared
<1>3. Idx' = 1..c.num_centers
    BY <1>2 DEF Idx
<1>4. num_members' \in [Idx' -> Nat] /\ centers' \in [Idx' -> Fraction]
      /\ num_members' = [i \in Idx' |-> 0]
    BY <1>2, <1>3 DEF Whole, Fraction
<1>5. batch' \in Seq(Int) /\ Len(batch') = 0
    BY <1>2
<1>6. resets' \in 0..MaxResets
    BY StreamingKMeansAssumption DEF KMeansInv, KMeansTypeOK, Reset
<1>7. KMeansTypeOK'
    BY <1>2, <1>4, <1>5, <1>6, StreamingKMeansAssumption DEF KMeansTypeOK
<1>8. Len(batch') < config'.min_batch_size
    BY <1>1, <1>2, <1>5
<1> QED
    BY <1>2, <1>4, <1>7, <1>8 DEF KMeansInv

(* add_data(), which updates the centres when there are enough data.       *)
LEMMA AddDataInv ==
    ASSUME KMeansInv, NEW list \in Lists, AddData(list)
    PROVE  KMeansInv'
<1> DEFINE data == batch \o list
           lo == Min(ToSet(data))
           hi == Max(ToSet(data))
           W == {Whole(d) : d \in ToSet(data)}
           size == config.min_batch_size
           start == [num_members |-> num_members,
                     centers     |-> IF first_run THEN Seeds(data) ELSE centers]
           end == Iterated(start, data)
<1>1. Configured
    BY DEF KMeansInv, KMeansTypeOK, Configured
<1>2. /\ config.min_batch_size \in Nat \ {0} /\ config.num_iters \in Nat \ {0}
      /\ config.always_fill_batch \in BOOLEAN
    BY <1>1, ConfigType
<1>3. /\ batch' = data /\ config' = config /\ resets' = resets /\ Idx' = Idx
      /\ Len(batch) + Len(list) <= MaxBatch
    BY DEF AddData, Idx
<1>4. batch \in Seq(Int) /\ list \in Seq(Int)
    BY StreamingKMeansAssumption DEF KMeansInv, KMeansTypeOK
<1>5. /\ data \in Seq(Int) /\ Len(data) = Len(batch) + Len(list)
      /\ Len(batch) \in Nat /\ Len(list) \in Nat
      /\ \A i \in 1..Len(batch) : data[i] = batch[i]
    BY <1>4
<1>6. /\ fed \in [count : Nat, sum : Int] /\ config \in Configs
      /\ first_run \in BOOLEAN /\ resets \in 0..MaxResets
      /\ num_members \in [Idx -> Nat] /\ centers \in [Idx -> Fraction]
    BY DEF KMeansInv, KMeansTypeOK
<1>7. CASE Waits(data)
  <2>1. UNCHANGED <<num_members, centers, first_run, fed>>
      BY <1>3, <1>7 DEF AddData
  <2>2. Len(data) < size
      BY <1>2, <1>5, <1>7 DEF Waits
  <2>3. first_run
    <3>1. CASE ~ first_run
      <4>1. Len(batch) >= size
          BY <3>1 DEF KMeansInv
      <4> QED
          BY <1>2, <1>5, <2>2, <4>1
    <3> QED
        BY <3>1
  <2>4. KMeansTypeOK'
      BY <1>3, <1>5, <1>6, <2>1 DEF KMeansTypeOK
  <2> QED
      BY <1>3, <1>6, <2>1, <2>2, <2>3, <2>4 DEF KMeansInv
<1>8. CASE ~ Waits(data)
  <2>1. /\ num_members' = end.num_members /\ centers' = end.centers /\ first_run' = FALSE
        /\ fed' = [count |-> fed.count + config.num_iters * Len(data),
                   sum   |-> fed.sum + config.num_iters * SumFunction(data)]
      BY <1>3, <1>8 DEF AddData, Update
  <2>2. Len(data) >= size
    <3>1. CASE first_run
        BY <1>2, <1>5, <1>8, <3>1 DEF Waits
    <3>2. CASE ~ first_run
      <4>1. Len(batch) >= size
          BY <3>2 DEF KMeansInv
      <4> QED
          BY <1>2, <1>5, <4>1
    <3> QED
        BY <3>1, <3>2
  <2>3. /\ lo \in Int /\ hi \in Int /\ ToSet(data) \subseteq Int
        /\ lo \in ToSet(data) /\ hi \in ToSet(data)
        /\ \A i \in 1..Len(data) : data[i] \in ToSet(data) /\ data[i] \in lo..hi
    <3>1. Len(data) > 0
        BY <1>2, <1>5, <2>2
    <3> HIDE DEF data
    <3>2. /\ lo \in ToSet(data) /\ hi \in ToSet(data) /\ ToSet(data) \subseteq Int
          /\ \A i \in 1..Len(data) : data[i] \in ToSet(data) /\ data[i] \in lo..hi
        BY <1>5, <3>1, RangeOf
    <3> QED
        BY <3>2
  <2>4. Accounted(start, fed.count, fed.sum, lo, hi, W)
    <3>1. CASE first_run
      <4>1. start = [num_members |-> [i \in Idx |-> 0], centers |-> Seeds(data)]
            /\ fed.count = 0 /\ fed.sum = 0
          BY <3>1 DEF KMeansInv
      <4>2. Accounted([num_members |-> [i \in Idx |-> 0], centers |-> Seeds(data)], 0, 0, lo, hi, W)
        <5> HIDE DEF data
        <5> QED
            BY <1>1, <1>5, <2>2, SeedsAreData
      <4> HIDE DEF start, lo, hi, W
      <4> QED
          BY <4>1, <4>2
    <3>2. CASE ~ first_run
      <4> DEFINE low == Min(ToSet(batch))
                 high == Max(ToSet(batch))
                 V == {Whole(d) : d \in ToSet(batch)}
      <4>1. start = [num_members |-> num_members, centers |-> centers]
          BY <3>2
      <4>2. Accounted(start, fed.count, fed.sum, low, high, V) /\ Len(batch) >= size
          BY <3>2, <4>1 DEF KMeansInv
      <4>3. Len(batch) > 0
          BY <1>2, <1>5, <4>2
      <4>4. low \in ToSet(batch) /\ high \in ToSet(batch) /\ ToSet(batch) \subseteq Int
          BY <1>4, <4>3, RangeOf
      <4>5. \A x \in ToSet(batch) : x \in ToSet(data) /\ x \in lo..hi
        <5>1. ASSUME NEW x \in ToSet(batch) PROVE x \in ToSet(data) /\ x \in lo..hi
          <6>1. PICK i \in 1..Len(batch) : x = batch[i]
              BY <1>4 DEF ToSet
          <6>2. i \in 1..Len(data) /\ x = data[i]
              BY <1>5, <6>1
          <6> HIDE DEF data, lo, hi
          <6> QED
              BY <2>3, <6>2
        <5> QED
            BY <5>1
      <4>6. V \subseteq W
          BY <4>5
      <4>7. lo <= low /\ high <= hi /\ low \in Int /\ high \in Int
          BY <2>3, <4>4, <4>5
      <4> HIDE DEF low, high, V, lo, hi, W, start, data
      <4> QED
          BY <1>1, <2>3, <4>2, <4>6, <4>7, AccountedWidens
    <3> QED
        BY <3>1, <3>2
  <2> DEFINE count == fed.count + config.num_iters * Len(data)
             sum == fed.sum + config.num_iters * SumFunction(data)
  <2>5. Accounted(end, count, sum, lo, hi, W)
    <3>1. IsSequence(data)
        BY <1>5, SequenceOf
    <3>2. fed.count \in Int /\ fed.sum \in Int
        BY <1>6
    <3> HIDE DEF data, lo, hi, W, start
    <3> QED
        BY <1>1, <2>3, <2>4, <3>1, <3>2, IteratedAccounts
  <2>6. count \in Nat /\ sum \in Int
    <3>1. SumFunction(data) \in Int
      <4> HIDE DEF data
      <4>1. IsSequence(data) /\ \A i \in 1..Len(data) : data[i] \in Int
          BY <1>5, SequenceOf
      <4> QED
          BY <4>1, LeftSum
    <3> HIDE DEF data
    <3>2. config.num_iters * Len(data) \in Nat /\ config.num_iters * SumFunction(data) \in Int
        BY <1>2, <1>5, <3>1
    <3> QED
        BY <1>6, <3>2
  <2>7. end \in [num_members : [Idx -> Nat], centers : [Idx -> Fraction]]
    <3> HIDE DEF end, lo, hi, W
    <3> QED
        BY <2>5 DEF Accounted, Weighed
  <2>8. KMeansTypeOK'
    <3> HIDE DEF end, data
    <3> QED
        BY <1>3, <1>5, <1>6, <2>1, <2>7 DEF KMeansTypeOK
  <2>9. fed' \in [count : Nat, sum : Int] /\ fed'.count = count /\ fed'.sum = sum
    <3> HIDE DEF data
    <3> QED
        BY <2>1, <2>6
  <2>10. [num_members |-> num_members', centers |-> centers'] = end
    <3> HIDE DEF end
    <3> QED
        BY <2>1, <2>7
  <2>11. Accounted([num_members |-> num_members, centers |-> centers], fed.count, fed.sum,
                   Min(ToSet(batch)), Max(ToSet(batch)), {Whole(d) : d \in ToSet(batch)})'
    <3>1. PICK a : a = end
        OBVIOUS
    <3>2. PICK b : b = count
        OBVIOUS
    <3>3. PICK c : c = sum
        OBVIOUS
    <3>4. PICK u : u = lo
        OBVIOUS
    <3>5. PICK v : v = hi
        OBVIOUS
    <3>6. PICK X : X = W
        OBVIOUS
    <3>7. Accounted(a, b, c, u, v, X)
      <4> HIDE DEF end, count, sum, lo, hi, W
      <4> QED
          BY <2>5, <3>1, <3>2, <3>3, <3>4, <3>5, <3>6
    <3>8. Accounted(a, b, c, u, v, X)'
        BY <1>3, <3>7 DEF Accounted, Weighed
    <3>9. /\ [num_members |-> num_members', centers |-> centers'] = a /\ fed'.count = b /\ fed'.sum = c
          /\ Min(ToSet(batch')) = u /\ Max(ToSet(batch')) = v
          /\ {Whole(d) : d \in ToSet(batch')} = X
        BY <1>3, <2>9, <2>10, <3>1, <3>2, <3>3, <3>4, <3>5, <3>6
    <3> HIDE DEF end, count, sum, lo, hi, W, data
    <3> QED
        BY <3>8, <3>9
  <2> QED
      BY <1>2, <1>3, <1>5, <2>1, <2>2, <2>8, <2>9, <2>11 DEF KMeansInv
<1> QED
    BY <1>7, <1>8

(* Every step keeps what is accounted for.                                 *)
LEMMA KMeansInvStep ==
    ASSUME KMeansInv, [KMeansNext]_kmeansVars
    PROVE  KMeansInv'
<1>1. CASE \E c \in Configs : Reset(c)
    BY <1>1, ResetInv
<1>2. CASE \E list \in Lists : AddData(list)
    BY <1>2, AddDataInv
<1>3. CASE UNCHANGED kmeansVars
    BY <1>3 DEF kmeansVars, KMeansInv, KMeansTypeOK, Accounted, Weighed, Idx
<1> QED
    BY <1>1, <1>2, <1>3 DEF KMeansNext

(* Whatever is fed, in batches of whatever size, with resets and further   *)
(* data in between: the weights and centres of the clusters account for    *)
(* the data fed, once each, and every centre is in their range.            *)
THEOREM KMeansInvariant == KMeansSpec => []KMeansInv
BY KMeansInitInv, KMeansInvStep, PTL DEF KMeansSpec

(* A mean of m data times m is their sum.                                  *)
LEMMA Quotient ==
    ASSUME NEW s \in Int, NEW q \in Nat \ {0}
    PROVE  (s * q) % q = 0 /\ (s * q) \div q = s
OBVIOUS

(* What the invariant says of the centres is what the property asks.       *)
LEMMA CentresWeigh ==
    ASSUME KMeansInv
    PROVE  CentresWeighTheData
<1> DEFINE weight == [i \in Idx |-> (num_members[i] * centers[i].n) \div centers[i].d]
<1>1. /\ config.min_batch_size \in Nat \ {0} /\ IsFiniteSet(Idx)
    BY ConfigType DEF KMeansInv, KMeansTypeOK, Configured
<1>2. /\ num_members \in [Idx -> Nat] /\ centers \in [Idx -> Fraction]
      /\ batch \in Seq(Int) /\ Len(batch) \in Nat /\ first_run \in BOOLEAN
    BY DEF KMeansInv, KMeansTypeOK
<1>3. /\ SumFunction(num_members) = SumFunctionOnSet(num_members, Idx)
      /\ SumFunction(weight) = SumFunctionOnSet(weight, Idx)
    BY <1>2 DEF SumFunction
<1>4. first_run <=> Len(batch) < config.min_batch_size
  <2>1. first_run => Len(batch) < config.min_batch_size
      BY DEF KMeansInv
  <2>2. ~ first_run => Len(batch) >= config.min_batch_size
      BY DEF KMeansInv
  <2> QED
      BY <1>1, <1>2, <2>1, <2>2
<1>5. ASSUME NEW S \in [Idx -> Int],
             \A i \in Idx : num_members[i] * centers[i].n = S[i] * centers[i].d,
             SumFunctionOnSet(num_members, Idx) = fed.count, SumFunctionOnSet(S, Idx) = fed.sum
      PROVE  /\ SumFunction(num_members) = fed.count
             /\ \A i \in Idx : (num_members[i] * centers[i].n) % centers[i].d = 0
             /\ SumFunction(weight) = fed.sum
  <2>1. ASSUME NEW i \in Idx
        PROVE  weight[i] = S[i] /\ (num_members[i] * centers[i].n) % centers[i].d = 0
    <3>1. centers[i].d \in Nat \ {0} /\ S[i] \in Int
        BY <1>2 DEF Fraction
    <3>2. (S[i] * centers[i].d) % centers[i].d = 0 /\ (S[i] * centers[i].d) \div centers[i].d = S[i]
        BY <3>1, Quotient
    <3> QED
        BY <1>5, <3>2
  <2> HIDE DEF weight
  <2>2. SumFunctionOnSet(weight, Idx) = SumFunctionOnSet(S, Idx)
      BY <1>1, <2>1, SumOfSame
  <2> QED
      BY <1>3, <1>5, <2>1, <2>2
<1>6. CASE first_run
  <2>1. num_members = [i \in Idx |-> 0] /\ fed.count = 0 /\ fed.sum = 0
      BY <1>6 DEF KMeansInv
  <2>2. \A i \in Idx : num_members[i] * centers[i].n = num_members[i] * centers[i].d
    <3>1. ASSUME NEW i \in Idx PROVE num_members[i] * centers[i].n = num_members[i] * centers[i].d
      <4>1. centers[i].n \in Int /\ centers[i].d \in Int /\ num_members[i] = 0
          BY <1>2, <2>1 DEF Fraction
      <4> QED
          BY <4>1
    <3> QED
        BY <3>1
  <2>3. num_members \in [Idx -> Int]
      BY <1>2
  <2>4. SumFunctionOnSet(num_members, Idx) = 0
      BY <1>1, <2>1, SumOfZeros
  <2> QED
      BY <1>4, <1>5, <1>6, <2>1, <2>2, <2>3, <2>4 DEF CentresWeighTheData
<1>7. CASE ~ first_run
  <2> DEFINE lo == Min(ToSet(batch))
             hi == Max(ToSet(batch))
             W == {Whole(d) : d \in ToSet(batch)}
             km == [num_members |-> num_members, centers |-> centers]
  <2>1. Accounted(km, fed.count, fed.sum, lo, hi, W)
      BY <1>7 DEF KMeansInv
  <2>2. PICK S : /\ Weighed(km, S, lo, hi, W)
                 /\ SumFunctionOnSet(num_members, Idx) = fed.count
                 /\ SumFunctionOnSet(S, Idx) = fed.sum
      BY <2>1 DEF Accounted
  <2>3. /\ S \in [Idx -> Int]
        /\ \A i \in Idx : /\ num_members[i] * centers[i].n = S[i] * centers[i].d
                          /\ Between(centers[i], lo, hi)
                          /\ num_members[i] = 0 => centers[i] \in W
      BY <2>2 DEF Weighed
  <2>4. lo \in Int /\ hi \in Int
    <3>1. Len(batch) > 0
        BY <1>1, <1>2, <1>4, <1>7
    <3>2. lo \in ToSet(batch) /\ hi \in ToSet(batch) /\ ToSet(batch) \subseteq Int
        BY <1>2, <3>1, RangeOf
    <3> QED
        BY <3>2
  <2>5. ASSUME NEW i \in Idx
        PROVE  /\ Leq(Whole(lo), centers[i]) /\ Leq(centers[i], Whole(hi))
               /\ num_members[i] = 0 => \E datum \in ToSet(batch) : centers[i] = Whole(datum)
    <3>1. centers[i].n \in Int /\ centers[i].d \in Int
        BY <1>2 DEF Fraction
    <3>2. lo * centers[i].d <= centers[i].n /\ centers[i].n <= hi * centers[i].d
        BY <2>3 DEF Between
    <3>3. lo * centers[i].d <= centers[i].n * 1 /\ centers[i].n * 1 <= hi * centers[i].d
        BY <3>1, <3>2
    <3>4. Leq(Whole(lo), centers[i]) /\ Leq(centers[i], Whole(hi))
        BY <3>3 DEF Leq, Whole
    <3> QED
        BY <2>3, <3>4
  <2>6. /\ SumFunction(num_members) = fed.count
        /\ \A i \in Idx : (num_members[i] * centers[i].n) % centers[i].d = 0
        /\ SumFunction(weight) = fed.sum
      BY <1>5, <2>2, <2>3
  <2> QED
      BY <1>4, <2>5, <2>6 DEF CentresWeighTheData
<1> QED
    BY <1>2, <1>6, <1>7

(* The centres account for every datum of every update since reset(), and  *)
(* for nothing else, and stay within the range of the data.                *)
THEOREM DataAreWeighed == KMeansSpec => []CentresWeighTheData
BY KMeansInvariant, CentresWeigh, PTL

-----------------------------------------------------------------------------
(* Some order sorts.                                                       *)
Sorts(p, s, n) ==
    /\ p \in Bijection(1..n, 1..n)
    /\ \A i, j \in 1..n : i < j => s[p[i]] <= s[p[j]]

(* The rest without one of n + 1 numbers that is the greatest.             *)
WithoutGreatest(g, s, m, n) ==
    /\ m \in 1..(n + 1) /\ \A i \in 1..(n + 1) : s[i] \in Int /\ s[i] <= s[m]
    /\ g = [i \in 1..n |-> s[IF i < m THEN i ELSE i + 1]]

(* One number is the greatest.                                             *)
LEMMA GreatestAt ==
    ASSUME NEW n \in Nat \ {0}, NEW s, \A i \in 1..n : s[i] \in Int
    PROVE  \E m \in 1..n : \A i \in 1..n : s[i] <= s[m]
<1> DEFINE T == {m \in Nat : m + 1 <= n => \E i \in 1..(m + 1) : \A j \in 1..(m + 1) : s[j] <= s[i]}
<1>1. 0 \in T
  <2>1. 1..(0 + 1) = {1} /\ 1 \in 1..n
      OBVIOUS
  <2>2. s[1] <= s[1]
      BY <2>1
  <2> QED
      BY <2>1, <2>2
<1>2. ASSUME NEW m \in Nat, m \in T PROVE m + 1 \in T
  <2>1. CASE ~ ((m + 1) + 1 <= n)
      BY <2>1
  <2>2. CASE (m + 1) + 1 <= n
    <3> DEFINE k == (m + 1) + 1
    <3>1. m + 1 <= n /\ k \in 1..n /\ 1..k = 1..(m + 1) \cup {k} /\ \A j \in 1..(m + 1) : j \in 1..n
        BY <2>2
    <3>2. PICK i \in 1..(m + 1) : \A j \in 1..(m + 1) : s[j] <= s[i]
        BY <1>2, <3>1
    <3>3. s[i] \in Int /\ s[k] \in Int /\ \A j \in 1..(m + 1) : s[j] \in Int
        BY <3>1
    <3> HIDE DEF k, T
    <3>4. \E a \in 1..k : \A j \in 1..k : s[j] <= s[a]
      <4>1. CASE s[k] <= s[i]
          BY <3>1, <3>2, <4>1
      <4>2. CASE s[i] <= s[k]
        <5>1. ASSUME NEW j \in 1..(m + 1) PROVE s[j] <= s[k]
          <6>1. s[j] <= s[i] /\ s[j] \in Int
              BY <3>2, <3>3
          <6> QED
              BY <3>3, <4>2, <6>1
        <5>2. s[k] <= s[k]
            BY <3>3
        <5> QED
            BY <3>1, <5>1, <5>2
      <4> QED
          BY <3>3, <4>1, <4>2
    <3> QED
        BY <3>4 DEF T, k
  <2> QED
      BY <2>1, <2>2
<1> HIDE DEF T
<1>3. n - 1 \in Nat /\ (n - 1) + 1 = n
    OBVIOUS
<1>4. n - 1 \in T
    BY <1>1, <1>2, <1>3, Induction
<1> QED
    BY <1>3, <1>4 DEF T

(* Sorting: the greatest goes last, the others are sorted before it.       *)
LEMMA OneMoreSorts ==
    ASSUME NEW n \in Nat, NEW s, NEW m, NEW g, WithoutGreatest(g, s, m, n),
           NEW p, Sorts(p, g, n)
    PROVE  \E r : Sorts(r, s, n + 1)
<1> DEFINE N == n + 1
           q == [i \in 1..n |-> IF i < m THEN i ELSE i + 1]
           r == [i \in 1..N |-> IF i = N THEN m ELSE q[p[i]]]
<1>0. /\ m \in 1..(n + 1) /\ \A i \in 1..(n + 1) : s[i] \in Int /\ s[i] <= s[m]
      /\ g = [i \in 1..n |-> s[q[i]]]
    BY DEF WithoutGreatest
<1>1. /\ N \in Nat /\ N \in 1..N
      /\ \A i \in 1..N : i \in 1..n <=> i # N
      /\ \A i \in 1..n : i \in 1..N
    OBVIOUS
<1>2. /\ p \in [1..n -> 1..n]
      /\ \A i, j \in 1..n : p[i] = p[j] => i = j
      /\ \A w \in 1..n : \E i \in 1..n : p[i] = w
      /\ \A i, j \in 1..n : i < j => s[q[p[i]]] <= s[q[p[j]]]
  <2>1. p \in [1..n -> 1..n] /\ (\A i, j \in 1..n : p[i] = p[j] => i = j)
        /\ (\A w \in 1..n : \E i \in 1..n : p[i] = w)
      BY DEF Sorts, Bijection, Injection, Surjection, IsInjective
  <2>2. \A i, j \in 1..n : i < j => g[p[i]] <= g[p[j]]
      BY DEF Sorts
  <2>3. \A i \in 1..n : g[p[i]] = s[q[p[i]]]
      BY <1>0, <2>1
  <2> HIDE DEF q
  <2>4. ASSUME NEW i \in 1..n, NEW j \in 1..n, i < j PROVE s[q[p[i]]] <= s[q[p[j]]]
    <3>1. g[p[i]] <= g[p[j]]
        BY <2>2, <2>4
    <3>2. g[p[i]] = s[q[p[i]]] /\ g[p[j]] = s[q[p[j]]]
        BY <2>3
    <3> QED
        BY <3>1, <3>2
  <2> QED
      BY <2>1, <2>4
<1>3. /\ \A i \in 1..n : q[i] \in 1..N /\ q[i] # m
      /\ \A i, j \in 1..n : q[i] = q[j] => i = j
      /\ \A w \in 1..N : w # m => \E i \in 1..n : q[i] = w
  <2>1. ASSUME NEW w \in 1..N, w # m PROVE \E i \in 1..n : q[i] = w
    <3>0. m \in 1..(n + 1)
        BY <1>0
    <3>1. CASE w < m
      <4>1. w \in 1..n /\ q[w] = w
          BY <3>0, <3>1
      <4> QED
          BY <4>1
    <3>2. CASE ~ (w < m)
      <4>1. w - 1 \in 1..n /\ ~ (w - 1 < m)
          BY <2>1, <3>0, <3>2
      <4>2. q[w - 1] = w
          BY <4>1
      <4> QED
          BY <4>1, <4>2
    <3> QED
        BY <3>1, <3>2
  <2>2. \A i \in 1..n : q[i] \in 1..N /\ q[i] # m
      BY <1>0
  <2>3. \A i, j \in 1..n : q[i] = q[j] => i = j
      BY <1>0
  <2> QED
      BY <2>1, <2>2, <2>3
<1> HIDE DEF N, q
<1>4. r[N] = m /\ \A i \in 1..n : r[i] = q[p[i]] /\ p[i] \in 1..n
    BY <1>1, <1>2
<1>5. r = [i \in 1..N |-> r[i]]
    OBVIOUS
<1> HIDE DEF r
<1>6. \A i \in 1..N : r[i] \in 1..N
    BY <1>0, <1>1, <1>3, <1>4 DEF N
<1>7. \A i, j \in 1..N : r[i] = r[j] => i = j
  <2>1. ASSUME NEW i \in 1..n, NEW j \in 1..n, r[i] = r[j] PROVE i = j
    <3>1. q[p[i]] = q[p[j]] /\ p[i] \in 1..n /\ p[j] \in 1..n
        BY <1>4, <2>1
    <3>2. p[i] = p[j]
        BY <1>3, <3>1, Zenon
    <3> QED
        BY <1>2, <3>2, Zenon
  <2>2. ASSUME NEW i \in 1..n PROVE r[i] # r[N]
      BY <1>3, <1>4
  <2> QED
      BY <1>1, <2>1, <2>2
<1>8. \A w \in 1..N : \E i \in 1..N : r[i] = w
  <2>1. ASSUME NEW w \in 1..N, w # m PROVE \E i \in 1..N : r[i] = w
    <3>1. PICK k \in 1..n : q[k] = w
        BY <1>3, <2>1
    <3>2. PICK i \in 1..n : p[i] = k
        BY <1>2
    <3> QED
        BY <1>1, <1>4, <3>1, <3>2
  <2> QED
      BY <1>0, <1>1, <1>4, <2>1 DEF N
<1>9. \A i, j \in 1..N : i < j => s[r[i]] <= s[r[j]]
  <2>1. ASSUME NEW i \in 1..n, NEW j \in 1..n, i < j PROVE s[r[i]] <= s[r[j]]
    <3>1. s[q[p[i]]] <= s[q[p[j]]]
        BY <1>2, <2>1
    <3>2. r[i] = q[p[i]] /\ r[j] = q[p[j]]
        BY <1>4
    <3> QED
        BY <3>1, <3>2
  <2>2. ASSUME NEW i \in 1..n PROVE s[r[i]] <= s[r[N]]
      BY <1>0, <1>1, <1>4, <1>6 DEF N
  <2>3. ASSUME NEW i \in 1..N, NEW j \in 1..N, i < j PROVE s[r[i]] <= s[r[j]]
    <3>1. i \in 1..n
        BY <2>3 DEF N
    <3> QED
        BY <1>1, <2>1, <2>2, <2>3, <3>1
  <2> QED
      BY <2>3
<1>10. r \in [1..N -> 1..N]
    BY <1>5, <1>6
<1>11. r \in Bijection(1..N, 1..N)
    BY <1>7, <1>8, <1>10 DEF Bijection, Injection, Surjection, IsInjective
<1>12. Sorts(r, s, N)
    BY <1>9, <1>11 DEF Sorts
<1> QED
    BY <1>12 DEF N

(* Any list of numbers can be put in order.                                *)
LEMMA SortingOrder ==
    ASSUME NEW n \in Nat, NEW s, \A i \in 1..n : s[i] \in Int
    PROVE  \E p : Sorts(p, s, n)
<1> DEFINE T == {k \in Nat : \A f \in [1..k -> Int] : \E p : Sorts(p, f, k)}
<1>1. 0 \in T
  <2> DEFINE p == [i \in 1..0 |-> i]
  <2>1. 1..0 = {}
      OBVIOUS
  <2>2. p \in Bijection(1..0, 1..0)
      BY <2>1 DEF Bijection, Injection, Surjection, IsInjective
  <2> HIDE DEF p
  <2>3. \A f \in [1..0 -> Int] : Sorts(p, f, 0)
      BY <2>1, <2>2 DEF Sorts
  <2> QED
      BY <2>3
<1>2. ASSUME NEW k \in Nat, k \in T PROVE k + 1 \in T
  <2>1. ASSUME NEW f \in [1..(k + 1) -> Int] PROVE \E p : Sorts(p, f, k + 1)
    <3>1. \A i \in 1..(k + 1) : f[i] \in Int
        OBVIOUS
    <3>2. k + 1 \in Nat \ {0}
        OBVIOUS
    <3>3. PICK m \in 1..(k + 1) : \A i \in 1..(k + 1) : f[i] <= f[m]
        BY <3>1, <3>2, GreatestAt
    <3> DEFINE g == [i \in 1..k |-> f[IF i < m THEN i ELSE i + 1]]
    <3>4. g \in [1..k -> Int]
        OBVIOUS
    <3>5. WithoutGreatest(g, f, m, k)
        BY <3>1, <3>3 DEF WithoutGreatest
    <3> HIDE DEF g
    <3>6. PICK p : Sorts(p, g, k)
        BY <1>2, <3>4
    <3> HIDE DEF T
    <3> QED
        BY <3>5, <3>6, OneMoreSorts
  <2> QED
      BY <2>1
<1> HIDE DEF T
<1>3. n \in T
    BY <1>1, <1>2, Induction
<1> DEFINE f == [i \in 1..n |-> s[i]]
<1>4. f \in [1..n -> Int]
    OBVIOUS
<1>5. PICK p : Sorts(p, f, n)
  <2> HIDE DEF f
  <2> QED
      BY <1>3, <1>4 DEF T
<1>6. p \in [1..n -> 1..n]
    BY <1>5 DEF Sorts, Bijection, Injection
<1>7. Sorts(p, s, n)
    BY <1>5, <1>6 DEF Sorts
<1> QED
    BY <1>7

(* The image of a finite set is no larger.                                 *)
LEMMA ImageIsFinite ==
    ASSUME NEW S, IsFiniteSet(S), NEW f
    PROVE  LET T == {f[x] : x \in S} IN
           IsFiniteSet(T) /\ Cardinality(T) <= Cardinality(S)
<1> DEFINE T == {f[x] : x \in S}
           g == [x \in S |-> f[x]]
<1>1. g \in Surjection(S, T)
    BY DEF Surjection
<1> HIDE DEF g, T
<1>2. IsFiniteSet(T) /\ Cardinality(T) <= Cardinality(S)
    BY <1>1, FS_Surjection
<1> QED
    BY <1>2 DEF T

(* Less than half of the elements are above the median, at most half below.*)
Halves(c, s, k) ==
    /\ 2 * Cardinality({i \in 1..k : s[i] < c}) <= k
    /\ 2 * Cardinality({i \in 1..k : s[i] > c}) < k
    /\ \E i \in 1..k : c = s[i]

(* The one in the middle has no more than half of them on either side.     *)
LEMMA MedianHalves ==
    ASSUME NEW k \in Nat \ {0}, NEW s, \A i \in 1..k : s[i] \in Int,
           NEW p, Sorts(p, s, k)
    PROVE  Halves(s[p[k \div 2 + 1]], s, k)
<1> DEFINE c == s[p[k \div 2 + 1]]
           j == k \div 2 + 1
           below == {p[a] : a \in 1..(j - 1)}
           above == {p[a] : a \in (j + 1)..k}
           less == {i \in 1..k : s[i] < c}
           more == {i \in 1..k : s[i] > c}
<1>1. /\ j \in 1..k /\ 2 * (j - 1) <= k /\ 2 * (k - j) < k
      /\ j - 1 \in Nat /\ k - j \in Nat
    OBVIOUS
<1>2. /\ p \in [1..k -> 1..k] /\ \A w \in 1..k : \E a \in 1..k : p[a] = w
      /\ \A a, b \in 1..k : a < b => s[p[a]] <= s[p[b]]
    BY DEF Sorts, Bijection, Surjection, Injection
<1>3. c = s[p[j]] /\ p[j] \in 1..k /\ c \in Int
    BY <1>1, <1>2
<1> HIDE DEF j, c
<1>4. less \subseteq below
  <2>1. ASSUME NEW i \in less PROVE i \in below
    <3>1. PICK a \in 1..k : p[a] = i
        BY <1>2
    <3>2. s[p[a]] < c /\ s[p[a]] \in Int
        BY <3>1
    <3>3. ~ (j < a) /\ a # j
      <4>1. j < a => c <= s[p[a]]
          BY <1>1, <1>2, <1>3
      <4>2. a = j => c = s[p[a]]
          BY <1>3
      <4> QED
          BY <1>3, <3>2, <4>1, <4>2
    <3>4. a \in 1..(j - 1)
        BY <1>1, <3>3
    <3> QED
        BY <3>1, <3>4
  <2> QED
      BY <2>1
<1>5. more \subseteq above
  <2>1. ASSUME NEW i \in more PROVE i \in above
    <3>1. PICK a \in 1..k : p[a] = i
        BY <1>2
    <3>2. s[p[a]] > c /\ s[p[a]] \in Int
        BY <3>1
    <3>3. ~ (a < j) /\ a # j
      <4>1. a < j => s[p[a]] <= c
          BY <1>1, <1>2, <1>3
      <4>2. a = j => c = s[p[a]]
          BY <1>3
      <4> QED
          BY <1>3, <3>2, <4>1, <4>2
    <3>4. a \in (j + 1)..k
        BY <1>1, <3>3
    <3> QED
        BY <3>1, <3>4
  <2> QED
      BY <2>1
<1>6. /\ IsFiniteSet(1..(j - 1)) /\ Cardinality(1..(j - 1)) = j - 1
      /\ IsFiniteSet((j + 1)..k) /\ Cardinality((j + 1)..k) = k - j
  <2>1. 1 \in Int /\ j - 1 \in Int /\ j + 1 \in Int /\ k \in Int
      BY <1>1
  <2>2. /\ IsFiniteSet(1..(j - 1)) /\ Cardinality(1..(j - 1)) = IF 1 > j - 1 THEN 0 ELSE (j - 1) - 1 + 1
        /\ IsFiniteSet((j + 1)..k) /\ Cardinality((j + 1)..k) = IF j + 1 > k THEN 0 ELSE k - (j + 1) + 1
      BY <2>1, FS_Interval, Zenon
  <2> QED
      BY <1>1, <2>2
<1>7. /\ IsFiniteSet(below) /\ Cardinality(below) <= Cardinality(1..(j - 1))
      /\ IsFiniteSet(above) /\ Cardinality(above) <= Cardinality((j + 1)..k)
    BY <1>6, ImageIsFinite
<1>8. /\ Cardinality(less) \in Nat /\ Cardinality(less) <= Cardinality(below)
      /\ Cardinality(more) \in Nat /\ Cardinality(more) <= Cardinality(above)
      /\ Cardinality(below) \in Nat /\ Cardinality(above) \in Nat
  <2> HIDE DEF less, more, below, above
  <2> QED
      BY <1>4, <1>5, <1>7, FS_Subset, FS_CardinalityType
<1>9. Cardinality(less) <= j - 1 /\ Cardinality(more) <= k - j
  <2> HIDE DEF less, more, below, above
  <2> QED
      BY <1>1, <1>6, <1>7, <1>8
<1>10. 2 * Cardinality(less) <= k /\ 2 * Cardinality(more) < k
  <2> HIDE DEF less, more, below, above
  <2> QED
      BY <1>1, <1>8, <1>9
<1> QED
    BY <1>3, <1>10 DEF Halves, c

(* The powers of a number, for every exponent.                             *)
LEMMA PowerRecursion ==
    ASSUME NEW b \in Nat
    PROVE  /\ power(b)[0] = 1
           /\ \A e \in Nat : power(b)[e] \in Nat /\ power(b)[e + 1] = b * power(b)[e]
<1> DEFINE p == CHOOSE p : p = [e \in Nat |-> IF e = 0 THEN 1 ELSE b * p[e - 1]]
<1>1. power(b) = p
    BY DEF power
<1> HIDE DEF p
<1>2. p[0] = 1 /\ \A e \in Nat : p[e] \in Nat /\ p[e + 1] = b * p[e]
    BY PowerFunction DEF p
<1> QED
    BY <1>1, <1>2

(* What the samples weigh, and how it grows with the next one.             *)
Weights(s) == [i \in 1..Len(s) |-> s[i] * power(4)[Len(s) - i] * power(5)[i - 1]]

(* One more sample takes a fifth off the weight of the others, in          *)
(* numerators over a common power of five.                                 *)
LEMMA OneMoreWeight ==
    ASSUME NEW s \in Seq(Int), NEW val \in Int
    PROVE  LET total == SumFunctionOnSet(Weights(s), 1..Len(s)) IN
           /\ total \in Int
           /\ SumFunctionOnSet(Weights(Append(s, val)), 1..Len(Append(s, val))) =
                  4 * total + val * power(5)[Len(s)]
<1> DEFINE n == Len(s)
           t == Append(s, val)
           u == Weights(s)
           w == Weights(t)
           p == power(4)
           q == power(5)
<1>1. /\ n \in Nat /\ Len(t) = n + 1 /\ t[n + 1] = val
      /\ \A i \in 1..n : t[i] = s[i] /\ s[i] \in Int
    OBVIOUS
<1>2. /\ p[0] = 1 /\ \A e \in Nat : p[e] \in Nat /\ p[e + 1] = 4 * p[e]
      /\ q[0] = 1 /\ \A e \in Nat : q[e] \in Nat /\ q[e + 1] = 5 * q[e]
  <2>1. 4 \in Nat /\ 5 \in Nat
      OBVIOUS
  <2> QED
      BY <2>1, PowerRecursion
<1>3. /\ \A i \in 1..n : u[i] = s[i] * p[n - i] * q[i - 1]
      /\ \A i \in 1..(n + 1) : w[i] = t[i] * p[n + 1 - i] * q[i - 1]
    BY <1>1 DEF Weights
<1> HIDE DEF p, q, u, w, t, n
<1>4. ASSUME NEW i \in 1..n PROVE u[i] \in Int /\ w[i] = 4 * u[i]
  <2>1. n - i \in Nat /\ i - 1 \in Nat /\ n + 1 - i = (n - i) + 1 /\ i \in 1..(n + 1)
      BY <1>1
  <2>0. p[n - i] \in Nat /\ p[(n - i) + 1] = 4 * p[n - i] /\ q[i - 1] \in Nat
      BY <1>2, <2>1, Zenon
  <2>2. p[n - i] \in Int /\ q[i - 1] \in Int /\ p[n + 1 - i] = 4 * p[n - i]
      BY <2>0, <2>1
  <2>3. u[i] = s[i] * p[n - i] * q[i - 1] /\ w[i] = s[i] * (4 * p[n - i]) * q[i - 1]
      BY <1>1, <1>3, <2>1, <2>2
  <2>4. s[i] \in Int
      BY <1>1
  <2>5. PICK a \in Int, b \in Int, c \in Int : a = s[i] /\ b = p[n - i] /\ c = q[i - 1]
      BY <2>2, <2>4
  <2>6. a * b * c \in Int /\ a * (4 * b) * c = 4 * (a * b * c)
      OBVIOUS
  <2>7. u[i] = a * b * c /\ w[i] = a * (4 * b) * c
      BY <2>3, <2>5, Zenon
  <2> QED
      BY <2>6, <2>7, Zenon
<1>5. w[n + 1] = val * q[n] /\ q[n] \in Int
  <2>1. n + 1 \in 1..(n + 1) /\ n + 1 - (n + 1) = 0 /\ (n + 1) - 1 = n
      BY <1>1
  <2>2. w[n + 1] = t[n + 1] * p[n + 1 - (n + 1)] * q[(n + 1) - 1]
      BY <1>3, <2>1, Zenon
  <2>3. q[n] \in Nat /\ p[0] = 1
      BY <1>1, <1>2, Zenon
  <2>4. w[n + 1] = val * 1 * q[n]
      BY <1>1, <2>1, <2>2, <2>3
  <2> QED
      BY <2>3, <2>4
<1>6. \A i \in 1..(n + 1) : w[i] \in Int
  <2>1. \A i \in 1..n : w[i] \in Int
      BY <1>4
  <2>2. w[n + 1] \in Int
      BY <1>5
  <2> QED
      BY <1>1, <2>1, <2>2
<1>7. SumFunctionOnSet(u, 1..n) \in Int
  <2>1. \A i \in 1..n : u[i] \in Int
      BY <1>4
  <2>2. \A k \in 0..n : SumFunctionOnSet(u, 1..k) \in Int
      BY <1>1, <2>1, SumOfPrefixes
  <2> QED
      BY <1>1, <2>2
<1>8. SumFunctionOnSet(w, 1..n) = 4 * SumFunctionOnSet(u, 1..n)
  <2>1. 4 \in Int
      OBVIOUS
  <2> QED
      BY <1>1, <1>4, <2>1, SumOfMultiples
<1>9. SumFunctionOnSet(w, 1..(n + 1)) = SumFunctionOnSet(w, 1..n) + w[n + 1]
  <2>1. n + 1 \in Nat
      BY <1>1
  <2>2. \A k \in 1..(n + 1) : SumFunctionOnSet(w, 1..k) = SumFunctionOnSet(w, 1..(k - 1)) + w[k]
      BY <1>6, <2>1, SumOfPrefixes
  <2>3. n + 1 \in 1..(n + 1) /\ (n + 1) - 1 = n
      BY <1>1
  <2> QED
      BY <2>2, <2>3
<1> QED
    BY <1>1, <1>5, <1>7, <1>8, <1>9 DEF n, t, u, w, q

(* The exponential average of some samples that came after the answer f.   *)
Decayed(x, s, f) ==
    x.n * power(5)[Len(s)] * f.d =
        x.d * (f.n * power(4)[Len(s)] + f.d * SumFunctionOnSet(Weights(s), 1..Len(s)))

(* Without any it is that answer.                                          *)
LEMMA DecayedNot ==
    ASSUME NEW x \in Fraction
    PROVE  Decayed(x, <<>>, x)
<1>1. power(4)[0] = 1 /\ power(5)[0] = 1
  <2>1. 4 \in Nat /\ 5 \in Nat
      OBVIOUS
  <2> QED
      BY <2>1, PowerRecursion
<1>2. PICK s : s = <<>>
    OBVIOUS
<1>3. Len(s) = 0 /\ 1..Len(s) = {}
    BY <1>2
<1>4. SumFunctionOnSet(Weights(s), 1..Len(s)) = 0
  <2>1. IsFiniteSet({}) /\ \A i \in {} : Weights(s)[i] = 0
      BY FS_EmptySet
  <2> QED
      BY <1>3, <2>1, SumOfZeros
<1>5. PICK n \in Int, d \in Int : n = x.n /\ d = x.d
    BY DEF Fraction
<1>6. n * 1 * d = d * (n * 1 + d * 0)
    OBVIOUS
<1>7. Decayed(x, s, x)
    BY <1>1, <1>3, <1>4, <1>5, <1>6 DEF Decayed
<1> QED
    BY <1>2, <1>7

(* exponential() keeps to the weights of the samples.                      *)
LEMMA DecayedFurther ==
    ASSUME NEW s \in Seq(Int), NEW val \in Int, NEW f \in Fraction, NEW x \in Fraction, Decayed(x, s, f)
    PROVE  Decayed(exponential(val, x), Append(s, val), f) /\ exponential(val, x) \in Fraction
<1> DEFINE n == Len(s)
           t == Append(s, val)
           y == exponential(val, x)
           a == x.n
           d == x.d
           g == f.n
           h == f.d
           p == power(4)[n]
           q == power(5)[n]
           total == SumFunctionOnSet(Weights(s), 1..n)
           new == SumFunctionOnSet(Weights(t), 1..Len(t))
<1>1. a \in Int /\ d \in Nat \ {0} /\ g \in Int /\ h \in Nat \ {0}
    BY DEF Fraction
<1>2. y.n = val * d + 4 * a /\ y.d = 5 * d /\ y = [n |-> val * d + 4 * a, d |-> 5 * d]
    BY DEF exponential
<1>3. n \in Nat /\ Len(t) = n + 1
    OBVIOUS
<1>4. p \in Nat /\ q \in Nat /\ power(4)[Len(t)] = 4 * p /\ power(5)[Len(t)] = 5 * q
  <2>1. 4 \in Nat /\ 5 \in Nat
      OBVIOUS
  <2>2. /\ \A e \in Nat : power(4)[e] \in Nat /\ power(4)[e + 1] = 4 * power(4)[e]
        /\ \A e \in Nat : power(5)[e] \in Nat /\ power(5)[e + 1] = 5 * power(5)[e]
      BY <2>1, PowerRecursion
  <2> QED
      BY <1>3, <2>2
<1>5. total \in Int /\ new = 4 * total + val * q
    BY OneMoreWeight
<1>6. a * q * h = d * (g * p + h * total)
    BY DEF Decayed
<1>7. (val * d + 4 * a) * (5 * q) * h = (5 * d) * (g * (4 * p) + h * new)
  <2> HIDE DEF a, d, g, h, p, q, total, new
  <2>1. (val * d + 4 * a) * (5 * q) * h = 5 * (val * d * q * h) + 20 * (a * q * h)
      BY <1>1, <1>4
  <2>2. (5 * d) * (g * (4 * p) + h * new) = 20 * (d * (g * p + h * total)) + 5 * (val * d * q * h)
      BY <1>1, <1>4, <1>5
  <2>3. val * d * q * h \in Int /\ a * q * h \in Int
      BY <1>1, <1>4
  <2> QED
      BY <1>6, <2>1, <2>2, <2>3
<1>8. val * d + 4 * a \in Int /\ 5 * d \in Nat \ {0}
    BY <1>1
<1> HIDE DEF a, d, g, h, y, p, q
<1>9. y \in Fraction
    BY <1>2, <1>8 DEF Fraction
<1>10. Decayed(y, t, f)
    BY <1>2, <1>4, <1>7 DEF Decayed, g, h
<1> QED
    BY <1>9, <1>10 DEF y

(* What the filters of a window compute from what is in it.                *)
LEMMA MeanOf ==
    ASSUME NEW box \in Seq(Int), Len(box) > 0
    PROVE  mean(box) = [n |-> SumFunction(box), d |-> Len(box)] /\ mean(box) \in Fraction
<1>1. IsSequence(box) /\ \A i \in 1..Len(box) : box[i] \in Int
    BY SequenceOf
<1>2. FoldLeft(LAMBDA out, v : out + v, 0, box) = SumFunction(box) /\ SumFunction(box) \in Int
    BY <1>1, LeftSum
<1>3. mean(box) = [n |-> SumFunction(box), d |-> Len(box)]
    BY <1>2 DEF mean
<1>4. Len(box) \in Nat \ {0}
    OBVIOUS
<1>5. [n |-> SumFunction(box), d |-> Len(box)] \in Fraction
    BY <1>2, <1>4 DEF Fraction
<1> QED
    BY <1>3, <1>5

IsMedian(x, box) ==
    /\ 2 * Cardinality({i \in 1..Len(box) : box[i] < x.n}) <= Len(box)
    /\ 2 * Cardinality({i \in 1..Len(box) : box[i] > x.n}) < Len(box)
    /\ x.d = 1 /\ x.n \in ToSet(box)

(* median() is one.                                                        *)
LEMMA MedianOf ==
    ASSUME NEW box \in Seq(Int), Len(box) > 0
    PROVE  IsMedian(median(box), box) /\ median(box) \in Fraction
<1> DEFINE k == Len(box)
           p == Order(box)
           c == box[p[k \div 2 + 1]]
<1>1. k \in Nat \ {0} /\ \A i \in 1..k : box[i] \in Int
    OBVIOUS
<1>2. \E q : Sorts(q, box, k)
    BY <1>1, SortingOrder
<1>3. Sorts(p, box, k)
    BY <1>2 DEF Order, Sorts
<1>4. median(box) = [n |-> c, d |-> 1]
    BY DEF median, Whole
<1> HIDE DEF p, k
<1>0. Halves(c, box, k)
    BY <1>1, <1>3, MedianHalves
<1> HIDE DEF c
<1>5. /\ 2 * Cardinality({i \in 1..k : box[i] < c}) <= k
      /\ 2 * Cardinality({i \in 1..k : box[i] > c}) < k
      /\ \E i \in 1..k : c = box[i]
    BY <1>0 DEF Halves
<1>6. c \in ToSet(box) /\ c \in Int
    BY <1>1, <1>5 DEF ToSet, k
<1>7. median(box) \in Fraction
    BY <1>4, <1>6 DEF Fraction
<1>8. median(box).n = c /\ median(box).d = 1
    BY <1>4
<1>9. IsMedian(median(box), box)
    BY <1>5, <1>6, <1>8 DEF IsMedian, k
<1> QED
    BY <1>7, <1>9

(* The window: as many as it asks for, but no more than there were and     *)
(* have come, and no fewer than there were.                                *)
Window(max, old, new) == Max({old, Min({max, old + new})})

(* The same without Min and Max.                                           *)
LEMMA WindowIs ==
    ASSUME NEW max \in Int, NEW old \in Int, NEW new \in Int
    PROVE  LET least == IF max <= old + new THEN max ELSE old + new IN
           Window(max, old, new) = IF old >= least THEN old ELSE least
<1> DEFINE least == IF max <= old + new THEN max ELSE old + new
<1>1. ASSUME NEW a \in Int, NEW b \in Int
      PROVE  Min({a, b}) = (IF a <= b THEN a ELSE b) /\ Max({a, b}) = (IF a >= b THEN a ELSE b)
    BY DEF Min, Max
<1>2. old + new \in Int
    OBVIOUS
<1>3. Min({max, old + new}) = least
    BY <1>1, <1>2
<1>4. least \in Int
    OBVIOUS
<1> HIDE DEF least
<1>5. Max({old, least}) = IF old >= least THEN old ELSE least
    BY <1>1, <1>4
<1> QED
    BY <1>3, <1>5 DEF Window, least

(* A sequence ends like another one.                                       *)
EndsLike(s, t) ==
    Len(s) <= Len(t) /\ \A i \in 1..Len(s) : s[i] = t[Len(t) - Len(s) + i]

(* The state between two calls, and what the last sample was answered.     *)
AnalyzerInv ==
    /\ AnalyzerTypeOK
    /\ Len(hist) = Window(max_size, had, since)
    /\ EndsLike(hist, samples)
    /\ Len(samples) > 0 =>
          /\ Len(hist) > 0
          /\ kind = "average" => next = mean(hist)
          /\ kind = "median" => next = median(hist)
    /\ kind = "exponential" /\ Len(samples) > 0 => Decayed(next, Tail(samples), first)

(* Before the first sample the window is empty and the answer is whatever  *)
(* was left in memory.                                                     *)
LEMMA AnalyzerInitInv == AnalyzerInit => AnalyzerInv
<1> SUFFICES ASSUME AnalyzerInit PROVE AnalyzerInv
    OBVIOUS
<1>1. kind \in {"average", "median", "exponential"} /\ max_size \in Int /\ max_size >= 1
    BY MovingAnalyzerAssumption DEF AnalyzerInit
<1>2. PICK g \in Leftover : next = Whole(g)
    BY DEF AnalyzerInit
<1>3. /\ hist = <<>> /\ told = <<>> /\ samples = <<>> /\ first = next /\ sets = 0 /\ had = 0 /\ since = 0
      /\ Len(hist) = 0 /\ Len(samples) = 0 /\ hist \in Seq(Values) /\ samples \in Seq(Values)
    BY DEF AnalyzerInit
<1>4. g \in Int
    BY MovingAnalyzerAssumption
<1>5. AnalyzerTypeOK
    BY <1>1, <1>2, <1>3, <1>4, MovingAnalyzerAssumption DEF AnalyzerTypeOK, Whole, Fraction
<1>6. Window(max_size, had, since) = 0
  <2>1. 0 \in Int /\ 0 + 0 = 0
      OBVIOUS
  <2> QED
      BY <1>1, <1>3, <2>1, WindowIs
<1>7. EndsLike(hist, samples)
    BY <1>3 DEF EndsLike
<1>8. ~ (Len(samples) > 0)
    BY <1>3
<1> QED
    BY <1>3, <1>5, <1>6, <1>7, <1>8 DEF AnalyzerInv

(* Another window starts with what there is.                               *)
LEMMA SetWindowSizeInv ==
    ASSUME AnalyzerInv, NEW w \in Windows, SetWindowSize(w)
    PROVE  AnalyzerInv'
<1>1. /\ UNCHANGED <<kind, hist, next, samples, first>> /\ told' = <<>> /\ sets' \in 0..MaxSets
      /\ AnalyzerTypeOK /\ w \in Int
    BY MovingAnalyzerAssumption DEF SetWindowSize, AnalyzerInv, AnalyzerTypeOK
<1>2. Len(hist) = Window(max_size, had, since) /\ Len(hist) \in Nat
    BY <1>1 DEF AnalyzerInv, AnalyzerTypeOK
<1>3. /\ max_size' \in Nat \ {0} /\ had' \in Nat /\ since' \in Nat
      /\ Len(hist) = Window(max_size', had', since')
  <2>1. CASE kind = "exponential" \/ w < 1
    <3>1. max_size' = max_size /\ had' = had /\ since' = since
        BY <2>1 DEF SetWindowSize
    <3> QED
        BY <1>1, <1>2, <3>1 DEF AnalyzerTypeOK
  <2>2. CASE ~ (kind = "exponential" \/ w < 1)
    <3>1. max_size' = w /\ had' = Len(hist) /\ since' = 0 /\ w \in Nat \ {0}
        BY <1>1, <2>2 DEF SetWindowSize
    <3>2. w \in Int /\ Len(hist) \in Int /\ 0 \in Int
        BY <1>1, <1>2
    <3>3. Window(w, Len(hist), 0) = Len(hist)
      <4>1. PICK a \in Int : a = Len(hist)
          BY <3>2
      <4>2. Window(w, a, 0) = IF a >= (IF w <= a + 0 THEN w ELSE a + 0)
                              THEN a ELSE (IF w <= a + 0 THEN w ELSE a + 0)
          BY <3>2, WindowIs
      <4>3. Window(w, a, 0) = a
          BY <3>2, <4>2
      <4> QED
          BY <4>1, <4>3
    <3> QED
        BY <1>2, <3>1, <3>3
  <2> QED
      BY <2>1, <2>2
<1>4. AnalyzerTypeOK'
    BY <1>1, <1>3 DEF AnalyzerTypeOK
<1>5. EndsLike(hist, samples)'
    BY <1>1 DEF AnalyzerInv, EndsLike
<1>6. Len(hist') = Window(max_size', had', since')
    BY <1>1, <1>3
<1>7. (Len(samples) > 0 =>
          /\ Len(hist) > 0
          /\ kind = "average" => next = mean(hist)
          /\ kind = "median" => next = median(hist))'
    BY <1>1 DEF AnalyzerInv
<1>8. (kind = "exponential" /\ Len(samples) > 0 => Decayed(next, Tail(samples), first))'
    BY <1>1 DEF AnalyzerInv, Decayed, Weights
<1> QED
    BY <1>4, <1>5, <1>6, <1>7, <1>8 DEF AnalyzerInv, Window

(* A sequence of some integers is one of integers.                         *)
LEMMA IntegerSequence ==
    ASSUME NEW V, V \subseteq Int, NEW s \in Seq(V)
    PROVE  s \in Seq(Int)
<1>1. s \in [1..Len(s) -> V] /\ Len(s) \in Nat
    OBVIOUS
<1>2. s \in [1..Len(s) -> Int]
    BY <1>1
<1> QED
    BY <1>1, <1>2

(* Sequences with the same elements are the same.                          *)
LEMMA SameSequence ==
    ASSUME NEW V, NEW s \in Seq(V), NEW t \in Seq(V), Len(s) = Len(t),
           \A i \in 1..Len(s) : t[i] = s[i]
    PROVE  t = s
<1>1. s = [i \in 1..Len(s) |-> s[i]] /\ t = [i \in 1..Len(t) |-> t[i]]
    OBVIOUS
<1> QED
    BY <1>1, Zenon

(* One more sample, and one less when the window is full.                  *)
LEMMA PushedEnds ==
    ASSUME NEW box \in Seq(Int), NEW all \in Seq(Int), EndsLike(box, all), NEW val \in Int
    PROVE  /\ EndsLike(Append(box, val), Append(all, val))
           /\ EndsLike(Tail(Append(box, val)), Append(all, val))
<1> DEFINE k == Len(box)
           n == Len(all)
           b == Append(box, val)
           a == Append(all, val)
           c == Tail(b)
<1>1. /\ k \in Nat /\ n \in Nat /\ k <= n /\ \A i \in 1..k : box[i] = all[n - k + i]
    BY DEF EndsLike
<1>2. /\ Len(b) = k + 1 /\ b[k + 1] = val /\ \A i \in 1..k : b[i] = box[i]
      /\ Len(a) = n + 1 /\ a[n + 1] = val /\ \A i \in 1..n : a[i] = all[i]
      /\ Len(c) = k /\ \A i \in 1..k : c[i] = b[i + 1]
  <2>1. b \in Seq(Int) /\ b # <<>> /\ Len(b) = k + 1
      OBVIOUS
  <2>2. Len(c) = k /\ \A i \in 1..k : c[i] = b[i + 1]
    <3> HIDE DEF b, k
    <3>1. Len(c) = Len(b) - 1 /\ \A i \in 1..Len(b) - 1 : c[i] = b[i + 1]
        BY <2>1
    <3>2. Len(b) - 1 = k
        BY <1>1, <2>1
    <3> QED
        BY <3>1, <3>2, Zenon
  <2> QED
      BY <2>2
<1> HIDE DEF k, n, a, b, c
<1>3. \A i \in 1..(k + 1) : b[i] = a[(n + 1) - (k + 1) + i]
  <2>1. ASSUME NEW i \in 1..k PROVE b[i] = a[(n + 1) - (k + 1) + i]
    <3>1. n - k + i \in 1..n /\ (n + 1) - (k + 1) + i = n - k + i
        BY <1>1
    <3>2. b[i] = box[i] /\ box[i] = all[n - k + i] /\ a[n - k + i] = all[n - k + i]
        BY <1>1, <1>2, <3>1
    <3> QED
        BY <3>1, <3>2
  <2>2. b[k + 1] = a[(n + 1) - (k + 1) + (k + 1)]
    <3>1. (n + 1) - (k + 1) + (k + 1) = n + 1
        BY <1>1
    <3> QED
        BY <1>2, <3>1
  <2>3. \A i \in 1..(k + 1) : i \in 1..k \/ i = k + 1
      BY <1>1
  <2> QED
      BY <2>1, <2>2, <2>3
<1>4. \A i \in 1..k : c[i] = a[(n + 1) - k + i]
  <2>1. ASSUME NEW i \in 1..k PROVE c[i] = a[(n + 1) - k + i]
    <3>1. i + 1 \in 1..(k + 1) /\ (n + 1) - (k + 1) + (i + 1) = (n + 1) - k + i
        BY <1>1
    <3>2. c[i] = b[i + 1] /\ b[i + 1] = a[(n + 1) - (k + 1) + (i + 1)]
        BY <1>2, <1>3, <3>1
    <3> QED
        BY <3>1, <3>2
  <2> QED
      BY <2>1
<1>5. k + 1 <= n + 1 /\ k <= n + 1
    BY <1>1
<1>6. EndsLike(b, a) /\ EndsLike(c, a)
    BY <1>2, <1>3, <1>4, <1>5 DEF EndsLike
<1> QED
    BY <1>6 DEF a, b, c

(* What next() leaves in the list.                                         *)
LEMMA PushedBox ==
    ASSUME AnalyzerInv, NEW val \in Values
    PROVE  /\ Pushed(val) \in Seq(Values) /\ Len(Pushed(val)) > 0
           /\ Last(Pushed(val)) = val
           /\ Len(Pushed(val)) = Window(max_size, had, since + 1)
           /\ EndsLike(Pushed(val), Append(samples, val))
<1> DEFINE box == Append(hist, val)
           k == Len(hist)
<1>1. /\ hist \in Seq(Values) /\ samples \in Seq(Values) /\ Values \subseteq Int
      /\ max_size \in Nat \ {0} /\ had \in Nat /\ since \in Nat
    BY MovingAnalyzerAssumption DEF AnalyzerInv, AnalyzerTypeOK
<1>2. /\ box \in Seq(Values) /\ Len(box) = k + 1 /\ box[k + 1] = val /\ k \in Nat
    BY <1>1
<1>3. /\ Tail(box) \in Seq(Values) /\ Len(Tail(box)) = k
      /\ \A i \in 1..k : Tail(box)[i] = box[i + 1]
  <2>1. box # <<>>
      BY <1>2
  <2> HIDE DEF box
  <2> QED
      BY <1>2, <2>1
<1>4. Pushed(val) = IF k + 1 > max_size THEN Tail(box) ELSE box
    BY <1>2 DEF Pushed
<1>5. EndsLike(box, Append(samples, val)) /\ EndsLike(Tail(box), Append(samples, val))
  <2>1. hist \in Seq(Int) /\ samples \in Seq(Int)
      BY <1>1, IntegerSequence
  <2>2. val \in Int /\ EndsLike(hist, samples)
      BY <1>1 DEF AnalyzerInv
  <2> QED
      BY <2>1, <2>2, PushedEnds
<1> HIDE DEF box
<1>6. k = IF had >= (IF max_size <= had + since THEN max_size ELSE had + since)
          THEN had ELSE (IF max_size <= had + since THEN max_size ELSE had + since)
  <2>1. max_size \in Int /\ had \in Int /\ since \in Int /\ k = Window(max_size, had, since)
      BY <1>1 DEF AnalyzerInv
  <2> HIDE DEF k
  <2> QED
      BY <2>1, WindowIs
<1> HIDE DEF k
<1>7. Window(max_size, had, since + 1) = IF k + 1 > max_size THEN k ELSE k + 1
  <2> DEFINE least == IF max_size <= had + (since + 1) THEN max_size ELSE had + (since + 1)
  <2>1. max_size \in Int /\ had \in Int /\ since + 1 \in Int
      BY <1>1
  <2>2. Window(max_size, had, since + 1) = IF had >= least THEN had ELSE least
      BY <2>1, WindowIs
  <2>3. (IF had >= least THEN had ELSE least) = IF k + 1 > max_size THEN k ELSE k + 1
      BY <1>1, <1>6
  <2> QED
      BY <2>2, <2>3
<1>8. CASE k + 1 > max_size
  <2>1. k \in 1..k /\ Tail(box)[k] = box[k + 1] /\ k > 0
      BY <1>1, <1>2, <1>3, <1>8
  <2>2. Last(Tail(box)) = val
      BY <1>2, <1>3, <2>1 DEF Last
  <2> QED
      BY <1>3, <1>4, <1>5, <1>7, <1>8, <2>1, <2>2
<1>9. CASE ~ (k + 1 > max_size)
  <2>1. Last(box) = val
      BY <1>2 DEF Last
  <2>2. k + 1 > 0
      BY <1>2
  <2> QED
      BY <1>2, <1>4, <1>5, <1>7, <1>9, <2>1, <2>2
<1> QED
    BY <1>8, <1>9

(* What is appended to a sequence that is not empty comes after its first. *)
LEMMA TailOfAppend ==
    ASSUME NEW s \in Seq(Int), s # <<>>, NEW val \in Int
    PROVE  Tail(Append(s, val)) = Append(Tail(s), val) /\ Tail(s) \in Seq(Int)
<1>1. PICK n \in Nat \ {0} : n = Len(s)
    OBVIOUS
<1>2. PICK a, b : a = Tail(Append(s, val)) /\ b = Append(Tail(s), val)
    OBVIOUS
<1>3. Append(s, val) \in Seq(Int) /\ Append(s, val) # <<>> /\ Tail(s) \in Seq(Int)
    OBVIOUS
<1>4. a \in Seq(Int) /\ Len(a) = n /\ \A i \in 1..n : a[i] = Append(s, val)[i + 1]
    BY <1>1, <1>2, <1>3
<1>5. b \in Seq(Int) /\ Len(b) = n
    BY <1>1, <1>2, <1>3
<1>6. \A i \in 1..n : a[i] = b[i]
    BY <1>1, <1>2, <1>4
<1>7. a = b
    BY <1>4, <1>5, <1>6, SameSequence
<1> QED
    BY <1>2, <1>3, <1>7

(* get_next() pushes the sample and analyses the window.                   *)
LEMMA GetNextInv ==
    ASSUME AnalyzerInv, NEW val \in Values, GetNext(val)
    PROVE  AnalyzerInv'
<1>1. /\ hist' = Pushed(val) /\ next' = Analyzed(hist') /\ told' = <<next'>>
      /\ samples' = Append(samples, val) /\ since' = since + 1
      /\ first' = IF samples = <<>> THEN next' ELSE first
      /\ UNCHANGED <<kind, max_size, sets, had>>
    BY DEF GetNext
<1>2. /\ AnalyzerTypeOK /\ Values \subseteq Int
    BY MovingAnalyzerAssumption DEF AnalyzerInv
<1>3. /\ hist' \in Seq(Values) /\ Len(hist') > 0 /\ Last(hist') = val
      /\ Len(hist') = Window(max_size', had', since') /\ EndsLike(hist', samples')
    BY <1>1, PushedBox
<1>4. /\ samples \in Seq(Int) /\ samples \in Seq(Values) /\ samples' \in Seq(Values)
      /\ hist' \in Seq(Int) /\ Len(samples') > 0 /\ next \in Fraction /\ val \in Int
  <2>1. samples \in Seq(Values) /\ next \in Fraction /\ val \in Int
      BY <1>2 DEF AnalyzerTypeOK
  <2>2. samples' \in Seq(Values) /\ Len(samples') > 0
      BY <1>1, <2>1
  <2>3. samples \in Seq(Int) /\ hist' \in Seq(Int)
      BY <1>2, <1>3, <2>1, IntegerSequence
  <2> QED
      BY <2>1, <2>2, <2>3
<1>5. PICK box : box = hist'
    OBVIOUS
<1>6. mean(box) \in Fraction /\ median(box) \in Fraction
    BY <1>3, <1>4, <1>5, MeanOf, MedianOf
<1>7. /\ kind = "average" => next' = mean(box)
      /\ kind = "median" => next' = median(box)
      /\ kind = "exponential" => next' = exponential(val, next)
    BY <1>1, <1>3, <1>5 DEF Analyzed
<1>8. ASSUME kind = "exponential"
      PROVE  next' \in Fraction /\ Decayed(next', Tail(samples'), first')
  <2>1. next' = exponential(val, next) /\ next' \in Fraction
    <3>1. [n |-> val * next.d + 4 * next.n, d |-> 5 * next.d] \in Fraction
        BY <1>4 DEF Fraction
    <3> QED
        BY <1>7, <1>8, <3>1 DEF exponential
  <2>2. CASE samples = <<>>
    <3>1. Tail(samples') = <<>> /\ first' = next'
      <4>1. samples' = <<val>>
          BY <1>1, <2>2
      <4>2. Tail(<<val>>) = <<>>
          OBVIOUS
      <4> QED
          BY <1>1, <2>2, <4>1, <4>2
    <3> QED
        BY <2>1, <3>1, DecayedNot
  <2>3. CASE samples # <<>>
    <3>1. first' = first /\ first \in Fraction
        BY <1>1, <1>2, <2>3 DEF AnalyzerTypeOK
    <3>2. Len(samples) > 0
        BY <1>4, <2>3
    <3>3. Tail(samples') = Append(Tail(samples), val) /\ Tail(samples) \in Seq(Int)
        BY <1>1, <1>4, <2>3, TailOfAppend
    <3>4. Decayed(next, Tail(samples), first)
        BY <1>8, <3>2 DEF AnalyzerInv
    <3>5. Decayed(exponential(val, next), Append(Tail(samples), val), first)
        BY <1>4, <3>1, <3>3, <3>4, DecayedFurther
    <3> QED
        BY <2>1, <3>1, <3>3, <3>5
  <2> QED
      BY <2>2, <2>3
<1>9. kind \in {"average", "median", "exponential"}
    BY <1>2 DEF AnalyzerTypeOK
<1>10. next' \in Fraction
    BY <1>6, <1>7, <1>8, <1>9
<1>11. AnalyzerTypeOK'
  <2>1. first' \in Fraction
      BY <1>1, <1>2, <1>10 DEF AnalyzerTypeOK
  <2> QED
      BY <1>1, <1>2, <1>3, <1>4, <1>10, <2>1 DEF AnalyzerTypeOK
<1>12. (kind = "average" => next = mean(hist))' /\ (kind = "median" => next = median(hist))'
    BY <1>1, <1>5, <1>7
<1>13. (kind = "exponential" /\ Len(samples) > 0 => Decayed(next, Tail(samples), first))'
    BY <1>1, <1>8
<1> QED
    BY <1>3, <1>11, <1>12, <1>13 DEF AnalyzerInv

(* No step breaks the invariant.                                           *)
LEMMA AnalyzerInvStep ==
    ASSUME AnalyzerInv, [AnalyzerNext]_analyzerVars
    PROVE  AnalyzerInv'
<1>1. CASE \E w \in Windows : SetWindowSize(w)
    BY <1>1, SetWindowSizeInv
<1>2. CASE \E val \in Values : GetNext(val)
    BY <1>2, GetNextInv
<1>3. CASE GetCurrent \/ GetNextInterpolated \/ UNCHANGED analyzerVars
  <2>1. /\ UNCHANGED <<kind, max_size, hist, next, samples, first, sets, had, since>>
        /\ told' \in {<<>>, <<next>>}
      BY <1>3 DEF GetCurrent, GetNextInterpolated, analyzerVars, AnalyzerInv, AnalyzerTypeOK
  <2>2. AnalyzerTypeOK'
      BY <2>1 DEF AnalyzerInv, AnalyzerTypeOK
  <2>3. EndsLike(hist, samples)' /\ (Len(hist) = Window(max_size, had, since))'
      BY <2>1 DEF AnalyzerInv
  <2>4. (Len(samples) > 0 =>
            /\ Len(hist) > 0
            /\ kind = "average" => next = mean(hist)
            /\ kind = "median" => next = median(hist))'
      BY <2>1 DEF AnalyzerInv
  <2>5. (kind = "exponential" /\ Len(samples) > 0 => Decayed(next, Tail(samples), first))'
      BY <2>1 DEF AnalyzerInv
  <2> QED
      BY <2>2, <2>3, <2>4, <2>5 DEF AnalyzerInv
<1> QED
    BY <1>1, <1>2, <1>3 DEF AnalyzerNext

(* Whatever samples come and however often the window is resized: the      *)
(* window holds the latest samples, as many as the sizes it had allow, and *)
(* the answer kept is that of the window, or the decayed one.              *)
THEOREM AnalyzerInvariant == AnalyzerSpec => []AnalyzerInv
BY AnalyzerInitInv, AnalyzerInvStep, PTL DEF AnalyzerSpec

(* What the invariant says of the answer kept is what the property asks of *)
(* the answer given.                                                       *)
LEMMA AnswersRecent ==
    ASSUME AnalyzerInv
    PROVE  AnswersAreRecent
<1> DEFINE n == Len(samples)
           k == Len(hist)
           later == Tail(samples)
           weighted == [i \in 1..(n - 1) |-> later[i] * power(4)[n - 1 - i] * power(5)[i - 1]]
<1>1. /\ hist \in Seq(Values) /\ samples \in Seq(Values) /\ Values \subseteq Int
      /\ kind \in {"average", "median", "exponential"}
    BY MovingAnalyzerAssumption DEF AnalyzerInv, AnalyzerTypeOK
<1>2. /\ k \in Nat /\ n \in Nat /\ k <= n /\ \A i \in 1..k : hist[i] = samples[n - k + i]
      /\ hist \in Seq(Int)
  <2>1. hist \in Seq(Int)
      BY <1>1, IntegerSequence
  <2> QED
      BY <1>1, <2>1 DEF AnalyzerInv, EndsLike
<1>3. Min({max_size, had + since}) <= k /\ k <= Max({max_size, had})
  <2>1. /\ max_size \in Int /\ had \in Int /\ since \in Int /\ had + since \in Int
        /\ k = Window(max_size, had, since) /\ since >= 0
      BY DEF AnalyzerInv, AnalyzerTypeOK
  <2>2. ASSUME NEW a \in Int, NEW b \in Int
        PROVE  Min({a, b}) = (IF a <= b THEN a ELSE b) /\ Max({a, b}) = (IF a >= b THEN a ELSE b)
      BY DEF Min, Max
  <2>3. k = IF had >= (IF max_size <= had + since THEN max_size ELSE had + since)
            THEN had ELSE (IF max_size <= had + since THEN max_size ELSE had + since)
    <3> HIDE DEF k
    <3> QED
        BY <2>1, WindowIs
  <2>4. PICK m \in Int, h \in Int, s \in Nat : m = max_size /\ h = had /\ s = since
      BY <2>1
  <2>5. k = IF h >= (IF m <= h + s THEN m ELSE h + s) THEN h ELSE (IF m <= h + s THEN m ELSE h + s)
      BY <2>3, <2>4
  <2>6. /\ Min({m, h + s}) = IF m <= h + s THEN m ELSE h + s
        /\ Max({m, h}) = IF m >= h THEN m ELSE h
    <3>1. h + s \in Int
        BY <2>4
    <3> QED
        BY <2>2, <3>1
  <2>7. Min({m, h + s}) <= k /\ k <= Max({m, h})
      BY <2>5, <2>6
  <2> QED
      BY <2>4, <2>7
<1>4. hist = SubSeq(samples, n - k + 1, n)
  <2> DEFINE sub == SubSeq(samples, n - k + 1, n)
  <2>1. n - k + 1 \in 1..(n + 1) /\ n - (n - k + 1) + 1 = k
      BY <1>2
  <2>2. /\ Len(sub) = k /\ DOMAIN sub = 1..k
        /\ \A i \in 1..k : sub[i] = samples[(n - k + 1) + i - 1]
      BY <1>1, <1>2, <2>1
  <2>3. sub \in Seq(Values)
      BY <1>1, <1>2, <2>1
  <2>4. \A i \in 1..k : (n - k + 1) + i - 1 = n - k + i
      BY <1>2
  <2>5. \A i \in 1..k : sub[i] = hist[i]
      BY <1>2, <2>2, <2>4
  <2> HIDE DEF sub
  <2>6. Len(hist) = Len(sub)
      BY <2>2
  <2>7. sub = hist
      BY <1>1, <2>3, <2>5, <2>6, SameSequence
  <2> QED
      BY <2>7 DEF sub
<1>5. ASSUME n > 0, kind = "average" PROVE next.n * k = next.d * SumFunction(hist)
  <2>1. Len(hist) > 0 /\ next = mean(hist)
      BY <1>5 DEF AnalyzerInv
  <2>2. next = [n |-> SumFunction(hist), d |-> Len(hist)] /\ next \in Fraction
      BY <1>2, <2>1, MeanOf
  <2>3. next.n = SumFunction(hist) /\ next.d = k /\ SumFunction(hist) \in Int
      BY <2>2 DEF Fraction
  <2> QED
      BY <1>2, <2>3
<1>6. ASSUME n > 0, kind = "median" PROVE IsMedian(next, hist)
  <2>1. Len(hist) > 0 /\ next = median(hist)
      BY <1>6 DEF AnalyzerInv
  <2> QED
      BY <1>2, <2>1, MedianOf
<1>7. ASSUME n > 0, kind = "exponential"
      PROVE  next.n * power(5)[n - 1] * first.d =
                 next.d * (first.n * power(4)[n - 1] + first.d * SumFunction(weighted))
  <2>1. Decayed(next, later, first)
      BY <1>7 DEF AnalyzerInv
  <2>2. Len(later) = n - 1
      BY <1>1, <1>7
  <2>3. SumFunction(weighted) = SumFunctionOnSet(Weights(later), 1..(n - 1))
      BY <2>2 DEF SumFunction, Weights
  <2> QED
      BY <2>1, <2>2, <2>3 DEF Decayed
<1> QED
    BY <1>1, <1>3, <1>4, <1>5, <1>6, <1>7 DEF AnswersAreRecent, IsMedian

(* Each answer is made of the latest samples, as many as the window holds, *)
(* or of all of them with falling weights.                                 *)
THEOREM RecentAnswers == AnalyzerSpec => []AnswersAreRecent
BY AnalyzerInvariant, AnswersRecent, PTL
=============================================================================
