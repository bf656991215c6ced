--------------------------- MODULE MovingAnalyzer -------------------------
(***************************************************************************)
(* math/moving_ana.h: a filter that keeps the latest samples and answers   *)
(* each new one with their mean, with their median (math/basic.h), or with *)
(* an exponential average, which is not taken from them.                   *)
(***************************************************************************)
EXTENDS Fractions, SequencesExt, Functions

CONSTANTS
    Values,         \* the samples
    Windows,        \* the window sizes asked for
    Leftover,       \* what `next' may hold before the first sample
    MaxSamples,     \* bound: samples
    MaxSets         \* bound: calls of set_window_size()

ASSUME MovingAnalyzerAssumption ==
    /\ Values \subseteq Int /\ Windows \subseteq Int /\ Leftover \subseteq Int
    /\ MaxSamples \in Nat /\ MaxSets \in Nat

VARIABLES
    kind,           \* the class: "average", "median", "exponential"
    max_size, hist, next,
    told,           \* what the last call has returned, <<>> if it threw
    samples,        \* history: all samples
    first,          \* history: the answer to the first of them
    sets,           \* calls of set_window_size()
    had,            \* history: the length of hist at the last change of max_size
    since           \* history: the samples since then

analyzerVars == <<kind, max_size, hist, next, told, samples, first, sets, had, since>>

(* The constructors; a window of less than 1 throws.  `next' is not set.   *)
AnalyzerInit ==
    /\ kind \in {"average", "median", "exponential"}
    /\ max_size \in IF kind = "exponential" THEN {2} ELSE {w \in Windows : w >= 1}
    /\ hist = <<>>
    /\ next \in {Whole(g) : g \in Leftover}
    /\ told = <<>>
    /\ samples = <<>> /\ first = next /\ sets = 0 /\ had = 0 /\ since = 0

SetWindowSize(w) ==
    /\ sets < MaxSets
    /\ sets' = sets + 1
    /\ told' = <<>>
    /\ IF kind = "exponential" \/ w < 1
       THEN UNCHANGED <<max_size, had, since>>
       ELSE max_size' = w /\ had' = Len(hist) /\ since' = 0
    /\ UNCHANGED <<kind, hist, next, samples, first>>

mean(box) == [n |-> FoldLeft(LAMBDA out, v : out + v, 0, box), d |-> Len(box)]

(* What sort() does: the positions in the order of what they hold.         *)
Order(box) ==
    CHOOSE p \in Bijection(1..Len(box), 1..Len(box)) :
        \A i, j \in 1..Len(box) : i < j => box[p[i]] <= box[p[j]]

(* at(size() / 2) counts from 0: of an even number, the upper one.         *)
median(box) == Whole(box[Order(box)[Len(box) \div 2 + 1]])

(* alpha is 1/5.                                                           *)
exponential(val, last) == [n |-> val * last.d + 4 * last.n, d |-> 5 * last.d]

Analyzed(box) ==
    CASE kind = "average" -> mean(box)
      [] kind = "median" -> median(box)
      [] kind = "exponential" -> exponential(Last(box), next)

\* Mutant: the oldest sample goes one too early.
PushedEarly(val) ==
    LET box == Append(hist, val) IN IF Len(box) >= max_size /\ Len(box) > 1 THEN Tail(box) ELSE box

(* One sample comes and at most one goes, whatever max_size is by now.     *)
Pushed(val) ==
    LET box == Append(hist, val) IN IF Len(box) > max_size THEN Tail(box) ELSE box

GetNext(val) ==
    /\ Len(samples) < MaxSamples
    /\ hist' = Pushed(val)
    /\ next' = Analyzed(hist')
    /\ told' = <<next'>>
    /\ samples' = Append(samples, val) /\ since' = since + 1
    /\ first' = IF samples = <<>> THEN next' ELSE first
    /\ UNCHANGED <<kind, max_size, sets, had>>

GetCurrent ==
    /\ told' = <<next>>
    /\ UNCHANGED <<kind, max_size, hist, next, samples, first, sets, had, since>>

GetNextInterpolated ==
    /\ told' = IF hist = <<>> THEN <<>> ELSE <<next>>
    /\ UNCHANGED <<kind, max_size, hist, next, samples, first, sets, had, since>>

AnalyzerNext ==
    \/ \E w \in Windows : SetWindowSize(w)
    \/ \E val \in Values : GetNext(val)
    \/ GetCurrent
    \/ GetNextInterpolated

AnalyzerSpec == AnalyzerInit /\ [][AnalyzerNext]_analyzerVars

-----------------------------------------------------------------------------
AnalyzerTypeOK ==
    /\ kind \in {"average", "median", "exponential"} /\ max_size \in Nat \ {0}
    /\ hist \in Seq(Values) /\ next \in Fraction /\ told \in {<<>>, <<next>>}
    /\ samples \in Seq(Values) /\ first \in Fraction /\ sets \in 0..MaxSets /\ had \in Nat /\ since \in Nat

(* What the filter answers, after any changes of the window.  It looks at  *)
(* the latest samples, none left out: as many as the window asks for, once *)
(* they are there, and never more than that, unless the window had more    *)
(* when it was changed (see WindowIsAdjusted).  The answer is the mean of  *)
(* them, or a median: half of them at most are below, and fewer than half  *)
(* above.  The exponential average begins with its answer to the first     *)
(* sample, whatever that was: it is made of a `next' that nothing has set, *)
(* and nothing is promised of it here.  With each of the later samples it  *)
(* loses a fifth of its weight, as do these.                               *)
AnswersAreRecent ==
    LET n == Len(samples)
        k == Len(hist)
        later == Tail(samples)
        weighted == [i \in 1..(n - 1) |-> later[i] * power(4)[n - 1 - i] * power(5)[i - 1]] IN
    /\ Min({max_size, had + since}) <= k /\ k <= Max({max_size, had})
    /\ hist = SubSeq(samples, n - k + 1, n)
    /\ n > 0 =>
         CASE kind = "average" -> next.n * k = next.d * SumFunction(hist)
           [] kind = "median" ->
                /\ 2 * Cardinality({i \in 1..k : hist[i] < next.n}) <= k
                /\ 2 * Cardinality({i \in 1..k : hist[i] > next.n}) < k
                /\ next.d = 1 /\ next.n \in ToSet(hist)
           [] kind = "exponential" ->
                next.n * power(5)[n - 1] * first.d =
                    next.d * (first.n * power(4)[n - 1] + first.d * SumFunction(weighted))

(* "(Re-)adjust the window size to a specified width" (moving_ana.h:62):   *)
(* once a sample has come after it, the window has that width at most.     *)
(* get_next() erases one sample at most, and a window that was made        *)
(* smaller keeps its length.                                               *)
WindowIsAdjusted == since > 0 => Len(hist) <= max_size
=============================================================================
