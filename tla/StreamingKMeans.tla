-------------------------- MODULE StreamingKMeans -------------------------
(***************************************************************************)
(* math/kmeans.h: centres of the data that arrive, each of which is moved  *)
(* a little towards every datum it is nearest to.  The batch is never      *)
(* emptied: each update goes over all data since reset().                  *)
(***************************************************************************)
EXTENDS Fractions, SequencesExt, Functions

CONSTANTS
    Lists,          \* what one call of add_data() brings
    Configs,        \* the members that configure an object
    MaxBatch,       \* bound: data since reset()
    MaxSeen,        \* bound: data the updates have seen since then, when one more is made
    MaxResets       \* bound: calls of reset()

ASSUME StreamingKMeansAssumption ==
    /\ Lists \subseteq Seq(Int) /\ MaxBatch \in Nat /\ MaxSeen \in Nat /\ MaxResets \in Nat
    /\ Configs \subseteq [num_centers : Nat \ {0}, min_batch_size : Nat \ {0},
                          num_iters : Nat \ {0}, always_fill_batch : BOOLEAN]
    /\ \A c \in Configs : c.num_centers <= c.min_batch_size

VARIABLES
    config,         \* num_centers, min_batch_size, num_iters, always_fill_batch
    num_members, centers, batch, first_run,
    resets,
    fed             \* history: how many data the updates have seen, and their sum

kmeansVars == <<config, num_members, centers, batch, first_run, resets, fed>>

Idx == 1..config.num_centers

Cleared(c, members) ==
    /\ config' = c
    /\ num_members' = members
    /\ centers' = [i \in 1..c.num_centers |-> Whole(0)]
    /\ batch' = <<>> /\ first_run' = TRUE
    /\ fed' = [count |-> 0, sum |-> 0]

KMeansInit ==
    /\ config \in Configs
    /\ num_members = [i \in Idx |-> 0] /\ centers = [i \in Idx |-> Whole(0)]
    /\ batch = <<>> /\ first_run = TRUE
    /\ resets = 0 /\ fed = [count |-> 0, sum |-> 0]

\* Mutant: the weights of the old centres stay.
ResetKeepingMembers(c) ==
    /\ resets < MaxResets /\ resets' = resets + 1
    /\ Cleared(c, [i \in 1..c.num_centers |-> IF i \in Idx THEN num_members[i] ELSE 0])

(* reset(), which has to follow when the configuration is changed.         *)
Reset(c) ==
    /\ resets < MaxResets /\ resets' = resets + 1
    /\ Cleared(c, [i \in 1..c.num_centers |-> 0])

-----------------------------------------------------------------------------
(* The state of the loops of update(): km, the centres and their weights.  *)
Distance(km, i, datum) == Abs(Minus(Whole(datum), km.centers[i]))

(* `<' keeps the first of the nearest.                                     *)
Nearest(km, datum) ==
    Min({i \in Idx : \A j \in Idx : Leq(Distance(km, i, datum), Distance(km, j, datum))})

(* (1 - rate) * center + rate * datum, where rate is 1 / weight.           *)
Moved(center, weight, datum) ==
    Reduced([n |-> (weight - 1) * center.n + datum * center.d, d |-> weight * center.d])

Attracted(km, datum) ==
    LET i == Nearest(km, datum)
        weight == km.num_members[i] + 1 IN
    [num_members |-> [km.num_members EXCEPT ![i] = weight],
     centers     |-> [km.centers EXCEPT ![i] = Moved(@, weight, datum)]]

Iteration(km, data) == FoldLeft(Attracted, km, data)

Iterated(km, data) ==
    FoldLeft(LAMBDA r, i : Iteration(r, data), km, [i \in 1..config.num_iters |-> i])

(* The first centres are found in the first num_centers data of the batch. *)
Seeds(data) ==
    [i \in Idx |-> LET at == (config.num_iters * config.min_batch_size * i) % config.num_centers IN
                   Whole(data[at + 1])]

Waits(data) ==
    (first_run \/ config.always_fill_batch) /\ config.min_batch_size > Len(data)

Update(data) ==
    LET start == [num_members |-> num_members,
                  centers     |-> IF first_run THEN Seeds(data) ELSE centers]
        end == Iterated(start, data) IN
    /\ num_members' = end.num_members /\ centers' = end.centers
    /\ first_run' = FALSE
    /\ fed' = [count |-> fed.count + config.num_iters * Len(data),
               sum   |-> fed.sum + config.num_iters * SumFunction(data)]

(* add_data(), of one datum or of a list.                                  *)
AddData(list) ==
    /\ Len(batch) + Len(list) <= MaxBatch /\ fed.count <= MaxSeen
    /\ batch' = batch \o list
    /\ IF Waits(batch') THEN UNCHANGED <<num_members, centers, first_run, fed>>
                        ELSE Update(batch')
    /\ UNCHANGED <<config, resets>>

KMeansNext ==
    \/ \E c \in Configs : Reset(c)
    \/ \E list \in Lists : AddData(list)

KMeansSpec == KMeansInit /\ [][KMeansNext]_kmeansVars

-----------------------------------------------------------------------------
KMeansTypeOK ==
    /\ config \in Configs /\ first_run \in BOOLEAN /\ resets \in 0..MaxResets
    /\ num_members \in [Idx -> Nat] /\ centers \in [Idx -> Fraction]
    /\ batch \in Seq(Int) /\ Len(batch) <= MaxBatch

(* The centres weigh what the data weigh.  A centre is moved by a rate     *)
(* that falls with its own members, and the first one forgets its seed, so *)
(* that each centre with members is a mean of data: members and centres    *)
(* account together for every datum of every update since reset(), and for *)
(* nothing before.  A centre without members is still its seed, a datum;   *)
(* none leaves the range of the data; nothing happens before the batch has *)
(* its least size, and always_fill_batch can add nothing to that.          *)
CentresWeighTheData ==
    LET weight == [i \in Idx |-> (num_members[i] * centers[i].n) \div centers[i].d] IN
    /\ SumFunction(num_members) = fed.count
    /\ \A i \in Idx : (num_members[i] * centers[i].n) % centers[i].d = 0
    /\ SumFunction(weight) = fed.sum
    /\ first_run <=> Len(batch) < config.min_batch_size
    /\ ~ first_run => \A i \in Idx :
         /\ Leq(Whole(Min(ToSet(batch))), centers[i]) /\ Leq(centers[i], Whole(Max(ToSet(batch))))
         /\ num_members[i] = 0 => \E datum \in ToSet(batch) : centers[i] = Whole(datum)
=============================================================================
