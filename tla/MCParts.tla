------------------------------ MODULE MCParts -----------------------------
(***************************************************************************)
(* Five parts that share no state, MessageQueue, Parallel, Sockets,        *)
(* MovingAnalyzer and StreamingKMeans, and an instance of them for TLC.    *)
(* Of steps of different parts the order would not matter, so a behaviour  *)
(* is one of a single part, which the initial state chooses.  Of the two   *)
(* processes p1 has any memory, p2 one whose try_join() may mean something.*)
(***************************************************************************)
EXTENDS MessageQueue, Parallel, Sockets, MovingAnalyzer, StreamingKMeans

CONSTANTS chr, p1, p2

VARIABLE part

TheTexts == {<<chr>>, <<chr, NUL, chr>>, <<>>}
TheWindows == -1..3
TheLists == {<<>>, <<0>>, <<6>>, <<8>>, <<0, 6>>}
Config(n, m, fill) ==
    [num_centers |-> 2, min_batch_size |-> n, num_iters |-> m, always_fill_batch |-> fill]
TheConfigs == {Config(n, m, fill) : n \in {2, 3}, m \in {1, 2}, fill \in BOOLEAN}

partsVars == <<part, queueVars, parallelVars, socketsVars, analyzerVars, kmeansVars>>

(* A part that is not the chosen one has one initial state.                *)
PartsInit ==
    /\ part \in {"queue", "parallel", "sockets", "analyzer", "kmeans"}
    /\ QueueInit /\ ParallelInit /\ SocketsInit /\ AnalyzerInit /\ KMeansInit
    /\ retval[p2] = 7 /\ address[p2] = [exited |-> FALSE, status |-> 5]
    /\ part # "parallel" => retval[p1] = retval[p2] /\ address[p1] = address[p2]
    /\ part # "analyzer" => kind = "exponential" /\ next.n = 0
    /\ part # "kmeans" => config = Config(2, 1, TRUE)

PartsNext ==
    \/ /\ part = "queue" /\ QueueNext
       /\ UNCHANGED <<part, parallelVars, socketsVars, analyzerVars, kmeansVars>>
    \/ /\ part = "parallel" /\ ParallelNext
       /\ UNCHANGED <<part, queueVars, socketsVars, analyzerVars, kmeansVars>>
    \/ /\ part = "sockets" /\ SocketsNext
       /\ UNCHANGED <<part, queueVars, parallelVars, analyzerVars, kmeansVars>>
    \/ /\ part = "analyzer" /\ AnalyzerNext
       /\ UNCHANGED <<part, queueVars, parallelVars, socketsVars, kmeansVars>>
    \/ /\ part = "kmeans" /\ KMeansNext
       /\ UNCHANGED <<part, queueVars, parallelVars, socketsVars, analyzerVars>>

PartsSpec == PartsInit /\ [][PartsNext]_partsVars /\ SocketsFairness

-----------------------------------------------------------------------------
(* The types of the five parts.                                            *)
PartsTypeOK == QueueTypeOK /\ ParallelTypeOK /\ SocketsTypeOK /\ AnalyzerTypeOK /\ KMeansTypeOK
=============================================================================
