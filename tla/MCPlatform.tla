----------------------------- MODULE MCPlatform ----------------------------
(* MutexVariable and Executor, which share no state, checked together: a   *)
(* behaviour is one of threads that use a variable or of a program that    *)
(* uses an Executor, which the initial state chooses; the other component  *)
(* has one initial state.                                                  *)
EXTENDS MCMutexVariable, MCExecutor

VARIABLE component

platformVars == <<component, mutexVars, vars>>

PlatformInit ==
    /\ component \in {"mutex", "executor"}
    /\ MutexInit /\ Init
    /\ component # "mutex" => value = [w \in Word |-> c0]

PlatformNext ==
    \/ component = "mutex" /\ MutexNext /\ UNCHANGED <<component, vars>>
    \/ component = "executor" /\ Next /\ UNCHANGED <<component, mutexVars>>

PlatformSpec ==
    PlatformInit /\ [][PlatformNext]_platformVars /\ MutexFairness /\ ExecutorFairness
=============================================================================
