-------------------------- MODULE MCMutexVariable --------------------------
(* Instance of MutexVariable for TLC: a T of two words, the smallest that  *)
(* can be torn.                                                            *)
EXTENDS MutexVariable

CONSTANTS t1, t2, lo, hi, c0, c1

TwoThreads == {t1, t2}
TwoWords   == {lo, hi}
TwoChars   == {c0, c1}
=============================================================================
