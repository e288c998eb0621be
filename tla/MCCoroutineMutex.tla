-------------------------- MODULE MCCoroutineMutex --------------------------
(* CoroutineMutex on small instances.                                       *)
EXTENDS CoroutineMutex, TLC

CorSymmetry == Permutations(Cors)
=============================================================================
