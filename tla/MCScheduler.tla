---------------------------- MODULE MCScheduler ----------------------------
(* Scheduler on small instances; the sets and flags come from each cfg.    *)
EXTENDS Scheduler, TLC

Symmetry == Permutations(Threads) \cup Permutations(Cors)
CorSymmetry == Permutations(Cors)
=============================================================================
