---------------------------- MODULE MCBreakerThreads ----------------------------
(* BreakerThreads.tla for TLC: tasks are interchangeable.                  *)
EXTENDS BreakerThreads, TLC

Symmetry == Permutations(Tasks)
=============================================================================
