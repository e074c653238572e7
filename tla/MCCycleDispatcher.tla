------------------------- MODULE MCCycleDispatcher -------------------------
(* CycleDispatcher for TLC: the workers of the dispatcher are interchangeable, *)
(* so states that differ in their names only are explored once (safety runs).  *)
EXTENDS CycleDispatcher, TLC

WorkerSymmetry == Permutations(Workers)
=============================================================================
