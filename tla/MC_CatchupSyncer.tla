------------------------- MODULE MC_CatchupSyncer -------------------------
(* Model-checking instance of CatchupSyncer: two goroutine slots, the      *)
(* thresholds of catchup_syncer.go (stop 0, start 2).                      *)
EXTENDS CatchupSyncer, TLC

CONSTANTS p1, p2

MCProcs == {p1, p2}

MCSymmetry == Permutations(MCProcs)
=============================================================================
