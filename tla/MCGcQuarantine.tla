--------------------------- MODULE MCGcQuarantine ---------------------------
(* Two runs of the collector on one home. *)
EXTENDS GcQuarantine, TLC

CONSTANTS r1, r2

TwoRuns == {r1, r2}
RunSymmetry == Permutations(TwoRuns)
=============================================================================
