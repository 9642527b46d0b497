--------------------------- MODULE MCPoolMetrics ---------------------------
(* The metrics registry for TLC. *)
EXTENDS PoolMetrics, TLC

\* Pools are told apart by their histories only.
Symmetry == Permutations(Pools)
=============================================================================
