---------------------------- MODULE MCLocalPool ----------------------------
(* One thread's pool, for TLC. *)
EXTENDS LocalPool, TLC

None == {}
OneTick == {1}
TwoTicks == {2}
Symmetry == Permutations(Tasks)
=============================================================================
