-------------------------- MODULE MCControlSession --------------------------
(* ControlSession on small sets, for the runs of its safety and liveness. *)
EXTENDS ControlSession, TLC

Symmetry == Permutations(Tasks)
=============================================================================
