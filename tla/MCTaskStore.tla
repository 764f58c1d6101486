---------------------------- MODULE MCTaskStore ----------------------------
(* TaskStore on small sets, with the interchangeable ones symmetric. *)
EXTENDS TaskStore, TLC

Symmetry == Permutations(Tasks) \cup Permutations(Workers)

(* Bound: the clock moves only while one of the workers is idle. *)
RacesOrTime == now = 0 \/ \E w \in Workers : job[w] = IdleJob
=============================================================================
