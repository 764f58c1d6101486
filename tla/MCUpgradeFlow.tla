--------------------------- MODULE MCUpgradeFlow ---------------------------
(* UpgradeFlow on small sets, with the interchangeable ones symmetric. *)
EXTENDS UpgradeFlow, TLC

Symmetry ==
  Permutations(Tasks) \cup Permutations(Workers) \cup Permutations(Procs)

(* No action reads the audit log. *)
WithoutAudit == <<now, row, state, result, agent, job, admin,
                  target, work, bound, active, previous, proc, done>>

(* Bound: once every task exists, a worker stays free. *)
WorkersToSpare ==
  \/ \E t \in Tasks : state[t] = "none"
  \/ \E w \in Workers : work[w].event = "none"

(* Bound: the clock moves only while a single task exists. *)
TimeForOne == now = 0 \/ \E t \in Tasks : state[t] = "none"
=============================================================================
