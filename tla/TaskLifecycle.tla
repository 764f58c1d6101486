--------------------------- MODULE TaskLifecycle ---------------------------
(***************************************************************************)
(* The life of a task as the protocol has it, whatever the number of       *)
(* sessions, worker threads and administration requests behind it: a task  *)
(* is created once, moves only along the transitions                       *)
(* CanTransitionTaskState allows, never leaves a terminal state, and is    *)
(* not handed out before the task it was chained to has succeeded.         *)
(***************************************************************************)
CONSTANTS Tasks,  \* the task identifiers (UUIDs) the server may ever generate
          Nil     \* SQL null

VARIABLES status,  \* status[t]: "none" until t is created, then its task state
          after    \* after[t]: the task t is chained to, or Nil

lifecycleVars == <<status, after>>

Terminal == {"succeeded", "failed", "expired"}

(* The switch of CanTransitionTaskState.  (The same-state case its first   *)
(* test refuses is not in the relation either.)                            *)
CanTransition(from, to) ==
  \/ from = "queued"   /\ to = "assigned"
  \/ from = "assigned" /\ to \in {"running", "expired"}
  \/ from = "running"  /\ to \in Terminal

----------------------------------------------------------------------------
LifecycleInit ==
  /\ status = [t \in Tasks |-> "none"]
  /\ after = [t \in Tasks |-> Nil]

(* One request creates a task t, or a chain: p first and then t.           *)
Create(t, p) ==
  /\ status[t] = "none"
  /\ \/ /\ p = Nil
        /\ status' = [status EXCEPT ![t] = "queued"]
        /\ UNCHANGED after
     \/ /\ p \in Tasks \ {t}
        /\ status[p] = "none"
        /\ status' = [status EXCEPT ![t] = "queued", ![p] = "queued"]
        /\ after' = [after EXCEPT ![t] = p]

Advance(t, to) ==
  /\ CanTransition(status[t], to)
  /\ to = "assigned" /\ after[t] # Nil => status[after[t]] = "succeeded"
  /\ status' = [status EXCEPT ![t] = to]
  /\ UNCHANGED after

LifecycleNext ==
  \/ \E t \in Tasks, p \in Tasks \cup {Nil} : Create(t, p)
  \/ \E t \in Tasks : Advance(t, status'[t])

LifecycleSpec == LifecycleInit /\ [][LifecycleNext]_lifecycleVars
=============================================================================
