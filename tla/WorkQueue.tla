----------------------------- MODULE WorkQueue -----------------------------
(***************************************************************************)
(* What a queue of work with its threads promises.  The server has two of  *)
(* them, built alike around a mutex, a condition variable and a flag: the  *)
(* worker pool of the control server, with several threads, and the write  *)
(* actor of the database, with one.                                        *)
(*                                                                         *)
(* Work handed in before the stop is done before the last thread ends,     *)
(* first come, first taken; work handed in later is refused.               *)
(***************************************************************************)
EXTENDS Sequences, Functions

CONSTANTS
  Threads,   \* threads that take from the queue
  Jobs       \* pieces of work, each handed in at most once

VARIABLES
  queue,     \* tasks_, write_queue_
  running,   \* running[w]: what thread w is at, a set of at most one job
  finished,  \* jobs that were run to their end
  refused,   \* jobs handed in when the stop had begun
  ended,     \* threads that have returned
  stopping   \* stopping_, write_actor_stopping_

vars == <<queue, running, finished, refused, ended, stopping>>

Submitted ==
  Range(queue) \cup (UNION {running[w] : w \in Threads}) \cup finished \cup refused

Init ==
  /\ queue = <<>>
  /\ running = [w \in Threads |-> {}]
  /\ finished = {} /\ refused = {} /\ ended = {}
  /\ stopping = FALSE

(* Submit, SubmitWrite, SubmitWriteAsync, under the mutex. *)
Submit(j) ==
  /\ j \notin Submitted
  /\ IF stopping
     THEN refused' = refused \cup {j} /\ UNCHANGED queue
     ELSE queue' = Append(queue, j) /\ UNCHANGED refused
  /\ UNCHANGED <<running, finished, ended, stopping>>

(* RunWorker, RunWriteActor: the wait ends with something to do. *)
Take(w) ==
  /\ running[w] = {} /\ w \notin ended
  /\ queue # <<>>
  /\ running' = [running EXCEPT ![w] = {Head(queue)}]
  /\ queue' = Tail(queue)
  /\ UNCHANGED <<finished, refused, ended, stopping>>

(* The task returned, or threw; both are answers to whoever waits for it. *)
Finish(w) ==
  /\ running[w] # {}
  /\ finished' = finished \cup running[w]
  /\ running' = [running EXCEPT ![w] = {}]
  /\ UNCHANGED <<queue, refused, ended, stopping>>

(* The wait ends with nothing to do: the thread returns. *)
End(w) ==
  /\ running[w] = {} /\ w \notin ended
  /\ stopping /\ queue = <<>>
  /\ ended' = ended \cup {w}
  /\ UNCHANGED <<queue, running, finished, refused, stopping>>

Stop ==
  /\ ~stopping
  /\ stopping' = TRUE
  /\ UNCHANGED <<queue, running, finished, refused, ended>>

Next ==
  \/ \E j \in Jobs : Submit(j)
  \/ \E w \in Threads : Take(w) \/ Finish(w) \/ End(w)
  \/ Stop

Spec == Init /\ [][Next]_vars

----------------------------------------------------------------------------
(* No job is run twice: it is in one place, and at one place in the queue, *)
(* whichever threads take and hand in at the same time.                    *)
RunOnce ==
  /\ \A i, k \in 1..Len(queue) : queue[i] = queue[k] => i = k
  /\ \A w \in Threads : \A j \in running[w] :
       /\ j \notin Range(queue) \cup finished
       /\ \A v \in Threads : j \in running[v] => v = w
  /\ Range(queue) \cap finished = {}

(* The join of Stop returns with no accepted work left undone. *)
NothingLeft ==
  (Threads # {} /\ ended = Threads) => Submitted = finished \cup refused
=============================================================================
