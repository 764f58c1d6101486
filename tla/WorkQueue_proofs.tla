-------------------------- MODULE WorkQueue_proofs --------------------------
(* A queue of work with its threads keeps its two promises, for any number *)
(* of threads and jobs.                                                    *)
EXTENDS WorkQueue, Naturals, TLAPS

TypeOK ==
  /\ queue \in Seq(Jobs)
  /\ running \in [Threads -> SUBSET Jobs]
  /\ finished \subseteq Jobs /\ refused \subseteq Jobs
  /\ ended \subseteq Threads /\ stopping \in BOOLEAN

(* A job in the queue is there once and nowhere else. *)
QueuedOnce ==
  /\ \A i, k \in 1..Len(queue) : queue[i] = queue[k] => i = k
  /\ \A i \in 1..Len(queue) :
       /\ queue[i] \notin finished
       /\ \A w \in Threads : queue[i] \notin running[w]

(* A running job is with one thread and is not finished. *)
RunningOnce ==
  \A w \in Threads : \A j \in running[w] :
    /\ j \notin finished
    /\ \A v \in Threads : j \in running[v] => v = w

(* A thread ends only when the queue can stay empty. *)
EndedWell ==
  /\ \A w \in ended : running[w] = {}
  /\ ended # {} => stopping /\ queue = <<>>

Inv == TypeOK /\ QueuedOnce /\ RunningOnce /\ EndedWell

LEMMA SetOfSequence ==
  ASSUME NEW s \in Seq(Jobs)
  PROVE  /\ \A i \in 1..Len(s) : s[i] \in Range(s)
         /\ \A x \in Range(s) : \E i \in 1..Len(s) : s[i] = x
  BY DEF Range

LEMMA InitInv == Init => Inv
<1> SUFFICES ASSUME Init PROVE Inv
  OBVIOUS
<1>1. TypeOK
  <2>1. queue \in Seq(Jobs)
    BY DEF Init
  <2>2. running \in [Threads -> SUBSET Jobs]
    BY DEF Init
  <2> QED BY <2>1, <2>2 DEF Init, TypeOK
<1>2. QueuedOnce
  BY DEF Init, QueuedOnce
<1>3. RunningOnce /\ EndedWell
  BY DEF Init, RunningOnce, EndedWell
<1> QED BY <1>1, <1>2, <1>3 DEF Inv

(* Appended is a job that was nowhere before. *)
LEMMA SubmitInv ==
  ASSUME Inv, NEW j \in Jobs, Submit(j)
  PROVE  Inv'
<1>1. CASE stopping
  BY <1>1 DEF Submit, Inv, TypeOK, QueuedOnce, RunningOnce, EndedWell
<1>2. CASE ~stopping
  <2>1. /\ queue' = Append(queue, j) /\ refused' = refused
        /\ running' = running /\ finished' = finished /\ ended' = ended
        /\ stopping' = stopping
    BY <1>2 DEF Submit
  <2>2. /\ j \notin finished
        /\ \A w \in Threads : j \notin running[w]
    BY DEF Submit, Submitted
  <2>3. \A i \in 1..Len(queue) : queue[i] # j
    BY SetOfSequence DEF Submit, Submitted, Inv, TypeOK
  <2>4. queue \in Seq(Jobs)
    BY DEF Inv, TypeOK
  <2>5. /\ Len(queue') = Len(queue) + 1
        /\ \A i \in 1..Len(queue) : queue'[i] = queue[i]
        /\ queue'[Len(queue) + 1] = j
    BY <2>1, <2>4
  <2>6. TypeOK'
    BY <2>1, <2>4 DEF Inv, TypeOK
  <2>7. QueuedOnce'
    BY <2>1, <2>2, <2>3, <2>4, <2>5 DEF Inv, QueuedOnce
  <2>8. RunningOnce' /\ EndedWell'
    BY <1>2, <2>1 DEF Inv, RunningOnce, EndedWell
  <2> QED BY <2>6, <2>7, <2>8 DEF Inv
<1> QED BY <1>1, <1>2

(* What is taken is the head, and the rest stays in order. *)
LEMMA TakeInv ==
  ASSUME Inv, NEW w \in Threads, Take(w)
  PROVE  Inv'
<1>1. /\ queue \in Seq(Jobs) /\ queue # <<>>
      /\ running \in [Threads -> SUBSET Jobs]
  BY DEF Inv, TypeOK, Take
<1>2. /\ queue' = Tail(queue)
      /\ running' = [running EXCEPT ![w] = {Head(queue)}]
      /\ finished' = finished /\ refused' = refused /\ ended' = ended
      /\ stopping' = stopping /\ running[w] = {} /\ w \notin ended
  BY DEF Take
<1>3. /\ Head(queue) = queue[1] /\ 1 \in 1..Len(queue)
      /\ Len(queue') = Len(queue) - 1
      /\ \A i \in 1..Len(queue') : queue'[i] = queue[i + 1] /\ i + 1 \in 1..Len(queue)
      /\ queue' \in Seq(Jobs) /\ Head(queue) \in Jobs
  BY <1>1, <1>2
<1>4. \A v \in Threads : running'[v] = IF v = w THEN {queue[1]} ELSE running[v]
  BY <1>1, <1>2, <1>3
<1>5. TypeOK'
  BY <1>1, <1>2, <1>3 DEF Inv, TypeOK
<1>6. QueuedOnce'
  <2>1. ASSUME NEW i \in 1..Len(queue'), NEW k \in 1..Len(queue'),
               queue'[i] = queue'[k]
        PROVE  i = k
    BY <1>3, <2>1 DEF Inv, QueuedOnce
  <2>2. ASSUME NEW i \in 1..Len(queue')
        PROVE  /\ queue'[i] \notin finished'
               /\ \A v \in Threads : queue'[i] \notin running'[v]
    <3>1. queue'[i] # queue[1]
      BY <1>3 DEF Inv, QueuedOnce
    <3> QED BY <1>2, <1>3, <1>4, <3>1 DEF Inv, QueuedOnce
  <2> QED BY <2>1, <2>2 DEF QueuedOnce
<1>7. RunningOnce'
  <2>1. queue[1] \notin finished /\ \A v \in Threads : queue[1] \notin running[v]
    BY <1>3 DEF Inv, QueuedOnce
  <2> QED BY <1>2, <1>4, <2>1 DEF Inv, RunningOnce
<1>8. EndedWell'
  BY <1>1, <1>2, <1>4 DEF Inv, EndedWell, TypeOK
<1> QED BY <1>5, <1>6, <1>7, <1>8 DEF Inv

LEMMA FinishInv ==
  ASSUME Inv, NEW w \in Threads, Finish(w)
  PROVE  Inv'
<1>1. /\ running \in [Threads -> SUBSET Jobs]
      /\ queue' = queue /\ refused' = refused /\ ended' = ended /\ stopping' = stopping
      /\ finished' = finished \cup running[w]
      /\ running' = [running EXCEPT ![w] = {}]
  BY DEF Inv, TypeOK, Finish
<1>2. \A v \in Threads : running'[v] = IF v = w THEN {} ELSE running[v]
  BY <1>1
<1>3. TypeOK'
  BY <1>1 DEF Inv, TypeOK
<1>4. QueuedOnce'
  BY <1>1, <1>2 DEF Inv, QueuedOnce
<1>5. RunningOnce'
  BY <1>1, <1>2 DEF Inv, RunningOnce
<1>6. EndedWell'
  BY <1>1, <1>2 DEF Inv, EndedWell, TypeOK
<1> QED BY <1>3, <1>4, <1>5, <1>6 DEF Inv

LEMMA NextInv == Inv /\ [Next]_vars => Inv'
<1> SUFFICES ASSUME Inv, [Next]_vars PROVE Inv'
  OBVIOUS
<1>1. ASSUME NEW j \in Jobs, Submit(j) PROVE Inv'
  BY <1>1, SubmitInv
<1>2. ASSUME NEW w \in Threads, Take(w) PROVE Inv'
  BY <1>2, TakeInv
<1>3. ASSUME NEW w \in Threads, Finish(w) PROVE Inv'
  BY <1>3, FinishInv
<1>4. ASSUME NEW w \in Threads, End(w) PROVE Inv'
  BY <1>4 DEF End, Inv, TypeOK, QueuedOnce, RunningOnce, EndedWell
<1>5. CASE Stop
  BY <1>5 DEF Stop, Inv, TypeOK, QueuedOnce, RunningOnce, EndedWell
<1>6. CASE UNCHANGED vars
  BY <1>6 DEF vars, Inv, TypeOK, QueuedOnce, RunningOnce, EndedWell
<1> QED BY <1>1, <1>2, <1>3, <1>4, <1>5, <1>6 DEF Next

LEMMA InvAlways == Spec => []Inv
  BY InitInv, NextInv, PTL DEF Spec

(* No work is run twice, by one thread or by two: neither an event of an   *)
(* agent nor a write of the database, whatever the number of threads.      *)
THEOREM RunOnceHolds == Spec => []RunOnce
<1>1. Inv => RunOnce
  <2> SUFFICES ASSUME Inv PROVE RunOnce
    OBVIOUS
  <2>1. /\ \A i \in 1..Len(queue) : queue[i] \in Range(queue)
        /\ \A x \in Range(queue) : \E i \in 1..Len(queue) : queue[i] = x
    BY SetOfSequence DEF Inv, TypeOK
  <2> QED BY <2>1 DEF Inv, QueuedOnce, RunningOnce, RunOnce
<1> QED BY <1>1, InvAlways, PTL

(* When the last thread has returned, all work that was accepted is done:  *)
(* nobody waits for an answer that will not come.                          *)
THEOREM NothingLeftHolds == Spec => []NothingLeft
<1>1. Inv => NothingLeft
  <2> SUFFICES ASSUME Inv, Threads # {}, ended = Threads
               PROVE  Submitted = finished \cup refused
    BY DEF NothingLeft
  <2>1. queue = <<>> /\ \A w \in Threads : running[w] = {}
    BY DEF Inv, EndedWell
  <2>2. Range(queue) = {}
    BY <2>1 DEF Range
  <2> QED BY <2>1, <2>2 DEF Submitted
<1> QED BY <1>1, InvAlways, PTL
=============================================================================
