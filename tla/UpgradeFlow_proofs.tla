-------------------------- MODULE UpgradeFlow_proofs --------------------------
(***************************************************************************)
(* Theorems about UpgradeFlow, for any number of tasks, workers, versions  *)
(* and agent processes.  What TaskStore_proofs shows of the tables holds   *)
(* here too, once the host and the connections are shown to implement the  *)
(* store with reports in order; the invariant of the tables is part of the *)
(* one here, and not proved again.                                         *)
(***************************************************************************)
EXTENDS UpgradeFlow, Queues

P == INSTANCE TaskStore_proofs WITH Agents <- {Self}

(* The tables, under either name. *)
LEMMA SameConstants == P!ConstantsOK
BY StoreOK DEF Store!ConstantsOK, P!ConstantsOK, Store!Times, P!Times,
   Store!TaskRows, P!TaskRows, Store!Kinds, P!Kinds

(* Their types. *)
LEMMA SameTypes == P!TypeOK <=> Store!TypeOK
BY Zenon DEF
     Store!Times, P!Times, Store!Kinds, P!Kinds,
     Store!PackageUpdates, P!PackageUpdates, Store!TaskStates, P!TaskStates,
     Store!Terminal, P!Terminal, Store!Errors, P!Errors,
     Store!TaskRows, P!TaskRows, Store!AgentRows, P!AgentRows,
     Store!Reports, P!Reports, Store!IdleJob, P!IdleJob, Store!Jobs, P!Jobs,
     Store!IdleAdmin, P!IdleAdmin, Store!AdminJobs, P!AdminJobs,
     Store!AuditEvents, P!AuditEvents, Store!TypeOK, P!TypeOK

(* Their steps. *)
LEMMA SameSteps == /\ P!Next <=> Store!Next
                   /\ P!OrderlyNext <=> Store!OrderlyNext
                   /\ P!Init <=> Store!Init
                   /\ P!vars = Store!vars
BY DEF
     Store!Init, P!Init,
     Store!Times, P!Times, Store!Kinds, P!Kinds,
     Store!PackageUpdates, P!PackageUpdates, Store!Terminal, P!Terminal,
     Store!Errors, P!Errors, Store!TaskRows, P!TaskRows,
     Store!AgentRows, P!AgentRows, Store!Reports, P!Reports,
     Store!IdleJob, P!IdleJob, Store!Jobs, P!Jobs,
     Store!IdleAdmin, P!IdleAdmin, Store!AdminJobs, P!AdminJobs,
     Store!Unregistered, P!Unregistered, Store!Registered, P!Registered,
     Store!Chain, P!Chain, Store!NewRow, P!NewRow, Store!Settle, P!Settle,
     Store!ConfirmedUpgrade, P!ConfirmedUpgrade,
     Store!UpsertAgent, P!UpsertAgent, Store!EnqueueTask, P!EnqueueTask,
     Store!Claimable, P!Claimable,
     Store!ClaimNextTaskForAgent, P!ClaimNextTaskForAgent,
     Store!CheckRunning, P!CheckRunning, Store!Executed, P!Executed,
     Store!CheckResult, P!CheckResult, Store!Stored, P!Stored,
     Store!Refused, P!Refused, Store!MarkTaskRunning, P!MarkTaskRunning,
     Store!AfterResult, P!AfterResult,
     Store!AgentsAfterResult, P!AgentsAfterResult,
     Store!RecordTaskResult, P!RecordTaskResult,
     Store!AuditReport, P!AuditReport, Store!Overdue, P!Overdue,
     Store!AgentsAfterExpiry, P!AgentsAfterExpiry,
     Store!AdminRead, P!AdminRead, Store!AdminUpgrade, P!AdminUpgrade,
     Store!AdminRollback, P!AdminRollback, Store!Scheduled, P!Scheduled,
     Store!ScheduleAgentUpgrade, P!ScheduleAgentUpgrade,
     Store!ScheduleAgentRollback, P!ScheduleAgentRollback,
     Store!ClearDesired, P!ClearDesired, Store!Tick, P!Tick,
     Store!Restart, P!Restart, Store!AgentStep, P!AgentStep,
     Store!AnyResult, P!AnyResult, Store!ResultOfRunning, P!ResultOfRunning,
     Store!OrderlyNext, P!OrderlyNext,
     Store!WorkerStep, P!WorkerStep, Store!AdminStep, P!AdminStep,
     Store!Next, P!Next, Store!vars, P!vars, Store!dbVars, P!dbVars

----------------------------------------------------------------------------
(* The inductive invariant. *)

HostTypes ==
  /\ target \in [Tasks -> Versions \cup {Nil}]
  /\ work \in [Workers -> Requests]
  /\ bound \in Procs \cup {Nil, Lost}
  /\ active \in Versions
  /\ previous \in Versions \cup {Nil}
  /\ proc \in [Procs -> Processes]
  /\ done \subseteq Tasks

(* Process p has task t: in what it received, in what it decoded, or in    *)
(* its hands. *)
Received(p, t) == In(proc[p].inbox, t)

Decoded(p, t) == In(proc[p].batch, t)

Holds(p, t) == Received(p, t) \/ Decoded(p, t) \/ proc[p].task = t

About(w, t) == work[w].event = "report" /\ work[w].task = t

(* A request comes from a process that waits for its answer, one each; a   *)
(* request whose process is gone has lost its sender.                      *)
RequestOK(w) ==
  LET r == work[w]
      q == proc[r.from]
  IN
  /\ r.event = "register" => r.version \in Versions
  /\ r.event = "report" => r.task \in Tasks
  /\ r.from # Nil =>
       /\ \/ r.event = "register" /\ q.at = "registering"
          \/ /\ r.event = "report" /\ r.task = q.task
             /\ \/ r.report = "running" /\ q.at = "starting"
                \/ r.report = q.report /\ q.at = "reporting"
       /\ \A v \in Workers : work[v].from = r.from => v = w
  /\ job[w].stage # "idle" =>
       r.event = "report" /\ job[w].task = r.task /\ job[w].report = r.report

(* The only report about a task finds it as it was when the task was       *)
(* handed out, or when its execution began, until the report is written;   *)
(* and only the process that sent it has the task, if any.                 *)
ReportOK(w) ==
  LET t == work[w].task
      r == work[w].report
      stored == job[w].stage = "stored"
  IN
  work[w].event = "report" =>
    /\ r = "running" => state[t] = IF stored THEN "running" ELSE "assigned"
    /\ r # "running" => state[t] = IF stored THEN r ELSE "running"
    /\ r = "succeeded" => t \in done
    /\ \A v \in Workers : About(v, t) => v = w
    /\ \A p \in Procs : p # work[w].from => ~Holds(p, t)

ProcessOK(p) ==
  LET q == proc[p] IN
  /\ q.at \in {"starting", "reporting"} \cup Working <=> q.task # Nil
  /\ q.at \in Connected \cup {"offline"} => q.version \in Versions
  /\ q.at \in Working =>
       state[q.task] = "running" /\ \A w \in Workers : ~About(w, q.task)
  /\ q.at \in {"starting", "updating", "applied"} => q.task \notin done
  /\ q.at \in {"updated", "reporting"} /\ q.report = "succeeded" => q.task \in done

(* A task is with one process, in one place, and was handed out. *)
HeldOK(p, t) ==
  /\ Holds(p, t) =>
       /\ state[t] \notin {"none", "queued"}
       /\ \A q \in Procs : Holds(q, t) => q = p
  /\ Received(p, t) \/ Decoded(p, t) =>
       /\ state[t] = "assigned" /\ proc[p].task # t
       /\ \A w \in Workers : ~About(w, t)
  /\ ~(Received(p, t) /\ Decoded(p, t))
  /\ Once(proc[p].inbox, t) /\ Once(proc[p].batch, t)

(* What is done was handed out, a result that says so is right, and an     *)
(* upgrade names its version.                                              *)
TaskOK(t) ==
  /\ t \in done => state[t] \notin {"none", "queued", "assigned"}
  /\ result[t] = "succeeded" => t \in done
  /\ row[t] # Nil /\ row[t].kind = "agent" => target[t] \in Versions

Flow ==
  /\ \A w \in Workers : RequestOK(w) /\ ReportOK(w)
  /\ \A p \in Procs : ProcessOK(p) /\ \A t \in Tasks : HeldOK(p, t)
  /\ \A t \in Tasks : TaskOK(t)

FlowInv == P!TaskInv /\ HostTypes /\ Flow

(* What the tables' types say, under the names used here. *)
LEMMA StoreTypes ==
  ASSUME P!TaskInv
  PROVE  /\ Store!TypeOK
         /\ now \in 0..MaxTime
         /\ state \in [Tasks -> {"queued", "assigned", "running", "succeeded",
                                "failed", "expired", "none"}]
         /\ result \in [Tasks -> Store!Terminal \cup {"none"}]
         /\ DOMAIN row = Tasks /\ DOMAIN job = Workers
         /\ \A w \in Workers : job[w].stage \in {"idle", "checked", "stored"}
         /\ \A t \in Tasks : row[t] = Nil <=> state[t] = "none"
         /\ admin.op = "upgrade" => admin.version \in Versions
<1>1. P!TypeOK /\ Store!TypeOK
  BY SameTypes DEF P!TaskInv
<1>2. \A w \in Workers : job[w].stage \in {"idle", "checked", "stored"}
  BY <1>1, P!JobStages, SameConstants DEF P!TypeOK
<1>3. \A t \in Tasks : row[t] = Nil <=> state[t] = "none"
  BY DEF P!TaskInv, P!RowsOK
<1>4. admin.op = "upgrade" => admin.version \in Versions
  BY <1>1, P!AdminStages, SameConstants DEF P!TypeOK
<1> QED BY <1>1, <1>2, <1>3, <1>4
        DEF Store!TypeOK, Store!Times, Store!TaskStates, Store!Terminal

(* The invariant holds at first. *)
LEMMA InitFlow == Init => FlowInv
<1> SUFFICES ASSUME Init PROVE FlowInv
  OBVIOUS
<1>1. P!TaskInv
  <2>1. P!Init
    BY SameSteps DEF Init
  <2> QED BY <2>1, P!InitTaskInv, SameConstants
<1>2. NoRequest \in Requests /\ Absent \in Processes
  BY DEF NoRequest, Requests, Absent, Processes, Results
<1>3. active \in Versions
  <2>1. \E v \in Versions : \A u \in Versions : v <= u
    BY ProcsOK, StoreOK, LeastNumber DEF Store!ConstantsOK
  <2> QED BY <2>1 DEF Init
<1>4. HostTypes
  BY <1>2, <1>3 DEF Init, HostTypes
<1>5. Flow
  <2>1. /\ \A w \in Workers : work[w] = NoRequest /\ job[w].stage = "idle"
        /\ \A p \in Procs : proc[p] = Absent
        /\ done = {} /\ \A t \in Tasks : result[t] = "none" /\ row[t] = Nil
    BY DEF Init, Store!Init, Store!IdleJob
  <2>2. \A x : ~In(<<>>, x) /\ Once(<<>>, x)
    BY DEF In, Once
  <2>3. ASSUME NEW w \in Workers
        PROVE  RequestOK(w) /\ ReportOK(w)
    BY <2>1 DEF RequestOK, ReportOK, NoRequest
  <2>4. ASSUME NEW p \in Procs
        PROVE  ProcessOK(p) /\ \A t \in Tasks : HeldOK(p, t)
    <3>1. ProcessOK(p)
      BY <2>1 DEF ProcessOK, Absent, Working, Connected
    <3>2. Nil \notin Tasks
      BY StoreOK DEF Store!ConstantsOK
    <3> QED BY <2>1, <2>2, <3>1, <3>2 DEF HeldOK, Holds, Received, Decoded, Absent
  <2>5. ASSUME NEW t \in Tasks
        PROVE  TaskOK(t)
    BY <2>1 DEF TaskOK
  <2> QED BY <2>3, <2>4, <2>5 DEF Flow
<1> QED BY <1>1, <1>4, <1>5 DEF FlowInv

----------------------------------------------------------------------------
(* How the parts of Flow survive.  A request or report about which nothing *)
(* changed stays as it was. *)

StoreRest == UNCHANGED <<row, state, result, job>>

(* Whatever happens to one process while no request of its own is under    *)
(* way: it may lose what it had, but gains no task. *)
LEMMA ProcessMoves ==
  ASSUME FlowInv, NEW p \in Procs, StoreRest, UNCHANGED <<work, target>>,
         \A w \in Workers : work[w].from # p,
         \A q \in Procs \ {p} :
           /\ proc'[q].inbox = proc[q].inbox /\ proc'[q].batch = proc[q].batch
           /\ proc'[q].task = proc[q].task /\ proc'[q].report = proc[q].report
           /\ proc'[q].version = proc[q].version
           /\ \/ proc'[q].at = proc[q].at
              \/ proc[q].at = "absent" /\ proc'[q].at = "launching",
         \/ done' = done
         \/ proc[p].at \in Working /\ done' = done \cup {proc[p].task},
         \A t \in Tasks : /\ Holds(p, t)' => Holds(p, t)
                          /\ Received(p, t)' \/ Decoded(p, t)' =>
                               Received(p, t) \/ Decoded(p, t)
                          /\ ~(Received(p, t)' /\ Decoded(p, t)')
                          /\ Once(proc'[p].inbox, t) /\ Once(proc'[p].batch, t),
         proc'[p].task \in {proc[p].task, Nil},
         ProcessOK(p)'
  PROVE  Flow'
<1> USE DEF FlowInv, StoreRest
<1>0. Flow /\ P!TaskInv /\ HostTypes
  OBVIOUS
<1>1. /\ \A w \in Workers : RequestOK(w) /\ ReportOK(w)
      /\ \A q \in Procs : ProcessOK(q) /\ \A t \in Tasks : HeldOK(q, t)
      /\ \A t \in Tasks : TaskOK(t)
  BY DEF Flow
<1>2. /\ \A w, t : About(w, t)' <=> About(w, t)
      /\ \A q \in Procs \ {p} : \A t : /\ Received(q, t)' <=> Received(q, t)
                                       /\ Decoded(q, t)' <=> Decoded(q, t)
                                       /\ Holds(q, t)' <=> Holds(q, t)
  BY DEF About, Received, Decoded, Holds
<1>3. ASSUME NEW w \in Workers
      PROVE  RequestOK(w)' /\ ReportOK(w)'
  <2>1. work[w].event = "report" => work[w].task \in Tasks
    BY <1>1 DEF RequestOK
  <2>2. work[w].from # Nil => work[w].from \in Procs \ {p}
    BY <1>0 DEF HostTypes, Requests
  <2>3. RequestOK(w)'
    BY <1>1, <2>2 DEF RequestOK
  <2>4. ReportOK(w)'
    BY <1>1, <1>2, <2>1 DEF ReportOK
  <2> QED BY <2>3, <2>4
<1>4. ASSUME NEW q \in Procs \ {p}
      PROVE  ProcessOK(q)'
  <2>1. ProcessOK(q)
    BY <1>1
  <2>2. done' = done \/ (Holds(p, proc[p].task) /\ proc[p].task \in Tasks
                           /\ done' = done \cup {proc[p].task})
    <3>1. proc[p].task \in Tasks \cup {Nil}
      BY <1>0 DEF HostTypes, Processes
    <3>2. ProcessOK(p)
      BY <1>1
    <3> QED BY <3>1, <3>2 DEF ProcessOK, Holds
  <2>3. \A t \in Tasks : Holds(p, t) => proc[q].task # t
    BY <1>1 DEF HeldOK, Holds
  <2> QED BY <1>2, <2>1, <2>2, <2>3 DEF ProcessOK, Connected, Working
<1>5. ASSUME NEW q \in Procs, NEW t \in Tasks
      PROVE  HeldOK(q, t)'
  <2>1. HeldOK(q, t) /\ HeldOK(p, t)
    BY <1>1
  <2>2. Nil \notin Tasks
    BY StoreOK DEF Store!ConstantsOK
  <2> QED BY <1>2, <2>1, <2>2 DEF HeldOK
<1>6. ASSUME NEW t \in Tasks
      PROVE  TaskOK(t)'
  <2>1. TaskOK(t) /\ ProcessOK(p)
    BY <1>1
  <2> QED BY <2>1 DEF TaskOK, ProcessOK
<1> QED BY <1>1, <1>3, <1>4, <1>5, <1>6 DEF Flow

(* A process whose connection or life ends: its request goes on without    *)
(* it, and it has no task any more. *)
LEMMA ProcessGone ==
  ASSUME FlowInv, NEW p \in Procs, StoreRest, UNCHANGED <<target, done>>,
         work' = Orphaned(p),
         \A q \in Procs \ {p} : proc'[q] = proc[q],
         proc'[p].inbox = <<>>, proc'[p].batch = <<>>, proc'[p].task = Nil,
         \/ proc'[p].at = "absent"
         \/ proc'[p].at = "offline" /\ proc'[p].version \in Versions
  PROVE  Flow'
<1> USE DEF FlowInv, StoreRest
<1>0. P!TaskInv /\ HostTypes
  OBVIOUS
<1>1. /\ \A w \in Workers : RequestOK(w) /\ ReportOK(w)
      /\ \A q \in Procs : ProcessOK(q) /\ \A t \in Tasks : HeldOK(q, t)
      /\ \A t \in Tasks : TaskOK(t)
  BY DEF Flow
<1>2. \A w \in Workers :
        /\ work'[w].event = work[w].event /\ work'[w].version = work[w].version
        /\ work'[w].task = work[w].task /\ work'[w].report = work[w].report
        /\ work'[w].from = IF work[w].from = p THEN Nil ELSE work[w].from
  <2>1. ASSUME NEW w \in Workers
        PROVE  /\ work'[w].event = work[w].event /\ work'[w].version = work[w].version
               /\ work'[w].task = work[w].task /\ work'[w].report = work[w].report
               /\ work'[w].from = IF work[w].from = p THEN Nil ELSE work[w].from
    <3>1. work[w] \in Requests
      BY <1>0 DEF HostTypes
    <3>2. work'[w] = IF work[w].from = p THEN [work[w] EXCEPT !.from = Nil] ELSE work[w]
      BY DEF Orphaned
    <3> QED BY <3>1, <3>2 DEF Requests
  <2> QED BY <2>1
<1>3. /\ Nil \notin Tasks /\ Nil \notin Procs
      /\ \A t \in Tasks : ~Received(p, t)' /\ ~Decoded(p, t)' /\ ~Holds(p, t)'
      /\ \A t : Once(proc'[p].inbox, t) /\ Once(proc'[p].batch, t)
  BY ProcsOK, StoreOK DEF Store!ConstantsOK, Received, Decoded, Holds, In, Once
<1>4. /\ \A w \in Workers : \A t : About(w, t)' <=> About(w, t)
      /\ \A q \in Procs \ {p} : \A t : /\ Received(q, t)' <=> Received(q, t)
                                       /\ Decoded(q, t)' <=> Decoded(q, t)
                                       /\ Holds(q, t)' <=> Holds(q, t)
  BY <1>2 DEF About, Received, Decoded, Holds
<1>5. ASSUME NEW w \in Workers
      PROVE  RequestOK(w)' /\ ReportOK(w)'
  <2>1. work[w].event = "report" => work[w].task \in Tasks
    BY <1>1 DEF RequestOK
  <2>2. work[w].from \in Procs \cup {Nil}
    BY <1>0 DEF HostTypes, Requests
  <2>3. RequestOK(w)'
    <3>1. RequestOK(w)
      BY <1>1
    <3>2. \A v \in Workers : work'[v].from = work'[w].from /\ work'[w].from # Nil =>
            work[v].from = work[w].from /\ work[w].from # Nil
      BY <1>2, <1>3
    <3>3. work'[w].from # Nil => work[w].from # p /\ work'[w].from = work[w].from
      BY <1>2
    <3> QED BY <1>2, <2>2, <3>1, <3>2, <3>3 DEF RequestOK
  <2>4. ReportOK(w)'
    BY <1>1, <1>2, <1>3, <1>4, <2>1 DEF ReportOK
  <2> QED BY <2>3, <2>4
<1>6. ASSUME NEW q \in Procs
      PROVE  ProcessOK(q)'
  <2>1. ProcessOK(q)
    BY <1>1
  <2>2. CASE q # p
    BY <1>4, <2>1, <2>2 DEF ProcessOK
  <2>3. CASE q = p
    BY <2>3 DEF ProcessOK, Connected, Working
  <2> QED BY <2>2, <2>3
<1>7. ASSUME NEW q \in Procs, NEW t \in Tasks
      PROVE  HeldOK(q, t)'
  <2>1. HeldOK(q, t)
    BY <1>1
  <2> QED BY <1>3, <1>4, <2>1 DEF HeldOK
<1>8. \A t \in Tasks : TaskOK(t)'
  BY <1>1 DEF TaskOK
<1> QED BY <1>5, <1>6, <1>7, <1>8 DEF Flow

(* A request that a process posts: a registration, or a report about a     *)
(* task that is in its hands from then on. *)
LEMMA RequestPosted ==
  ASSUME FlowInv, NEW p \in Procs, NEW w \in Workers, NEW e, NEW t, NEW r,
         StoreRest, UNCHANGED <<target, done>>,
         work[w].event = "none",
         work' = [work EXCEPT ![w] = [event |-> e, from |-> p,
                    version |-> proc[p].version, task |-> t, report |-> r]],
         \A q \in Procs \ {p} : proc'[q] = proc[q],
         proc'[p].inbox = proc[p].inbox,
         \A u \in Tasks : /\ Decoded(p, u)' => Decoded(p, u)
                          /\ Once(proc'[p].batch, u),
         \A v \in Workers : work[v].from # p,
         \/ /\ e = "register" /\ proc'[p].at = "registering"
            /\ proc[p].version \in Versions /\ proc'[p].task = proc[p].task
         \/ /\ e = "report" /\ t \in Tasks /\ Holds(p, t) /\ proc'[p].task = t
            /\ ~Received(p, t)' /\ ~Decoded(p, t)'
            /\ \A v \in Workers : ~About(v, t)
            /\ \/ r = "running" /\ proc'[p].at = "starting" /\ state[t] = "assigned"
               \/ /\ r \in Results /\ r = proc'[p].report /\ proc'[p].at = "reporting"
                  /\ state[t] = "running" /\ (r = "succeeded" => t \in done),
         ProcessOK(p)'
  PROVE  Flow'
<1> USE DEF FlowInv, StoreRest
<1>0. P!TaskInv /\ HostTypes
  OBVIOUS
<1>1. /\ \A v \in Workers : RequestOK(v) /\ ReportOK(v)
      /\ \A q \in Procs : ProcessOK(q) /\ \A u \in Tasks : HeldOK(q, u)
      /\ \A u \in Tasks : TaskOK(u)
  BY DEF Flow
<1>2. /\ work'[w].event = e /\ work'[w].from = p /\ work'[w].version = proc[p].version
      /\ work'[w].task = t /\ work'[w].report = r
      /\ \A v \in Workers \ {w} : work'[v] = work[v]
  BY <1>0 DEF HostTypes
<1>3. /\ Nil \notin Tasks /\ Nil \notin Procs
      /\ job[w].stage = "idle"
      /\ \A u \in Tasks : Received(p, u)' <=> Received(p, u)
      /\ \A u \in Tasks : Holds(p, u)' => Holds(p, u)
  <2>1. job[w].stage \in {"idle", "checked", "stored"} /\ RequestOK(w)
    BY <1>0, <1>1, StoreTypes
  <2>2. job[w].stage = "idle"
    BY <2>1 DEF RequestOK
  <2>3. \A u \in Tasks : Received(p, u)' <=> Received(p, u)
    BY DEF Received
  <2> QED BY <2>2, <2>3, ProcsOK, StoreOK DEF Store!ConstantsOK, Holds
<1>4. /\ \A v \in Workers \ {w} : \A u : About(v, u)' <=> About(v, u)
      /\ \A u \in Tasks : About(w, u)' <=> e = "report" /\ u = t
      /\ \A u \in Tasks : ~About(w, u)
      /\ \A q \in Procs \ {p} : \A u : /\ Received(q, u)' <=> Received(q, u)
                                       /\ Decoded(q, u)' <=> Decoded(q, u)
                                       /\ Holds(q, u)' <=> Holds(q, u)
  BY <1>2 DEF About, Received, Decoded, Holds
<1>5. ASSUME NEW v \in Workers
      PROVE  RequestOK(v)' /\ ReportOK(v)'
  <2>1. CASE v = w
    <3>1. RequestOK(w)'
      BY <1>2, <1>3 DEF RequestOK
    <3>2. ReportOK(w)'
      <4>1. e = "report" => \A q \in Procs : q # p => ~Holds(q, t)
        BY <1>1 DEF HeldOK
      <4> QED BY <1>2, <1>3, <1>4, <4>1 DEF ReportOK, Results
    <3> QED BY <2>1, <3>1, <3>2
  <2>2. CASE v # w
    <3>1. work[v].event = "report" => work[v].task \in Tasks
      BY <1>1 DEF RequestOK
    <3>2. work[v].from # Nil => work[v].from \in Procs \ {p}
      BY <1>0 DEF HostTypes, Requests
    <3>3. RequestOK(v)'
      BY <1>1, <1>2, <2>2, <3>2 DEF RequestOK
    <3>4. ReportOK(v)'
      <4>1. work[v].event = "report" /\ e = "report" => work[v].task # t
        BY DEF About
      <4> QED BY <1>1, <1>2, <1>3, <1>4, <2>2, <3>1, <4>1 DEF ReportOK
    <3> QED BY <3>3, <3>4
  <2> QED BY <2>1, <2>2
<1>6. ASSUME NEW q \in Procs
      PROVE  ProcessOK(q)'
  <2>1. CASE q # p
    <3>1. ProcessOK(q) /\ proc'[q] = proc[q]
      BY <1>1, <2>1
    <3>2. proc[q].at \in Working => proc[q].task \in Tasks
      BY <1>0, <3>1 DEF HostTypes, Processes, ProcessOK
    <3>3. \A u \in Tasks : proc[q].task = u /\ e = "report" => u # t
      BY <1>1, <2>1 DEF HeldOK, Holds
    <3> QED BY <1>4, <3>1, <3>2, <3>3 DEF ProcessOK
  <2> QED BY <2>1
<1>7. ASSUME NEW q \in Procs, NEW u \in Tasks
      PROVE  HeldOK(q, u)'
  <2>1. HeldOK(q, u) /\ HeldOK(p, u)
    BY <1>1
  <2>2. CASE q = p
    <3>1. e = "report" /\ (Received(p, u)' \/ Decoded(p, u)') => u # t
      OBVIOUS
    <3>2. Received(p, u)' \/ Decoded(p, u)' => proc'[p].task # u
      BY <1>3, <2>1, <3>1 DEF HeldOK
    <3> QED BY <1>3, <1>4, <2>1, <2>2, <3>1, <3>2 DEF HeldOK
  <2>3. CASE q # p
    <3>1. e = "report" /\ Holds(q, u) => u # t
      BY <2>1, <2>3 DEF HeldOK
    <3>2. proc'[q] = proc[q]
      BY <2>3
    <3>3. Received(q, u) \/ Decoded(q, u) => Holds(q, u)
      BY DEF Holds
    <3> QED BY <1>3, <1>4, <2>1, <2>3, <3>1, <3>2, <3>3 DEF HeldOK
  <2> QED BY <2>2, <2>3
<1>8. \A u \in Tasks : TaskOK(u)'
  BY <1>1 DEF TaskOK
<1> QED BY <1>5, <1>6, <1>7, <1>8 DEF Flow

(* What an answer makes of a process. *)
LEMMA AnswerEffect ==
  ASSUME FlowInv, NEW w \in Workers, NEW ok \in BOOLEAN, Answer(w, ok)
  PROVE  /\ work'[w] = NoRequest
         /\ \A v \in Workers \ {w} : work'[v] = work[v]
         /\ work[w].from = Nil => proc' = proc
         /\ work[w].from # Nil =>
              /\ work[w].from \in Procs
              /\ \A q \in Procs \ {work[w].from} : proc'[q] = proc[q]
              /\ proc'[work[w].from] = IF ok THEN Accepted(proc[work[w].from])
                                             ELSE Disconnected(proc[work[w].from])
<1>1. HostTypes
  BY DEF FlowInv
<1>2. work[w].from \in Procs \cup {Nil}
  BY <1>1 DEF HostTypes, Requests
<1>3. CASE work[w].from = Nil
  BY <1>1, <1>2, <1>3 DEF HostTypes, Answer
<1>4. CASE work[w].from # Nil
  <2> DEFINE p == work[w].from
             q == IF ok THEN Accepted(proc[p]) ELSE Disconnected(proc[p])
  <2>1. p \in Procs /\ proc' = [proc EXCEPT ![p] = q] /\ work' = [work EXCEPT ![w] = NoRequest]
    BY <1>2, <1>4 DEF Answer
  <2> HIDE DEF q
  <2>2. proc'[p] = q
    BY <1>1, <2>1 DEF HostTypes
  <2>3. \A d \in Procs \ {p} : proc'[d] = proc[d]
    BY <1>1, <2>1 DEF HostTypes
  <2> QED BY <1>1, <1>4, <2>1, <2>2, <2>3 DEF HostTypes, q
<1> QED BY <1>3, <1>4

(* The fields of a process after an answer, or without its connection. *)
LEMMA AcceptedFields ==
  ASSUME NEW q \in Processes
  PROVE  /\ Accepted(q) \in Processes
         /\ Accepted(q).inbox = q.inbox /\ Accepted(q).batch = q.batch
         /\ Accepted(q).version = q.version
         /\ q.at = "starting" => /\ Accepted(q).at = "updating"
                                 /\ Accepted(q).task = q.task
         /\ q.at = "registering" => /\ Accepted(q).at = "serving"
                                    /\ Accepted(q).task = q.task
         /\ q.at \notin {"starting", "registering"} =>
              Accepted(q).at = "serving" /\ Accepted(q).task = Nil
<1>1. CASE q.at = "registering"
  <2> DEFINE r == [q EXCEPT !.at = "serving", !.linked = TRUE]
  <2>1. /\ r \in Processes /\ r.inbox = q.inbox /\ r.batch = q.batch
        /\ r.version = q.version /\ r.at = "serving" /\ r.task = q.task
    BY DEF Processes, Connected
  <2>2. Accepted(q) = r
    BY <1>1 DEF Accepted
  <2> HIDE DEF r
  <2> QED BY <1>1, <2>1, <2>2
<1>2. CASE q.at = "starting"
  <2> DEFINE r == [q EXCEPT !.at = "updating"]
  <2>1. /\ r \in Processes /\ r.inbox = q.inbox /\ r.batch = q.batch
        /\ r.version = q.version /\ r.at = "updating" /\ r.task = q.task
    BY DEF Processes, Connected, Working
  <2>2. Accepted(q) = r
    BY <1>2 DEF Accepted
  <2> HIDE DEF r
  <2> QED BY <1>2, <2>1, <2>2
<1>3. CASE q.at \notin {"starting", "registering"}
  <2> DEFINE b == q.stop \/ (q.report = "succeeded" /\ RestartsAgent(q.task))
             r == [q EXCEPT !.at = "serving", !.task = Nil, !.report = "failed",
                            !.stop = b]
  <2>1. b \in BOOLEAN
    OBVIOUS
  <2>2. Accepted(q) = r
    BY <1>3 DEF Accepted
  <2> HIDE DEF b
  <2>3. /\ r \in Processes /\ r.inbox = q.inbox /\ r.batch = q.batch
        /\ r.version = q.version /\ r.at = "serving" /\ r.task = Nil
    BY <2>1 DEF Processes, Connected, Results
  <2> HIDE DEF r
  <2> QED BY <1>3, <2>2, <2>3
<1> QED BY <1>1, <1>2, <1>3

(* See above. *)
LEMMA DisconnectedFields ==
  ASSUME NEW q \in Processes
  PROVE  /\ Disconnected(q) \in Processes
         /\ q.at \in Working =>
              /\ Disconnected(q).at = q.at /\ Disconnected(q).task = q.task
              /\ Disconnected(q).inbox = q.inbox /\ Disconnected(q).batch = q.batch
              /\ Disconnected(q).version = q.version
              /\ Disconnected(q).report = q.report
         /\ q.at \notin Working =>
              /\ Disconnected(q).inbox = <<>> /\ Disconnected(q).batch = <<>>
              /\ Disconnected(q).task = Nil
              /\ \/ Disconnected(q).at = "absent"
                 \/ Disconnected(q).at = "offline" /\ Disconnected(q).version = q.version
<1>1. CASE q.at \in Working
  <2> DEFINE r == [q EXCEPT !.linked = FALSE]
  <2>1. /\ r \in Processes /\ r.inbox = q.inbox /\ r.batch = q.batch
        /\ r.version = q.version /\ r.at = q.at /\ r.task = q.task
        /\ r.report = q.report
    BY DEF Processes
  <2>2. Disconnected(q) = r
    BY <1>1 DEF Disconnected
  <2> HIDE DEF r
  <2> QED BY <1>1, <2>1, <2>2
<1>2. CASE q.at \notin Working
  <2> DEFINE r == [Absent EXCEPT !.at = "offline", !.version = q.version]
  <2>1. Absent \in Processes
    BY DEF Absent, Processes, Results
  <2>3. Disconnected(q) \in {Absent, r}
    BY <1>2 DEF Disconnected
  <2>4. Absent.at = "absent" /\ Absent.inbox = <<>> /\ Absent.batch = <<>> /\ Absent.task = Nil
    BY DEF Absent
  <2>2. /\ r \in Processes /\ r.inbox = <<>> /\ r.batch = <<>> /\ r.task = Nil
        /\ r.at = "offline" /\ r.version = q.version
    <3>1. q.version \in Versions \cup {Nil}
      BY DEF Processes
    <3> HIDE DEF Absent
    <3> QED BY <2>1, <2>4, <3>1 DEF Processes
  <2> HIDE DEF r
  <2> QED BY <1>2, <2>1, <2>2, <2>3, <2>4
<1> QED BY <1>1, <1>2

(* An answer ends the request, and its process goes on, or goes offline. *)
LEMMA RequestAnswered ==
  ASSUME FlowInv, NEW w \in Workers, NEW ok \in BOOLEAN, Answer(w, ok),
         UNCHANGED <<row, state, result, target, done>>,
         work[w].event \in {"register", "report"},
         job'[w].stage = "idle", \A v \in Workers \ {w} : job'[v] = job[v],
         ok /\ work[w].event = "report" => job[w].stage = "stored"
  PROVE  Flow'
<1> USE DEF FlowInv
<1>0. P!TaskInv /\ HostTypes
  OBVIOUS
<1>1. /\ \A v \in Workers : RequestOK(v) /\ ReportOK(v)
      /\ \A q \in Procs : ProcessOK(q) /\ \A u \in Tasks : HeldOK(q, u)
      /\ \A u \in Tasks : TaskOK(u)
  BY DEF Flow
<1> DEFINE p == work[w].from
<1>2. /\ work'[w].event = "none" /\ work'[w].from = Nil
      /\ \A v \in Workers \ {w} : work'[v] = work[v]
      /\ p = Nil \/ p \in Procs
      /\ \A q \in Procs : q # p => proc'[q] = proc[q]
      /\ Nil \notin Tasks /\ Nil \notin Procs
  BY AnswerEffect, ProcsOK, StoreOK DEF NoRequest, Store!ConstantsOK
<1>3. ASSUME p # Nil
      PROVE  /\ \/ proc'[p].inbox = proc[p].inbox /\ proc'[p].batch = proc[p].batch
                \/ proc'[p].inbox = <<>> /\ proc'[p].batch = <<>>
             /\ proc'[p].task \in {proc[p].task, Nil}
             /\ \/ /\ work[w].event = "report" /\ work[w].report = "running"
                   /\ proc[p].at = "starting" /\ proc'[p].at = "updating"
                   /\ job[w].stage = "stored"
                   /\ proc'[p].task = proc[p].task /\ proc'[p].task # Nil
                   /\ proc'[p].task = work[w].task
                \/ proc'[p].at \in {"serving", "absent", "offline"} /\ proc'[p].task = Nil
             /\ proc'[p].at # "absent" => proc'[p].version \in Versions
  <2>1. /\ p \in Procs /\ proc[p] \in Processes
        /\ RequestOK(w) /\ ProcessOK(p)
        /\ proc'[p] = IF ok THEN Accepted(proc[p]) ELSE Disconnected(proc[p])
    BY <1>0, <1>1, <1>2, <1>3, AnswerEffect DEF HostTypes
  <2>2. /\ \/ proc[p].at = "registering" /\ work[w].event = "register"
           \/ /\ proc[p].at = "starting" /\ work[w].event = "report"
              /\ work[w].report = "running" /\ work[w].task = proc[p].task
           \/ proc[p].at = "reporting" /\ work[w].event = "report"
        /\ proc[p].at = "registering" => proc[p].task = Nil
        /\ proc[p].at = "starting" => proc[p].task # Nil
        /\ proc[p].version \in Versions
        /\ proc[p].at \notin Working
    BY <1>3, <2>1 DEF RequestOK, ProcessOK, Connected, Working
  <2>3. CASE ok
    BY <2>1, <2>2, <2>3, AcceptedFields
  <2>4. CASE ~ok
    BY <2>1, <2>2, <2>4, DisconnectedFields
  <2> QED BY <2>3, <2>4
<1> HIDE DEF p
<1>4. \A q \in Procs, t \in Tasks :
        /\ Received(q, t)' => Received(q, t)
        /\ Decoded(q, t)' => Decoded(q, t)
        /\ proc'[q].task = t => proc[q].task = t
        /\ Holds(q, t)' => Holds(q, t)
        /\ Once(proc[q].inbox, t) => Once(proc'[q].inbox, t)
        /\ Once(proc[q].batch, t) => Once(proc'[q].batch, t)
  <2>1. \A t : ~In(<<>>, t) /\ Once(<<>>, t)
    BY DEF In, Once
  <2> QED BY <1>2, <1>3, <2>1 DEF Received, Decoded, Holds
<1>5. \A v \in Workers, t \in Tasks : About(v, t)' <=> About(v, t) /\ v # w
  BY <1>2 DEF About
<1>6. ASSUME NEW v \in Workers
      PROVE  RequestOK(v)' /\ ReportOK(v)'
  <2>1. CASE v = w
    BY <1>2, <2>1 DEF RequestOK, ReportOK
  <2>2. CASE v # w
    <3>1. RequestOK(v) /\ RequestOK(w) /\ ReportOK(v)
      BY <1>1
    <3>2. work[v].from # Nil => work[v].from # p
      BY <2>2, <3>1, <1>2 DEF RequestOK, p
    <3>3. work[v].from # Nil => work[v].from \in Procs
      BY <1>0 DEF HostTypes, Requests
    <3>4. RequestOK(v)'
      BY <1>2, <2>2, <3>1, <3>2, <3>3 DEF RequestOK
    <3>5. ReportOK(v)'
      <4>1. work[v].event = "report" => work[v].task \in Tasks
        BY <3>1 DEF RequestOK
      <4> QED BY <1>2, <1>4, <1>5, <2>2, <3>1, <4>1 DEF ReportOK
    <3> QED BY <3>4, <3>5
  <2> QED BY <2>1, <2>2
<1>7. ASSUME NEW q \in Procs
      PROVE  ProcessOK(q)'
  <2>1. ProcessOK(q)
    BY <1>1
  <2>2. CASE q # p
    <3>1. proc[q].at \in Working => proc[q].task \in Tasks
      BY <1>0, <2>1 DEF HostTypes, Processes, ProcessOK
    <3> QED BY <1>2, <1>5, <2>1, <2>2, <3>1 DEF ProcessOK
  <2>3. CASE q = p
    <3>1. CASE proc'[q].at = "updating"
      <4>1. /\ work[w].event = "report" /\ work[w].report = "running"
            /\ job[w].stage = "stored" /\ proc[q].at = "starting"
            /\ proc'[q].task # Nil /\ proc'[q].task = work[w].task
            /\ proc'[q].task = proc[q].task
            /\ proc'[q].version \in Versions
        BY <1>2, <1>3, <2>3, <3>1
      <4>2. RequestOK(w) /\ ReportOK(w)
        BY <1>1
      <4>3. work[w].task \in Tasks /\ state[work[w].task] = "running"
            /\ \A v \in Workers : About(v, work[w].task) => v = w
        BY <4>1, <4>2 DEF RequestOK, ReportOK
      <4>4. \A v \in Workers : ~(work'[v].event = "report" /\ work'[v].task = proc'[q].task)
        BY <1>5, <4>1, <4>3 DEF About
      <4>5. proc[q].task \notin done /\ proc'[q].at = "updating"
        BY <2>1, <3>1, <4>1 DEF ProcessOK
      <4> QED BY <4>1, <4>3, <4>4, <4>5 DEF ProcessOK, About, Connected, Working
    <3>2. CASE proc'[q].at # "updating"
      <4>1. /\ proc'[q].at \in {"serving", "absent", "offline"} /\ proc'[q].task = Nil
            /\ proc'[q].at # "absent" => proc'[q].version \in Versions
        BY <1>2, <1>3, <2>3, <3>2
      <4> QED BY <4>1 DEF ProcessOK, Connected, Working
    <3> QED BY <3>1, <3>2
  <2> QED BY <2>2, <2>3
<1>8. ASSUME NEW q \in Procs, NEW t \in Tasks
      PROVE  HeldOK(q, t)'
  <2>1. HeldOK(q, t)
    BY <1>1
  <2> QED BY <1>4, <1>5, <2>1 DEF HeldOK
<1>9. \A t \in Tasks : TaskOK(t)'
  BY <1>1 DEF TaskOK
<1> QED BY <1>6, <1>7, <1>8, <1>9 DEF Flow

----------------------------------------------------------------------------
(* The steps of the host. *)

(* One process changes. *)
LEMMA SetProcess ==
  ASSUME HostTypes, NEW p \in Procs, NEW q \in Processes,
         proc' = [proc EXCEPT ![p] = q]
  PROVE  /\ proc' \in [Procs -> Processes] /\ proc'[p] = q
         /\ \A d \in Procs \ {p} : proc'[d] = proc[d]
BY DEF HostTypes

(* Only a process that waits for an answer has a request under way. *)
LEMMA NoRequestFrom ==
  ASSUME FlowInv, NEW p \in Procs,
         proc[p].at \notin {"registering", "starting", "reporting"}
  PROVE  /\ \A w \in Workers : work[w].from # p
         /\ Orphaned(p) = work
<1>1. \A w \in Workers : work[w].from # p
  BY ProcsOK DEF FlowInv, Flow, RequestOK
<1>2. work = [w \in Workers |-> work[w]]
  BY DEF FlowInv, HostTypes
<1>3. Orphaned(p) = [w \in Workers |-> work[w]]
  BY <1>1 DEF Orphaned
<1> QED BY <1>1, <1>2, <1>3

(* The end of a connection leaves the registry with a known session. *)
LEMMA UnboundType ==
  ASSUME HostTypes, NEW p
  PROVE  Unbound(p) \in Procs \cup {Nil, Lost}
BY DEF HostTypes, Unbound

(* What is under way after a connection has ended is well typed. *)
LEMMA OrphanedType ==
  ASSUME HostTypes, NEW p
  PROVE  Orphaned(p) \in [Workers -> Requests]
<1>1. ASSUME NEW w \in Workers
      PROVE  (IF work[w].from = p THEN [work[w] EXCEPT !.from = Nil] ELSE work[w]) \in Requests
  BY DEF HostTypes, Requests
<1> QED BY <1>1 DEF Orphaned

(* A process that keeps what it has. *)
LEMMA ProcessGoesOn ==
  ASSUME FlowInv, NEW p \in Procs, StoreRest, UNCHANGED <<work, target>>,
         proc[p].at \notin {"registering", "starting", "reporting"},
         proc'[p].inbox = proc[p].inbox, proc'[p].batch = proc[p].batch,
         proc'[p].task = proc[p].task,
         \A q \in Procs \ {p} :
           /\ proc'[q].inbox = proc[q].inbox /\ proc'[q].batch = proc[q].batch
           /\ proc'[q].task = proc[q].task /\ proc'[q].report = proc[q].report
           /\ proc'[q].version = proc[q].version
           /\ \/ proc'[q].at = proc[q].at
              \/ proc[q].at = "absent" /\ proc'[q].at = "launching",
         \/ done' = done
         \/ proc[p].at \in Working /\ done' = done \cup {proc[p].task},
         ProcessOK(p)'
  PROVE  Flow'
<1>1. \A w \in Workers : work[w].from # p
  BY NoRequestFrom
<1>2. \A t \in Tasks : HeldOK(p, t)
  BY DEF FlowInv, Flow
<1>3. \A t \in Tasks : /\ Holds(p, t)' => Holds(p, t)
                       /\ Received(p, t)' \/ Decoded(p, t)' =>
                            Received(p, t) \/ Decoded(p, t)
                       /\ ~(Received(p, t)' /\ Decoded(p, t)')
                       /\ Once(proc'[p].inbox, t) /\ Once(proc'[p].batch, t)
  BY <1>2 DEF Holds, Received, Decoded, HeldOK
<1> QED BY <1>1, <1>3, ProcessMoves

(* StartAgent and Launch. *)
LEMMA LaunchStep ==
  ASSUME FlowInv, NEW p \in Procs, StartAgent(p) \/ Launch(p)
  PROVE  HostTypes' /\ Flow'
<1>0. HostTypes /\ StoreRest /\ ProcessOK(p)
      /\ UNCHANGED <<work, target, done, bound, active, previous>>
  BY DEF FlowInv, Flow, StartAgent, Launch, StoreRest, storeVars, hostVars
<1>1. proc[p] \in Processes /\ active \in Versions
  BY <1>0 DEF HostTypes
<1>2. PICK q \in Processes :
        /\ proc' = [proc EXCEPT ![p] = q]
        /\ q.inbox = proc[p].inbox /\ q.batch = proc[p].batch /\ q.task = proc[p].task
        /\ q.at \in {"launching", "offline"}
        /\ q.at = "offline" => q.version \in Versions
  <2>1. CASE StartAgent(p)
    <3> DEFINE q == [proc[p] EXCEPT !.at = "launching"]
    <3>1. q \in Processes /\ q.inbox = proc[p].inbox /\ q.batch = proc[p].batch
          /\ q.task = proc[p].task /\ q.at = "launching"
      BY <1>1 DEF Processes
    <3>2. proc' = [proc EXCEPT ![p] = q]
      BY <2>1 DEF StartAgent
    <3> QED BY <3>1, <3>2
  <2>2. CASE Launch(p)
    <3> DEFINE q == [proc[p] EXCEPT !.at = "offline", !.version = active]
    <3>1. q \in Processes /\ q.inbox = proc[p].inbox /\ q.batch = proc[p].batch
          /\ q.task = proc[p].task /\ q.at = "offline" /\ q.version \in Versions
      BY <1>1 DEF Processes
    <3>2. proc' = [proc EXCEPT ![p] = q]
      BY <1>0, <2>2 DEF Launch, HostTypes
    <3> QED BY <3>1, <3>2
  <2> QED BY <2>1, <2>2
<1>3. proc' \in [Procs -> Processes] /\ proc'[p] = q
      /\ \A d \in Procs \ {p} : proc'[d] = proc[d]
  BY <1>0, <1>2, SetProcess
<1>4. proc[p].at \in {"absent", "launching"}
  BY DEF StartAgent, Launch
<1>5. ProcessOK(p)'
  BY <1>0, <1>2, <1>3, <1>4 DEF ProcessOK, Connected, Working
<1>6. Flow'
  BY <1>0, <1>2, <1>3, <1>4, <1>5, ProcessGoesOn
<1> QED BY <1>0, <1>3, <1>6 DEF HostTypes

(* A heartbeat moves the binding only. *)
LEMMA HeartbeatStep ==
  ASSUME FlowInv, NEW p \in Procs, SendHeartbeat(p)
  PROVE  HostTypes' /\ Flow'
<1>1. HostTypes /\ Flow
      /\ UNCHANGED <<storeVars, target, work, hostVars, proc>> /\ bound' = p
  BY DEF FlowInv, SendHeartbeat
<1>2. UNCHANGED <<state, result, row, job, target, work, done, proc, active, previous>>
  BY <1>1 DEF storeVars, hostVars
<1>3. Flow'
  BY <1>1, <1>2 DEF Flow, RequestOK, ReportOK, ProcessOK, HeldOK, TaskOK, About,
                    Received, Decoded, Holds
<1> QED BY <1>1, <1>2, <1>3 DEF HostTypes

(* What has been received is decoded, in the order it came. *)
LEMMA DrainStep ==
  ASSUME FlowInv, NEW p \in Procs, DrainCommandBytes(p)
  PROVE  HostTypes' /\ Flow'
<1>0. HostTypes /\ StoreRest /\ ProcessOK(p)
      /\ UNCHANGED <<work, target, done, bound, active, previous>>
      /\ proc[p].at = "serving" /\ proc[p].batch = <<>>
  BY DEF FlowInv, Flow, DrainCommandBytes, Waiting, StoreRest, storeVars, hostVars
<1>1. proc[p] \in Processes
  BY <1>0 DEF HostTypes
<1> DEFINE q == [proc[p] EXCEPT !.batch = proc[p].inbox, !.inbox = <<>>]
<1>2. /\ q \in Processes /\ q.inbox = <<>> /\ q.batch = proc[p].inbox
      /\ q.task = proc[p].task /\ q.at = "serving" /\ q.version = proc[p].version
      /\ q.report = proc[p].report
  BY <1>0, <1>1 DEF Processes
<1>3. proc' = [proc EXCEPT ![p] = q]
  BY <1>0 DEF DrainCommandBytes, HostTypes
<1> HIDE DEF q
<1>4. proc' \in [Procs -> Processes] /\ proc'[p] = q
      /\ \A d \in Procs \ {p} : proc'[d] = proc[d]
  BY <1>0, <1>2, <1>3, SetProcess
<1>5. ProcessOK(p)'
  BY <1>0, <1>2, <1>4 DEF ProcessOK, Connected, Working
<1>6. ASSUME NEW t \in Tasks
      PROVE  /\ Holds(p, t)' => Holds(p, t)
             /\ Received(p, t)' \/ Decoded(p, t)' => Received(p, t) \/ Decoded(p, t)
             /\ ~(Received(p, t)' /\ Decoded(p, t)')
             /\ Once(proc'[p].inbox, t) /\ Once(proc'[p].batch, t)
  <2>1. HeldOK(p, t)
    BY DEF FlowInv, Flow
  <2>2. ~In(<<>>, t) /\ Once(<<>>, t)
    BY DEF In, Once
  <2> QED BY <1>2, <1>4, <2>1, <2>2 DEF Holds, Received, Decoded, HeldOK
<1>7. \A w \in Workers : work[w].from # p
  BY <1>0, NoRequestFrom
<1>8. Flow'
  BY <1>0, <1>2, <1>4, <1>5, <1>6, <1>7, ProcessMoves
<1> QED BY <1>0, <1>4, <1>8 DEF HostTypes

(* Kill, and the exit after a stop. *)
LEMMA ExitStep ==
  ASSUME FlowInv, NEW p \in Procs, Kill(p) \/ Exit(p)
  PROVE  HostTypes' /\ Flow'
<1>0. HostTypes /\ StoreRest
      /\ UNCHANGED <<target, done, active, previous>>
      /\ bound' = Unbound(p) /\ proc' = [proc EXCEPT ![p] = Absent]
  BY DEF FlowInv, Kill, Exit, StoreRest, storeVars, hostVars
<1>1. work' = Orphaned(p)
  <2>1. CASE Kill(p)
    BY <2>1 DEF Kill
  <2>2. CASE Exit(p)
    <3>1. Orphaned(p) = work
      BY <2>2, NoRequestFrom DEF Exit, Waiting
    <3> QED BY <2>2, <3>1 DEF Exit
  <2> QED BY <2>1, <2>2
<1>2. Absent \in Processes /\ Absent.at = "absent" /\ Absent.inbox = <<>>
      /\ Absent.batch = <<>> /\ Absent.task = Nil
  BY DEF Absent, Processes, Results
<1>3. proc' \in [Procs -> Processes] /\ proc'[p] = Absent
      /\ \A d \in Procs \ {p} : proc'[d] = proc[d]
  BY <1>0, <1>2, SetProcess
<1>4. Flow'
  BY <1>0, <1>1, <1>2, <1>3, ProcessGone
<1> QED BY <1>0, <1>1, <1>3, <1>4, UnboundType, OrphanedType DEF HostTypes

(* A connection breaks: the process goes on with a task it executes, and   *)
(* forgets everything otherwise. *)
LEMMA LoseStep ==
  ASSUME FlowInv, NEW p \in Procs, LoseConnection(p)
  PROVE  HostTypes' /\ Flow'
<1>0. HostTypes /\ StoreRest /\ ProcessOK(p)
      /\ UNCHANGED <<target, done, active, previous>>
      /\ bound' = Unbound(p) /\ work' = Orphaned(p)
      /\ proc' = [proc EXCEPT ![p] = Disconnected(@)]
      /\ proc[p].at \in Connected
  BY DEF FlowInv, Flow, LoseConnection, StoreRest, storeVars, hostVars
<1>1. proc[p] \in Processes
  BY <1>0 DEF HostTypes
<1>2. proc' \in [Procs -> Processes] /\ proc'[p] = Disconnected(proc[p])
      /\ \A d \in Procs \ {p} : proc'[d] = proc[d]
  <2>1. proc' = [proc EXCEPT ![p] = Disconnected(proc[p])]
    BY <1>0
  <2>2. Disconnected(proc[p]) \in Processes
    BY <1>1, DisconnectedFields
  <2> QED BY <1>0, <2>1, <2>2, SetProcess
<1>3. Flow'
  <2>1. CASE proc[p].at \in Working
    <3>1. /\ proc'[p].at = proc[p].at /\ proc'[p].task = proc[p].task
          /\ proc'[p].inbox = proc[p].inbox /\ proc'[p].batch = proc[p].batch
          /\ proc'[p].version = proc[p].version /\ proc'[p].report = proc[p].report
      BY <1>1, <1>2, <2>1, DisconnectedFields
    <3>2. work' = work
      BY <1>0, <2>1, NoRequestFrom DEF Working
    <3>3. ProcessOK(p)'
      BY <1>0, <3>1, <3>2 DEF ProcessOK, StoreRest, About
    <3> QED BY <1>0, <1>2, <2>1, <3>1, <3>2, <3>3, ProcessGoesOn DEF Working
  <2>2. CASE proc[p].at \notin Working
    <3>1. proc[p].version \in Versions
      BY <1>0 DEF ProcessOK
    <3> QED BY <1>0, <1>1, <1>2, <2>2, <3>1, DisconnectedFields, ProcessGone
  <2> QED BY <2>1, <2>2
<1> QED BY <1>0, <1>2, <1>3, UnboundType, OrphanedType DEF HostTypes

(* Register and HandleCommand. *)
LEMMA PostStep ==
  ASSUME FlowInv, NEW p \in Procs, Register(p) \/ HandleCommand(p)
  PROVE  HostTypes' /\ Flow'
<1>0. HostTypes /\ StoreRest /\ ProcessOK(p) /\ (\A t \in Tasks : HeldOK(p, t))
      /\ UNCHANGED <<target, done, active, previous, bound>>
  BY DEF FlowInv, Flow, Register, HandleCommand, StoreRest, storeVars, hostVars
<1>1. proc[p] \in Processes /\ proc[p].inbox \in Seq(Tasks) /\ proc[p].batch \in Seq(Tasks)
      /\ proc[p].version \in Versions \cup {Nil}
  BY <1>0 DEF HostTypes, Processes
<1>2. CASE Register(p)
  <2> DEFINE q == [proc[p] EXCEPT !.at = "registering"]
  <2>1. /\ q \in Processes /\ q.inbox = proc[p].inbox /\ q.batch = proc[p].batch
        /\ q.task = proc[p].task /\ q.at = "registering" /\ q.version = proc[p].version
    BY <1>1 DEF Processes, Connected
  <2>2. proc' = [proc EXCEPT ![p] = q] /\ proc[p].at = "offline"
    BY <1>2 DEF Register
  <2> HIDE DEF q
  <2>3. proc' \in [Procs -> Processes] /\ proc'[p] = q
        /\ \A d \in Procs \ {p} : proc'[d] = proc[d]
    BY <1>0, <2>1, <2>2, SetProcess
  <2>4. PICK w \in Workers :
          /\ work[w].event = "none"
          /\ work' = [work EXCEPT ![w] = [event |-> "register", from |-> p,
                        version |-> proc[p].version, task |-> Nil, report |-> "running"]]
    BY <1>2 DEF Register, Post
  <2>5. work' \in [Workers -> Requests]
    <3>1. [event |-> "register", from |-> p, version |-> proc[p].version,
           task |-> Nil, report |-> "running"] \in Requests
      BY <1>1 DEF Requests
    <3> QED BY <1>0, <2>4, <3>1 DEF HostTypes
  <2>6. proc[p].version \in Versions /\ proc[p].task = Nil
    BY <1>0, <2>2 DEF ProcessOK, Working
  <2>7. ProcessOK(p)'
    BY <1>0, <2>1, <2>2, <2>3, <2>6 DEF ProcessOK, Connected, Working
  <2>8. \A v \in Workers : work[v].from # p
    BY <2>2, NoRequestFrom
  <2>9. \A u \in Tasks : (Decoded(p, u)' => Decoded(p, u)) /\ Once(proc'[p].batch, u)
    BY <1>0, <2>1, <2>3 DEF Decoded, HeldOK
  <2>10. Flow'
    BY <1>0, <2>1, <2>3, <2>4, <2>6, <2>7, <2>8, <2>9, RequestPosted
  <2> QED BY <1>0, <2>3, <2>5, <2>10 DEF HostTypes
<1>3. CASE HandleCommand(p)
  <2>1. proc[p].at = "serving" /\ proc[p].batch # <<>>
    BY <1>3 DEF HandleCommand
  <2>0. PICK t \in Tasks : t = Head(proc[p].batch)
    BY <1>1, <2>1
  <2>2. Tail(proc[p].batch) \in Seq(Tasks) /\ In(proc[p].batch, t)
    BY <1>1, <2>0, <2>1, TailOfQueue
  <2> DEFINE q == [proc[p] EXCEPT !.at = "starting", !.task = t,
                                  !.batch = Tail(proc[p].batch)]
  <2>3. /\ q \in Processes /\ q.inbox = proc[p].inbox /\ q.batch = Tail(proc[p].batch)
        /\ q.task = t /\ q.at = "starting" /\ q.version = proc[p].version
    BY <1>1, <2>2 DEF Processes, Connected
  <2>4. proc' = [proc EXCEPT ![p] = q]
    BY <1>0, <1>3, <2>0 DEF HandleCommand, HostTypes
  <2>5. PICK w \in Workers :
          /\ work[w].event = "none"
          /\ work' = [work EXCEPT ![w] = [event |-> "report", from |-> p,
                        version |-> proc[p].version, task |-> t, report |-> "running"]]
    BY <1>3, <2>0 DEF HandleCommand, Post
  <2>6. Once(proc[p].batch, t) /\ HeldOK(p, t)
    BY <1>0, <2>2 DEF HeldOK
  <2>7. ~In(Tail(proc[p].batch), t)
    BY <1>1, <2>0, <2>1, <2>6, TailOfQueue
  <2>8. \A u \in Tasks : /\ In(Tail(proc[p].batch), u) => In(proc[p].batch, u)
                         /\ Once(Tail(proc[p].batch), u)
    BY <1>0, <1>1, <2>1, TailOfQueue DEF HeldOK
  <2> HIDE DEF q
  <2>9. proc' \in [Procs -> Processes] /\ proc'[p] = q
        /\ \A d \in Procs \ {p} : proc'[d] = proc[d]
    BY <1>0, <2>3, <2>4, SetProcess
  <2>10. work' \in [Workers -> Requests]
    <3>1. [event |-> "report", from |-> p, version |-> proc[p].version,
           task |-> t, report |-> "running"] \in Requests
      BY <1>1, <2>2 DEF Requests
    <3> QED BY <1>0, <2>5, <3>1 DEF HostTypes
  <2>11. /\ Decoded(p, t) /\ Holds(p, t) /\ ~Received(p, t)
         /\ state[t] = "assigned" /\ \A v \in Workers : ~About(v, t)
    BY <2>2, <2>6 DEF HeldOK, Holds, Decoded
  <2>12. Nil \notin Tasks
    BY StoreOK DEF Store!ConstantsOK
  <2>13. t \notin done
    <3>1. TaskOK(t)
      BY <2>2 DEF FlowInv, Flow
    <3> QED BY <2>11, <3>1 DEF TaskOK
  <2>14. ProcessOK(p)'
    BY <1>0, <2>1, <2>2, <2>3, <2>9, <2>12, <2>13 DEF ProcessOK, Connected, Working
  <2>15. \A v \in Workers : work[v].from # p
    BY <2>1, NoRequestFrom
  <2>16. \A u \in Tasks : (Decoded(p, u)' => Decoded(p, u)) /\ Once(proc'[p].batch, u)
    BY <2>3, <2>8, <2>9 DEF Decoded
  <2>17. ~Received(p, t)' /\ ~Decoded(p, t)'
    BY <2>3, <2>7, <2>9, <2>11 DEF Decoded, Received
  <2>18. Flow'
    BY <1>0, <2>2, <2>3, <2>5, <2>9, <2>11, <2>14, <2>15, <2>16, <2>17, RequestPosted
  <2> QED BY <1>0, <2>9, <2>10, <2>18 DEF HostTypes
<1> QED BY <1>2, <1>3

(* The result of a task is posted, or there is no connection to post it on. *)
LEMMA ResultStep ==
  ASSUME FlowInv, NEW p \in Procs, ReportResult(p)
  PROVE  HostTypes' /\ Flow'
<1>0. HostTypes /\ StoreRest /\ ProcessOK(p) /\ (\A t \in Tasks : HeldOK(p, t))
      /\ UNCHANGED <<target, done, active, previous, bound>>
      /\ proc[p].at = "updated"
  BY DEF FlowInv, Flow, ReportResult, StoreRest, storeVars, hostVars
<1>1. /\ proc[p] \in Processes /\ proc[p].task \in Tasks
      /\ proc[p].version \in Versions /\ proc[p].report \in Results
      /\ state[proc[p].task] = "running"
      /\ \A v \in Workers : ~About(v, proc[p].task)
      /\ proc[p].report = "succeeded" => proc[p].task \in done
  BY <1>0 DEF HostTypes, Processes, ProcessOK, Connected, Working
<1>2. \A v \in Workers : work[v].from # p
  BY <1>0, NoRequestFrom
<1> DEFINE r == [proc[p] EXCEPT !.at = "reporting"]
<1>3. /\ r \in Processes /\ r.inbox = proc[p].inbox /\ r.batch = proc[p].batch
      /\ r.task = proc[p].task /\ r.at = "reporting" /\ r.version = proc[p].version
      /\ r.report = proc[p].report
  BY <1>1 DEF Processes, Connected
<1>4. \/ /\ proc' = [proc EXCEPT ![p] = r]
         /\ Post(p, "report", proc[p].task, proc[p].report)
      \/ work' = work /\ proc' = [proc EXCEPT ![p] = Disconnected(r)]
  BY DEF ReportResult
<1> HIDE DEF r
<1>5. CASE /\ proc' = [proc EXCEPT ![p] = r]
           /\ Post(p, "report", proc[p].task, proc[p].report)
  <2>1. proc' \in [Procs -> Processes] /\ proc'[p] = r
        /\ \A d \in Procs \ {p} : proc'[d] = proc[d]
    BY <1>0, <1>3, <1>5, SetProcess
  <2>2. PICK w \in Workers :
          /\ work[w].event = "none"
          /\ work' = [work EXCEPT ![w] = [event |-> "report", from |-> p,
                        version |-> proc[p].version, task |-> proc[p].task,
                        report |-> proc[p].report]]
    BY <1>5 DEF Post
  <2>3. work' \in [Workers -> Requests]
    <3>1. [event |-> "report", from |-> p, version |-> proc[p].version,
           task |-> proc[p].task, report |-> proc[p].report] \in Requests
      BY <1>1 DEF Requests
    <3> QED BY <1>0, <2>2, <3>1 DEF HostTypes
  <2>4. HeldOK(p, proc[p].task) /\ Nil \notin Tasks
    BY <1>0, <1>1, StoreOK DEF Store!ConstantsOK
  <2>5. Holds(p, proc[p].task) /\ ~Received(p, proc[p].task) /\ ~Decoded(p, proc[p].task)
    BY <2>4 DEF HeldOK, Holds
  <2>6. \A t \in Tasks : (Received(p, t)' <=> Received(p, t)) /\ (Decoded(p, t)' <=> Decoded(p, t))
    BY <1>3, <2>1 DEF Received, Decoded
  <2>7. \A u \in Tasks : (Decoded(p, u)' => Decoded(p, u)) /\ Once(proc'[p].batch, u)
    BY <1>0, <1>3, <2>1, <2>6 DEF HeldOK
  <2>8. ProcessOK(p)'
    BY <1>0, <1>1, <1>3, <2>1, <2>4 DEF ProcessOK, Connected, Working
  <2> DEFINE t == proc[p].task
  <2>9. ~Received(p, t)' /\ ~Decoded(p, t)'
    <3>1. proc'[p].inbox = proc[p].inbox /\ proc'[p].batch = proc[p].batch
      BY <1>3, <2>1
    <3> QED BY <2>5, <3>1, <1>3, <2>1 DEF Received, Decoded
  <2> HIDE DEF t
  <2>10. Flow'
    BY <1>0, <1>1, <1>2, <1>3, <2>1, <2>2, <2>5, <2>7, <2>8, <2>9, RequestPosted DEF t
  <2> QED BY <1>0, <2>1, <2>3, <2>10 DEF HostTypes
<1>6. CASE work' = work /\ proc' = [proc EXCEPT ![p] = Disconnected(r)]
  <2>1. proc' \in [Procs -> Processes] /\ proc'[p] = Disconnected(r)
        /\ \A d \in Procs \ {p} : proc'[d] = proc[d]
    BY <1>0, <1>3, <1>6, SetProcess, DisconnectedFields
  <2>2. work' = Orphaned(p)
    BY <1>0, <1>6, NoRequestFrom
  <2>3. Flow'
    BY <1>0, <1>1, <1>3, <2>1, <2>2, DisconnectedFields, ProcessGone DEF Working
  <2> QED BY <1>0, <1>6, <2>1, <2>3 DEF HostTypes
<1> QED BY <1>4, <1>5, <1>6

(* A process that executes a task comes one step further with it, or fails. *)
LEMMA ExecutionMoves ==
  ASSUME FlowInv, NEW p \in Procs, proc[p].at \in {"updating", "applied"},
         StoreRest, UNCHANGED <<work, target>>,
         NEW q \in Processes, proc'[p] = q,
         q.inbox = proc[p].inbox, q.batch = proc[p].batch, q.task = proc[p].task,
         q.version = proc[p].version,
         \/ q.at = "applied" /\ done' = done
         \/ q.at = "updated" /\ q.report = "failed" /\ done' = done
         \/ q.at = "updated" /\ q.report = "succeeded" /\ done' = done \cup {proc[p].task},
         \A d \in Procs \ {p} :
           /\ proc'[d].inbox = proc[d].inbox /\ proc'[d].batch = proc[d].batch
           /\ proc'[d].task = proc[d].task /\ proc'[d].report = proc[d].report
           /\ proc'[d].version = proc[d].version
           /\ \/ proc'[d].at = proc[d].at
              \/ proc[d].at = "absent" /\ proc'[d].at = "launching"
  PROVE  Flow'
<1>1. ProcessOK(p)
  BY DEF FlowInv, Flow
<1>2. ProcessOK(p)'
  BY <1>1 DEF ProcessOK, StoreRest, Connected, Working, About
<1> QED BY <1>2, ProcessGoesOn DEF Working

(* UpdateFails and InstallerUpdated. *)
LEMMA UpdateStep ==
  ASSUME FlowInv, NEW p \in Procs, UpdateFails(p) \/ InstallerUpdated(p)
  PROVE  HostTypes' /\ Flow'
<1>0. HostTypes /\ StoreRest /\ ProcessOK(p) /\ proc[p].at = "updating"
      /\ UNCHANGED <<target, work, active, previous, bound>>
  BY DEF FlowInv, Flow, UpdateFails, InstallerUpdated, StoreRest, storeVars, hostVars
<1>1. proc[p] \in Processes /\ proc[p].task \in Tasks
  BY <1>0 DEF HostTypes, Processes, ProcessOK, Working
<1>2. PICK q \in Processes :
        /\ proc' = [proc EXCEPT ![p] = q] /\ q.at = "updated"
        /\ q.inbox = proc[p].inbox /\ q.batch = proc[p].batch
        /\ q.task = proc[p].task /\ q.version = proc[p].version
        /\ \/ q.report = "failed" /\ done' = done
           \/ q.report = "succeeded" /\ done' = done \cup {proc[p].task}
  <2>1. ASSUME NEW o \in Results
        PROVE  LET q == Finished(proc[p], o) IN
               /\ q \in Processes /\ q.at = "updated" /\ q.report = o
               /\ q.inbox = proc[p].inbox /\ q.batch = proc[p].batch
               /\ q.task = proc[p].task /\ q.version = proc[p].version
    BY <1>1 DEF Finished, Processes, Connected, Working
  <2>2. \/ proc' = [proc EXCEPT ![p] = Finished(proc[p], "failed")] /\ done' = done
        \/ /\ proc' = [proc EXCEPT ![p] = Finished(proc[p], "succeeded")]
           /\ done' = done \cup {proc[p].task}
    BY DEF UpdateFails, InstallerUpdated, hostVars
  <2> QED BY <2>1, <2>2 DEF Results
<1>3. proc' \in [Procs -> Processes] /\ proc'[p] = q
      /\ \A d \in Procs \ {p} : proc'[d] = proc[d]
  BY <1>0, <1>2, SetProcess
<1>4. Flow'
  BY <1>0, <1>2, <1>3, ExecutionMoves
<1> QED BY <1>0, <1>1, <1>2, <1>3, <1>4 DEF HostTypes

(* ApplyUpdate and RunRollback switch to a version there is. *)
LEMMA SwitchStep ==
  ASSUME FlowInv, NEW p \in Procs, ApplyUpdate(p) \/ RunRollback(p)
  PROVE  HostTypes' /\ Flow'
<1>0. HostTypes /\ ProcessOK(p) /\ proc[p].at = "updating"
  BY DEF FlowInv, Flow, ApplyUpdate, RunRollback
<1>1. proc[p] \in Processes /\ proc[p].task \in Tasks /\ state[proc[p].task] = "running"
  BY <1>0 DEF HostTypes, Processes, ProcessOK, Working
<1>2. PICK v \in Versions : SwitchTo(p, v)
  <2>1. row[proc[p].task] # Nil /\ TaskOK(proc[p].task)
    BY <1>1, StoreTypes DEF FlowInv, Flow
  <2>2. previous \in Versions \cup {Nil}
    BY <1>0 DEF HostTypes
  <2> QED BY <2>1, <2>2 DEF ApplyUpdate, RunRollback, TaskOK
<1>3. /\ StoreRest /\ UNCHANGED <<target, work, done, bound>>
      /\ active' \in Versions /\ previous' \in Versions \cup {Nil}
  BY <1>0, <1>2 DEF SwitchTo, StoreRest, storeVars, HostTypes
<1>4. PICK q \in Processes :
        /\ proc' = [proc EXCEPT ![p] = q]
        /\ q.at = "applied" \/ (q.at = "updated" /\ q.report = "failed")
        /\ q.inbox = proc[p].inbox /\ q.batch = proc[p].batch
        /\ q.task = proc[p].task /\ q.version = proc[p].version
  <2> DEFINE r == [proc[p] EXCEPT !.at = "applied"]
             f == Finished(proc[p], "failed")
  <2>1. /\ r \in Processes /\ r.at = "applied"
        /\ r.inbox = proc[p].inbox /\ r.batch = proc[p].batch
        /\ r.task = proc[p].task /\ r.version = proc[p].version
    BY <1>1 DEF Processes, Connected, Working
  <2>2. /\ f \in Processes /\ f.at = "updated" /\ f.report = "failed"
        /\ f.inbox = proc[p].inbox /\ f.batch = proc[p].batch
        /\ f.task = proc[p].task /\ f.version = proc[p].version
    BY <1>1 DEF Finished, Processes, Connected, Working, Results
  <2>3. \/ proc' = [proc EXCEPT ![p] = r]
        \/ proc' = [proc EXCEPT ![p] = f]
    BY <1>2 DEF SwitchTo
  <2> HIDE DEF r, f
  <2> QED BY <2>1, <2>2, <2>3
<1>5. proc' \in [Procs -> Processes] /\ proc'[p] = q
      /\ \A d \in Procs \ {p} : proc'[d] = proc[d]
  BY <1>0, <1>4, SetProcess
<1>6. Flow'
  BY <1>0, <1>3, <1>4, <1>5, ExecutionMoves
<1> QED BY <1>0, <1>3, <1>5, <1>6 DEF HostTypes

(* The successor is started, or cannot be. *)
LEMMA SuccessorStep ==
  ASSUME FlowInv, NEW p \in Procs, StartNewAgent(p)
  PROVE  HostTypes' /\ Flow'
<1>0. HostTypes /\ StoreRest /\ ProcessOK(p) /\ proc[p].at = "applied"
      /\ UNCHANGED <<target, work, active, previous, bound>>
  BY DEF FlowInv, Flow, StartNewAgent, StoreRest, storeVars
<1>1. proc[p] \in Processes /\ proc[p].task \in Tasks
  BY <1>0 DEF HostTypes, Processes, ProcessOK, Working
<1>2. ASSUME NEW o \in Results
      PROVE  /\ Finished(proc[p], o) \in Processes
             /\ Finished(proc[p], o).at = "updated" /\ Finished(proc[p], o).report = o
             /\ Finished(proc[p], o).inbox = proc[p].inbox
             /\ Finished(proc[p], o).batch = proc[p].batch
             /\ Finished(proc[p], o).task = proc[p].task
             /\ Finished(proc[p], o).version = proc[p].version
  BY <1>1 DEF Finished, Processes, Connected, Working
<1>3. \/ proc' = [proc EXCEPT ![p] = Finished(proc[p], "failed")] /\ done' = done
      \/ \E q \in Procs :
           /\ proc[q].at = "absent"
           /\ proc' = [proc EXCEPT ![p] = Finished(proc[p], "succeeded"),
                                   ![q].at = "launching"]
           /\ done' = done \cup {proc[p].task}
  BY DEF StartNewAgent
<1>4. CASE proc' = [proc EXCEPT ![p] = Finished(proc[p], "failed")] /\ done' = done
  <2>1. Finished(proc[p], "failed") \in Processes
    BY <1>2 DEF Results
  <2>2. proc' \in [Procs -> Processes] /\ proc'[p] = Finished(proc[p], "failed")
        /\ \A d \in Procs \ {p} : proc'[d] = proc[d]
    BY <1>0, <1>4, <2>1, SetProcess
  <2>3. Flow'
    BY <1>0, <1>2, <1>4, <2>1, <2>2, ExecutionMoves DEF Results
  <2> QED BY <1>0, <1>4, <2>2, <2>3 DEF HostTypes
<1>5. CASE \E q \in Procs :
             /\ proc[q].at = "absent"
             /\ proc' = [proc EXCEPT ![p] = Finished(proc[p], "succeeded"),
                                     ![q].at = "launching"]
             /\ done' = done \cup {proc[p].task}
  <2>1. PICK q \in Procs :
          /\ proc[q].at = "absent"
          /\ proc' = [proc EXCEPT ![p] = Finished(proc[p], "succeeded"),
                                  ![q].at = "launching"]
          /\ done' = done \cup {proc[p].task}
    BY <1>5
  <2>2. q # p
    BY <1>0, <2>1
  <2> DEFINE f == Finished(proc[p], "succeeded")
             r == [proc[q] EXCEPT !.at = "launching"]
  <2>3. f \in Processes
    BY <1>2 DEF Results
  <2>4. /\ r \in Processes /\ r.at = "launching" /\ r.inbox = proc[q].inbox
        /\ r.batch = proc[q].batch /\ r.task = proc[q].task
        /\ r.report = proc[q].report /\ r.version = proc[q].version
    <3>1. proc[q] \in Processes
      BY <1>0 DEF HostTypes
    <3> QED BY <3>1 DEF Processes
  <2>5. proc' = [[proc EXCEPT ![p] = f] EXCEPT ![q] = r]
    BY <1>0, <2>1, <2>2 DEF HostTypes
  <2>6. /\ f.at = "updated" /\ f.report = "succeeded"
        /\ f.inbox = proc[p].inbox /\ f.batch = proc[p].batch
        /\ f.task = proc[p].task /\ f.version = proc[p].version
    BY <1>2 DEF Results
  <2> HIDE DEF f, r
  <2>7. /\ proc' \in [Procs -> Processes] /\ proc'[p] = f /\ proc'[q] = r
        /\ \A d \in Procs \ {p, q} : proc'[d] = proc[d]
    BY <1>0, <2>2, <2>3, <2>4, <2>5 DEF HostTypes
  <2>8. \A d \in Procs \ {p} :
           /\ proc'[d].inbox = proc[d].inbox /\ proc'[d].batch = proc[d].batch
           /\ proc'[d].task = proc[d].task /\ proc'[d].report = proc[d].report
           /\ proc'[d].version = proc[d].version
           /\ \/ proc'[d].at = proc[d].at
              \/ proc[d].at = "absent" /\ proc'[d].at = "launching"
    BY <2>1, <2>4, <2>7
  <2>9. Flow'
    BY <1>0, <2>1, <2>3, <2>6, <2>7, <2>8, ExecutionMoves
  <2> QED BY <1>0, <1>1, <2>1, <2>7, <2>9 DEF HostTypes
<1> QED BY <1>3, <1>4, <1>5

(* All steps of the host. *)
LEMMA HostStep ==
  ASSUME FlowInv, NEW p \in Procs, ProcessStep(p)
  PROVE  HostTypes' /\ Flow' /\ UNCHANGED storeVars
<1>1. UNCHANGED storeVars
  BY DEF ProcessStep, StartAgent, Launch, Register, SendHeartbeat, DrainCommandBytes,
         HandleCommand, UpdateFails, InstallerUpdated, ApplyUpdate, RunRollback,
         SwitchTo, StartNewAgent, ReportResult, Exit, LoseConnection, Kill
<1>2. HostTypes' /\ Flow'
  BY LaunchStep, PostStep, HeartbeatStep, DrainStep, UpdateStep, SwitchStep,
     SuccessorStep, ResultStep, ExitStep, LoseStep DEF ProcessStep
<1> QED BY <1>1, <1>2

----------------------------------------------------------------------------
(* The steps of the server. *)

(* The types after an answer. *)
LEMMA AnswerTypes ==
  ASSUME FlowInv, NEW w \in Workers, NEW ok \in BOOLEAN, Answer(w, ok)
  PROVE  /\ work' \in [Workers -> Requests] /\ proc' \in [Procs -> Processes]
         /\ work[w].from \in Procs \cup {Nil}
<1>1. HostTypes
  BY DEF FlowInv
<1>2. NoRequest \in Requests /\ work[w].from \in Procs \cup {Nil}
  BY <1>1 DEF NoRequest, Requests, HostTypes
<1>3. work' \in [Workers -> Requests]
  BY <1>1, <1>2 DEF Answer, HostTypes
<1>4. proc' \in [Procs -> Processes]
  <2> DEFINE p == work[w].from
             q == IF ok THEN Accepted(proc[p]) ELSE Disconnected(proc[p])
  <2>1. CASE p = Nil
    BY <1>1, <2>1 DEF Answer, HostTypes
  <2>2. CASE p # Nil
    <3>1. p \in Procs /\ proc' = [proc EXCEPT ![p] = q]
      BY <1>2, <2>2 DEF Answer
    <3>2. proc[p] \in Processes
      BY <1>1, <3>1 DEF HostTypes
    <3>3. q \in Processes
      BY <3>2, AcceptedFields, DisconnectedFields
    <3> HIDE DEF q
    <3> QED BY <1>1, <3>1, <3>3 DEF HostTypes
  <2> QED BY <2>1, <2>2
<1> QED BY <1>2, <1>3, <1>4

(* A registration, or the answer to a report that was stored. *)
LEMMA AnswerStep ==
  ASSUME FlowInv, NEW w \in Workers, HandleRegister(w) \/ AuditReport(w)
  PROVE  HostTypes' /\ Flow'
<1>0. HostTypes /\ RequestOK(w) /\ Answer(w, TRUE)
      /\ UNCHANGED <<row, state, result, target, done, active, previous>>
  BY DEF FlowInv, Flow, HandleRegister, AuditReport, Store!UpsertAgent,
         Store!AuditReport, hostVars
<1>1. bound' \in Procs \cup {Nil, Lost}
  <2>1. work[w].from \in Procs \cup {Nil} /\ bound \in Procs \cup {Nil, Lost}
    BY <1>0, AnswerTypes DEF HostTypes
  <2> QED BY <2>1 DEF HandleRegister, AuditReport
<1>2. job[w].stage \in {"idle", "checked", "stored"} /\ DOMAIN job = Workers
  BY StoreTypes DEF FlowInv
<1>3. /\ work[w].event \in {"register", "report"}
      /\ job'[w].stage = "idle" /\ \A v \in Workers \ {w} : job'[v] = job[v]
      /\ work[w].event = "report" => job[w].stage = "stored"
  <2>1. CASE HandleRegister(w)
    BY <1>0, <2>1 DEF HandleRegister, Store!UpsertAgent, RequestOK
  <2>2. CASE AuditReport(w)
    <3>1. job[w].stage = "stored" /\ job' = [job EXCEPT ![w] = Store!IdleJob]
      BY <2>2 DEF AuditReport, Store!AuditReport
    <3>2. \A x : [job EXCEPT ![w] = x][w] = x
                 /\ \A v \in Workers \ {w} : [job EXCEPT ![w] = x][v] = job[v]
      BY <1>2, StoreTypes DEF FlowInv
    <3> QED BY <1>0, <3>1, <3>2 DEF RequestOK, Store!IdleJob
  <2> QED BY <2>1, <2>2
<1>4. Flow'
  BY <1>0, <1>3, RequestAnswered
<1> QED BY <1>0, <1>1, <1>4, AnswerTypes DEF HostTypes

(* A report is found admissible, always: nothing else has touched its task. *)
LEMMA ReportAdmissible ==
  ASSUME FlowInv, NEW w \in Workers, work[w].event = "report"
  PROVE  /\ work[w].task \in Tasks /\ work[w].report \in {"running"} \cup Results
         /\ job[w].stage # "stored" =>
              /\ Admissible(work[w].task, work[w].report)
              /\ Store!Executed(work[w].task) \/ work[w].report = "running"
              /\ state[work[w].task] = IF work[w].report = "running"
                                       THEN "assigned" ELSE "running"
              /\ result[work[w].task] = "none"
<1>1. HostTypes /\ RequestOK(w) /\ ReportOK(w) /\ P!TaskInv
  BY DEF FlowInv, Flow
<1>2. work[w].task \in Tasks /\ work[w].report \in {"running"} \cup Results
  BY <1>1 DEF HostTypes, Requests, RequestOK
<1>3. ASSUME job[w].stage # "stored"
      PROVE  state[work[w].task] = IF work[w].report = "running"
                                   THEN "assigned" ELSE "running"
  BY <1>1, <1>3 DEF ReportOK
<1>4. job[w].stage # "stored" => result[work[w].task] = "none"
  BY <1>1, <1>2, <1>3 DEF P!TaskInv, P!ResultRecordedOnce, P!Terminal
<1> QED BY <1>2, <1>3, <1>4 DEF Admissible, Store!Executed, Store!Terminal

(* The check before a write. *)
LEMMA CheckStep ==
  ASSUME FlowInv, NEW w \in Workers, CheckReport(w)
  PROVE  HostTypes' /\ Flow'
<1> DEFINE t == work[w].task
           r == work[w].report
<1>0. HostTypes /\ Flow /\ work[w].event = "report" /\ job[w].stage = "idle"
      /\ UNCHANGED <<row, state, result, target, done, active, previous>>
  BY DEF FlowInv, CheckReport, hostVars
<1>1. /\ job' = [job EXCEPT ![w] = [stage |-> "checked", task |-> t, report |-> r]]
      /\ UNCHANGED <<work, proc, bound>>
  <2>1. Admissible(t, r)
    BY <1>0, ReportAdmissible
  <2> QED BY <2>1 DEF CheckReport
<1>2. DOMAIN job = Workers
  BY StoreTypes DEF FlowInv
<1>3. /\ job'[w].stage = "checked" /\ job'[w].task = t /\ job'[w].report = r
      /\ \A v \in Workers \ {w} : job'[v] = job[v]
  <2> DEFINE x == [stage |-> "checked", task |-> t, report |-> r]
  <2>1. x.stage = "checked" /\ x.task = t /\ x.report = r
    OBVIOUS
  <2>2. job' = [job EXCEPT ![w] = x]
    BY <1>1
  <2> HIDE DEF x
  <2> QED BY <1>2, <2>1, <2>2
<1>4. \A v \in Workers : RequestOK(v)' /\ ReportOK(v)'
  <2>1. ASSUME NEW v \in Workers
        PROVE  RequestOK(v)' /\ ReportOK(v)'
    <3>1. RequestOK(v) /\ ReportOK(v)
      BY <1>0 DEF Flow
    <3>2. job'[v].stage = "stored" <=> job[v].stage = "stored"
      BY <1>0, <1>3
    <3>3. RequestOK(v)'
      BY <1>0, <1>1, <1>3, <3>1 DEF RequestOK
    <3>4. ReportOK(v)'
      BY <1>0, <1>1, <3>1, <3>2 DEF ReportOK, About, Holds, Received, Decoded
    <3> QED BY <3>3, <3>4
  <2> QED BY <2>1
<1>5. /\ \A p \in Procs : ProcessOK(p)' /\ \A u \in Tasks : HeldOK(p, u)'
      /\ \A u \in Tasks : TaskOK(u)'
  BY <1>0, <1>1 DEF Flow, ProcessOK, HeldOK, TaskOK, About, Holds, Received, Decoded
<1>6. Flow'
  BY <1>4, <1>5 DEF Flow
<1> QED BY <1>0, <1>1, <1>6 DEF HostTypes

(* What a report writes: nothing but the state and the result of its task. *)
LEMMA ReportWritten ==
  ASSUME FlowInv, NEW w \in Workers, job[w].stage = "checked",
         UNCHANGED <<row, work, proc, target, done>>,
         job'[w].stage = "stored", job'[w].task = job[w].task,
         job'[w].report = job[w].report,
         \A v \in Workers \ {w} : job'[v] = job[v],
         NEW t \in Tasks, t = work[w].task,
         state'[t] = work[w].report,
         \A u \in Tasks \ {t} : state'[u] = state[u] /\ result'[u] = result[u],
         result'[t] = IF work[w].report = "running" THEN "none" ELSE work[w].report
  PROVE  Flow'
<1>0. HostTypes /\ RequestOK(w) /\ ReportOK(w)
  BY DEF FlowInv, Flow
<1>1. /\ \A v \in Workers : RequestOK(v) /\ ReportOK(v)
      /\ \A q \in Procs : ProcessOK(q) /\ \A u \in Tasks : HeldOK(q, u)
      /\ \A u \in Tasks : TaskOK(u)
  BY DEF FlowInv, Flow
<1>2. /\ work[w].event = "report" /\ About(w, t)
      /\ work[w].report \in {"running", "succeeded", "failed"}
      /\ \A v \in Workers : About(v, t) => v = w
  BY <1>0 DEF RequestOK, ReportOK, About, HostTypes, Requests, Results
<1>3. /\ \A v \in Workers : \A u : About(v, u)' <=> About(v, u)
      /\ \A q \in Procs : \A u : /\ Received(q, u)' <=> Received(q, u)
                                 /\ Decoded(q, u)' <=> Decoded(q, u)
                                 /\ Holds(q, u)' <=> Holds(q, u)
  BY DEF About, Received, Decoded, Holds
<1>4. ASSUME NEW v \in Workers
      PROVE  RequestOK(v)' /\ ReportOK(v)'
  <2>1. RequestOK(v) /\ ReportOK(v)
    BY <1>1
  <2>2. RequestOK(v)'
    BY <2>1 DEF RequestOK
  <2>3. CASE v = w
    BY <1>2, <1>3, <2>1, <2>2, <2>3 DEF ReportOK
  <2>4. CASE v # w
    <3>1. work[v].event = "report" => work[v].task \in Tasks \ {t}
      BY <1>2, <2>1, <2>4 DEF About, RequestOK
    <3> QED BY <1>3, <2>1, <2>2, <2>4, <3>1 DEF ReportOK
  <2> QED BY <2>2, <2>3, <2>4
<1>5. ASSUME NEW q \in Procs
      PROVE  ProcessOK(q)'
  <2>1. ProcessOK(q)
    BY <1>1
  <2>2. proc[q].at \in Working => proc[q].task \in Tasks \ {t}
    BY <1>0, <1>2, <2>1 DEF ProcessOK, HostTypes, Processes
  <2> QED BY <1>3, <2>1, <2>2 DEF ProcessOK
<1>6. ASSUME NEW q \in Procs, NEW u \in Tasks
      PROVE  HeldOK(q, u)'
  <2>1. HeldOK(q, u)
    BY <1>1
  <2>2. CASE u = t
    BY <1>2, <1>3, <2>1, <2>2 DEF HeldOK
  <2>3. CASE u # t
    BY <1>3, <2>1, <2>3 DEF HeldOK
  <2> QED BY <2>2, <2>3
<1>7. ASSUME NEW u \in Tasks
      PROVE  TaskOK(u)'
  <2>1. TaskOK(u)
    BY <1>1
  <2>2. work[w].report = "succeeded" => t \in done
    BY <1>0, <1>2 DEF ReportOK
  <2> QED BY <1>2, <2>1, <2>2 DEF TaskOK
<1> QED BY <1>4, <1>5, <1>6, <1>7 DEF Flow

(* MarkTaskRunning and RecordTaskResult are never refused: *)
(* the request is the only one about its task. *)
LEMMA WriteStep ==
  ASSUME FlowInv, NEW w \in Workers, WriteReport(w)
  PROVE  HostTypes' /\ Flow'
<1>0. HostTypes /\ RequestOK(w)
      /\ UNCHANGED <<row, target, done, active, previous>>
      /\ job[w].stage = "checked"
  BY DEF FlowInv, Flow, WriteReport, Store!MarkTaskRunning, Store!RecordTaskResult, hostVars
<1>1. /\ work[w].event = "report" /\ job[w].task = work[w].task
      /\ job[w].report = work[w].report
  BY <1>0 DEF RequestOK
<1>2. PICK t \in Tasks : t = work[w].task
  BY <1>1, ReportAdmissible
<1>3. /\ state[t] = IF work[w].report = "running" THEN "assigned" ELSE "running"
      /\ result[t] = "none"
  BY <1>0, <1>1, <1>2, ReportAdmissible
<1>4. /\ job' = Store!Stored(w)
      /\ state' = [state EXCEPT ![t] = work[w].report]
      /\ result' = IF work[w].report = "running" THEN result
                   ELSE [result EXCEPT ![t] = work[w].report]
  <2>1. CASE Store!MarkTaskRunning(w)
    BY <1>1, <1>2, <1>3, <2>1 DEF Store!MarkTaskRunning
  <2>2. CASE Store!RecordTaskResult(w, now)
    BY <1>1, <1>2, <1>3, <2>2 DEF Store!RecordTaskResult, Store!Terminal
  <2> QED BY <2>1, <2>2 DEF WriteReport
<1>5. P!TypeOK /\ state \in [Tasks -> P!TaskStates \cup {"none"}]
      /\ result \in [Tasks -> P!Terminal \cup {"none"}]
  BY DEF FlowInv, P!TaskInv, P!TypeOK
<1>6. /\ job'[w].stage = "stored" /\ job'[w].task = job[w].task
      /\ job'[w].report = job[w].report
      /\ \A v \in Workers \ {w} : job'[v] = job[v]
  <2>1. job[w] \in P!Jobs /\ DOMAIN job = Workers
    BY <1>5 DEF P!TypeOK
  <2>2. job[w] \in [stage : {"checked", "stored"}, task : Tasks, report : P!Reports]
    BY <1>0, <2>1 DEF P!Jobs, P!IdleJob
  <2> QED BY <1>4, <2>1, <2>2 DEF Store!Stored
<1>7. /\ state'[t] = work[w].report
      /\ result'[t] = IF work[w].report = "running" THEN "none" ELSE work[w].report
      /\ \A u \in Tasks \ {t} : state'[u] = state[u] /\ result'[u] = result[u]
  BY <1>3, <1>4, <1>5
<1>8. UNCHANGED <<work, proc, bound>>
  BY <1>6 DEF WriteReport
<1>9. Flow'
  BY <1>0, <1>2, <1>6, <1>7, <1>8, ReportWritten
<1> QED BY <1>0, <1>8, <1>9 DEF HostTypes

(* A task leaves the queue into the inbox of one process, or is lost with a *)
(* session whose end nobody noticed. *)
LEMMA HandOutStep ==
  ASSUME FlowInv, NEW t \in Tasks, HandOutTask(t)
  PROVE  HostTypes' /\ Flow'
<1>0. HostTypes /\ UNCHANGED <<row, result, job, target, work, bound, done, active, previous>>
      /\ state[t] = "queued" /\ state' = [state EXCEPT ![t] = "assigned"]
  BY DEF FlowInv, HandOutTask, Store!ClaimNextTaskForAgent, Store!Claimable, hostVars
<1>1. /\ \A w \in Workers : RequestOK(w) /\ ReportOK(w)
      /\ \A q \in Procs : ProcessOK(q) /\ \A u \in Tasks : HeldOK(q, u)
      /\ \A u \in Tasks : TaskOK(u)
  BY DEF FlowInv, Flow
<1>2. state'[t] = "assigned" /\ \A u : u # t => state'[u] = state[u]
  BY <1>0, StoreTypes DEF FlowInv
<1>3. /\ \A q \in Procs : ~Holds(q, t)
      /\ \A w \in Workers : ~About(w, t)
      /\ t \notin done
  <2>1. \A w \in Workers : work[w].report \in {"running", "succeeded", "failed"}
    BY <1>0 DEF HostTypes, Requests, Results
  <2>2. \A w \in Workers : ~About(w, t)
    BY <1>0, <1>1, <2>1 DEF ReportOK, About
  <2> QED BY <1>0, <1>1, <2>2 DEF HeldOK, TaskOK
<1>4. PICK p \in Procs \cup {Lost} :
        proc' = IF p = Lost THEN proc
                ELSE [proc EXCEPT ![p] = [proc[p] EXCEPT !.inbox = Append(proc[p].inbox, t)]]
  <2>1. Claimants \subseteq Procs \cup {Lost}
    BY <1>0 DEF HandOutTask, Claimants, HostTypes
  <2> QED BY <2>1 DEF HandOutTask
<1>5. /\ proc' \in [Procs -> Processes]
      /\ \A q \in Procs :
           /\ proc'[q].batch = proc[q].batch /\ proc'[q].task = proc[q].task
           /\ proc'[q].at = proc[q].at /\ proc'[q].report = proc[q].report
           /\ proc'[q].version = proc[q].version
           /\ proc'[q].inbox = IF q = p THEN Append(proc[q].inbox, t) ELSE proc[q].inbox
  <2>1. CASE p = Lost
    BY <1>0, <1>4, <2>1, ProcsOK DEF HostTypes
  <2>2. CASE p # Lost
    <3> DEFINE q == [proc[p] EXCEPT !.inbox = Append(proc[p].inbox, t)]
    <3>1. proc[p] \in Processes /\ p \in Procs
      BY <1>0, <2>2 DEF HostTypes
    <3>2. Append(proc[p].inbox, t) \in Seq(Tasks)
      BY <3>1 DEF Processes
    <3>3. /\ q \in Processes /\ q.inbox = Append(proc[p].inbox, t)
          /\ q.batch = proc[p].batch /\ q.task = proc[p].task /\ q.at = proc[p].at
          /\ q.report = proc[p].report /\ q.version = proc[p].version
      BY <3>1, <3>2 DEF Processes
    <3>4. proc' = [proc EXCEPT ![p] = q]
      BY <1>4, <2>2
    <3> HIDE DEF q
    <3>5. proc' \in [Procs -> Processes] /\ proc'[p] = q
          /\ \A d \in Procs \ {p} : proc'[d] = proc[d]
      BY <1>0, <3>1, <3>3, <3>4, SetProcess
    <3> QED BY <3>3, <3>5
  <2> QED BY <2>1, <2>2
<1>6. ASSUME NEW q \in Procs, NEW u \in Tasks
      PROVE  /\ Decoded(q, u)' <=> Decoded(q, u)
             /\ Received(q, u)' <=> Received(q, u) \/ (q = p /\ u = t)
             /\ Holds(q, u)' <=> Holds(q, u) \/ (q = p /\ u = t)
             /\ Once(proc'[q].inbox, u) /\ Once(proc'[q].batch, u)
  <2>1. HeldOK(q, u)
    BY <1>1
  <2>2. proc[q].inbox \in Seq(Tasks)
    BY <1>0 DEF HostTypes, Processes
  <2>3. ~In(proc[q].inbox, t)
    BY <1>3 DEF Holds, Received
  <2>4. In(proc'[q].inbox, u) <=> In(proc[q].inbox, u) \/ (q = p /\ u = t)
    BY <1>5, <2>2, AppendToQueue
  <2>5. Once(proc'[q].inbox, u)
    BY <1>5, <2>1, <2>2, <2>3, AppendToQueue DEF HeldOK
  <2> QED BY <1>5, <2>1, <2>4, <2>5 DEF Decoded, Received, Holds, HeldOK
<1>7. \A w \in Workers : \A u : About(w, u)' <=> About(w, u)
  BY <1>0 DEF About
<1>8. ASSUME NEW w \in Workers
      PROVE  RequestOK(w)' /\ ReportOK(w)'
  <2>1. RequestOK(w) /\ ReportOK(w)
    BY <1>1
  <2>2. work[w].from # Nil => work[w].from \in Procs
    BY <1>0 DEF HostTypes, Requests
  <2>3. RequestOK(w)'
    BY <1>0, <1>5, <2>1, <2>2 DEF RequestOK
  <2>4. work[w].event = "report" => work[w].task \in Tasks \ {t}
    BY <1>3, <2>1 DEF RequestOK, About
  <2> QED BY <1>0, <1>2, <1>6, <1>7, <2>1, <2>3, <2>4 DEF ReportOK
<1>9. ASSUME NEW q \in Procs
      PROVE  ProcessOK(q)'
  <2>1. ProcessOK(q) /\ proc[q].task # t
    BY <1>1, <1>3 DEF Holds
  <2> QED BY <1>0, <1>2, <1>5, <1>7, <2>1 DEF ProcessOK
<1>10. ASSUME NEW q \in Procs, NEW u \in Tasks
       PROVE  HeldOK(q, u)'
  <2>1. HeldOK(q, u) /\ proc[q].task # t
    BY <1>1, <1>3 DEF Holds
  <2>2. CASE u = t
    BY <1>2, <1>3, <1>5, <1>6, <1>7, <2>1, <2>2 DEF HeldOK, Holds
  <2>3. CASE u # t
    BY <1>2, <1>5, <1>6, <1>7, <2>1, <2>3 DEF HeldOK
  <2> QED BY <2>2, <2>3
<1>11. ASSUME NEW u \in Tasks
       PROVE  TaskOK(u)'
  BY <1>0, <1>1, <1>2, <1>3 DEF TaskOK
<1>12. Flow'
  BY <1>8, <1>9, <1>10, <1>11 DEF Flow
<1> QED BY <1>0, <1>5, <1>12 DEF HostTypes

(* What the tables gain, or the registry notices, disturbs nobody: a task  *)
(* that enters the queue was with no one. *)
LEMMA TablesGrow ==
  ASSUME FlowInv, UNCHANGED <<result, job, work, proc, done>>,
         \A u \in Tasks : \/ state'[u] = state[u]
                          \/ state[u] = "none" /\ state'[u] = "queued",
         \A u \in Tasks : row'[u] # Nil /\ row'[u].kind = "agent" => target'[u] \in Versions
  PROVE  Flow'
<1>1. /\ \A w \in Workers : RequestOK(w) /\ ReportOK(w)
      /\ \A q \in Procs : ProcessOK(q) /\ \A u \in Tasks : HeldOK(q, u)
      /\ \A u \in Tasks : TaskOK(u)
      /\ HostTypes
  BY DEF FlowInv, Flow
<1>2. /\ \A w, u : About(w, u)' <=> About(w, u)
      /\ \A q, u : /\ Received(q, u)' <=> Received(q, u)
                   /\ Decoded(q, u)' <=> Decoded(q, u)
                   /\ Holds(q, u)' <=> Holds(q, u)
  BY DEF About, Received, Decoded, Holds
<1>3. ASSUME NEW w \in Workers
      PROVE  RequestOK(w)' /\ ReportOK(w)'
  <2>1. RequestOK(w) /\ ReportOK(w)
    BY <1>1
  <2>2. RequestOK(w)'
    BY <2>1 DEF RequestOK
  <2>3. work[w].event = "report" => work[w].task \in Tasks
    BY <2>1 DEF RequestOK
  <2>4. work[w].event = "report" => state'[work[w].task] = state[work[w].task]
    <3>1. work[w].report \in {"running", "succeeded", "failed"}
      BY <1>1 DEF HostTypes, Requests, Results
    <3> QED BY <2>1, <2>3, <3>1 DEF ReportOK
  <2> QED BY <1>2, <2>1, <2>2, <2>4 DEF ReportOK
<1>4. ASSUME NEW q \in Procs
      PROVE  ProcessOK(q)'
  <2>1. ProcessOK(q)
    BY <1>1
  <2>2. proc[q].at \in Working => proc[q].task \in Tasks
    BY <1>1, <2>1 DEF ProcessOK, HostTypes, Processes
  <2> QED BY <1>2, <2>1, <2>2 DEF ProcessOK
<1>5. ASSUME NEW q \in Procs, NEW u \in Tasks
      PROVE  HeldOK(q, u)'
  BY <1>1, <1>2 DEF HeldOK, Holds
<1>6. ASSUME NEW u \in Tasks
      PROVE  TaskOK(u)'
  BY <1>1 DEF TaskOK
<1> QED BY <1>3, <1>4, <1>5, <1>6 DEF Flow

(* The administration requests, an end of a session noticed, the clock, and *)
(* steps that change nothing. *)
LEMMA TablesStep ==
  ASSUME FlowInv,
         \/ AdminStep \/ NoticeLostSession \/ (Store!Tick /\ Unrelated)
         \/ UNCHANGED vars
  PROVE  HostTypes' /\ Flow'
<1>0. HostTypes /\ P!TypeOK /\ \A u \in Tasks : TaskOK(u)
  BY DEF FlowInv, Flow, P!TaskInv
<1>1. \A u \in Tasks : row[u] # Nil /\ row[u].kind = "agent" => target[u] \in Versions
  BY <1>0 DEF TaskOK
<1>2. CASE \/ AdminStep /\ UNCHANGED <<row, state, result, job>> /\ Unrelated
           \/ NoticeLostSession \/ (Store!Tick /\ Unrelated) \/ UNCHANGED vars
  <2>1. /\ UNCHANGED <<row, state, result, job, target, work, active, previous, done, proc>>
        /\ bound' \in {bound, Nil}
    BY <1>2 DEF NoticeLostSession, Store!Tick, Unrelated, vars, storeVars, hostVars
  <2>2. Flow'
    BY <1>1, <2>1, TablesGrow
  <2> QED BY <1>0, <2>1, <2>2 DEF HostTypes
<1>3. CASE \E t \in Tasks, p \in Tasks \cup {Nil}, e \in Expiries : ScheduleUpgrade(t, p, e)
  <2>1. PICK t \in Tasks, p \in Tasks \cup {Nil}, e \in Expiries : ScheduleUpgrade(t, p, e)
    BY <1>3
  <2>2. /\ UNCHANGED <<result, job, work, bound, active, previous, done, proc>>
        /\ target' = [target EXCEPT ![t] = admin.version]
        /\ admin.version \in Versions
        /\ state[t] = "none"
        /\ \/ /\ state' = [state EXCEPT ![t] = "queued"]
              /\ row' = [row EXCEPT ![t] = Store!NewRow(admin.agent, "agent", Nil, e)]
           \/ /\ p \in Tasks \ {t} /\ state[p] = "none"
              /\ state' = [state EXCEPT ![t] = "queued", ![p] = "queued"]
              /\ row' = [row EXCEPT ![p] = Store!NewRow(admin.agent, "installer", Nil, e),
                                    ![t] = Store!NewRow(admin.agent, "agent", p, e)]
    BY <2>1, StoreTypes DEF FlowInv, ScheduleUpgrade, Store!ScheduleAgentUpgrade, hostVars
  <2>3. target' \in [Tasks -> Versions \cup {Nil}] /\ target'[t] \in Versions
        /\ \A u \in Tasks \ {t} : target'[u] = target[u]
    BY <1>0, <2>2 DEF HostTypes
  <2>4. \A u \in Tasks : \/ state'[u] = state[u]
                         \/ state[u] = "none" /\ state'[u] = "queued"
    BY <1>0, <2>2 DEF P!TypeOK
  <2>5. ASSUME NEW u \in Tasks, row'[u] # Nil, row'[u].kind = "agent"
        PROVE  target'[u] \in Versions
    <3>1. CASE u = t
      BY <2>3, <3>1
    <3>2. CASE u # t /\ row'[u] = row[u]
      BY <1>1, <2>3, <2>5, <3>2
    <3>3. CASE u # t /\ row'[u] # row[u]
      <4>1. row'[u] = Store!NewRow(admin.agent, "installer", Nil, e)
        BY <1>0, <2>2, <3>3 DEF P!TypeOK
      <4> QED BY <2>5, <4>1 DEF Store!NewRow
    <3> QED BY <3>1, <3>2, <3>3
  <2>6. Flow'
    BY <2>2, <2>4, <2>5, TablesGrow
  <2> QED BY <1>0, <2>2, <2>3, <2>6 DEF HostTypes
<1>4. CASE \E t \in Tasks, e \in Expiries : Store!ScheduleAgentRollback(t, e) /\ Unrelated
  <2>1. PICK t \in Tasks, e \in Expiries : Store!ScheduleAgentRollback(t, e) /\ Unrelated
    BY <1>4
  <2>2. /\ UNCHANGED <<result, job, target, work, bound, active, previous, done, proc>>
        /\ state[t] = "none" /\ state' = [state EXCEPT ![t] = "queued"]
        /\ row' = [row EXCEPT ![t] = Store!NewRow(admin.agent, "rollback", Nil, e)]
    BY <2>1 DEF Store!ScheduleAgentRollback, Unrelated, hostVars
  <2>3. \A u \in Tasks : \/ state'[u] = state[u]
                         \/ state[u] = "none" /\ state'[u] = "queued"
    BY <1>0, <2>2 DEF P!TypeOK
  <2>4. \A u \in Tasks : row'[u] # Nil /\ row'[u].kind = "agent" => target'[u] \in Versions
    <3>1. ASSUME NEW u \in Tasks
          PROVE  row'[u] = row[u] \/ row'[u].kind = "rollback"
      BY <1>0, <2>2 DEF P!TypeOK, Store!NewRow
    <3> QED BY <1>1, <2>2, <3>1
  <2>5. Flow'
    BY <2>2, <2>3, <2>4, TablesGrow
  <2> QED BY <1>0, <2>2, <2>5 DEF HostTypes
<1> QED BY <1>2, <1>3, <1>4 DEF AdminStep, Store!AdminRead, Store!AdminUpgrade,
           Store!AdminRollback, Store!ClearDesired

(* A restart of the server: every request is forgotten, every connection   *)
(* broken. *)
LEMMA RestartStep ==
  ASSUME FlowInv, RestartServer
  PROVE  HostTypes' /\ Flow'
<1>0. HostTypes /\ UNCHANGED <<row, state, result, target, done, active, previous>>
      /\ bound' = Nil /\ work' = [w \in Workers |-> NoRequest]
      /\ job' = [w \in Workers |-> Store!IdleJob]
      /\ proc' = [p \in Procs |-> IF proc[p].at \in Connected
                                  THEN Disconnected(proc[p]) ELSE proc[p]]
  BY DEF FlowInv, RestartServer, Store!Restart, Store!dbVars, hostVars
<1>1. /\ \A q \in Procs : ProcessOK(q) /\ \A u \in Tasks : HeldOK(q, u)
      /\ \A u \in Tasks : TaskOK(u)
      /\ \A q \in Procs : proc[q] \in Processes
  BY <1>0 DEF FlowInv, Flow, HostTypes
<1>2. NoRequest \in Requests /\ NoRequest.event = "none" /\ NoRequest.from = Nil
  BY DEF NoRequest, Requests
<1>3. /\ work' \in [Workers -> Requests]
      /\ \A w \in Workers : work'[w].event = "none" /\ work'[w].from = Nil
                            /\ job'[w].stage = "idle"
  BY <1>0, <1>2 DEF Store!IdleJob
<1>4. ASSUME NEW q \in Procs
      PROVE  /\ proc'[q] \in Processes
             /\ \/ /\ proc'[q].inbox = proc[q].inbox /\ proc'[q].batch = proc[q].batch
                   /\ proc'[q].task = proc[q].task /\ proc'[q].report = proc[q].report
                   /\ proc'[q].at = proc[q].at /\ proc'[q].version = proc[q].version
                   /\ proc[q].at \notin Connected \ Working
                \/ /\ proc'[q].inbox = <<>> /\ proc'[q].batch = <<>>
                   /\ proc'[q].task = Nil
                   /\ \/ proc'[q].at = "absent"
                      \/ proc'[q].at = "offline" /\ proc'[q].version \in Versions
  <2>1. proc'[q] = IF proc[q].at \in Connected THEN Disconnected(proc[q]) ELSE proc[q]
    BY <1>0
  <2>2. CASE proc[q].at \notin Connected
    BY <1>1, <2>1, <2>2
  <2>3. CASE proc[q].at \in Working
    <3>1. proc[q].at \in Connected
      BY <2>3 DEF Connected
    <3> QED BY <1>1, <2>1, <2>3, <3>1, DisconnectedFields
  <2>4. CASE proc[q].at \in Connected \ Working
    <3>1. proc[q].version \in Versions
      BY <1>1, <2>4 DEF ProcessOK
    <3> QED BY <1>1, <2>1, <2>4, <3>1, DisconnectedFields
  <2> QED BY <2>2, <2>3, <2>4
<1>5. proc' \in [Procs -> Processes]
  BY <1>0, <1>4
<1>6. /\ \A w \in Workers : RequestOK(w)' /\ ReportOK(w)'
      /\ \A w \in Workers : \A u : ~About(w, u)'
  BY <1>3 DEF RequestOK, ReportOK, About
<1>7. Nil \notin Tasks
  BY StoreOK DEF Store!ConstantsOK
<1>8. ASSUME NEW q \in Procs
      PROVE  ProcessOK(q)'
  <2>1. ProcessOK(q)
    BY <1>1
  <2> QED BY <1>0, <1>3, <1>4, <2>1 DEF ProcessOK, Connected, Working, About
<1>9. \A q \in Procs, u \in Tasks :
        /\ Received(q, u)' => Received(q, u)
        /\ Decoded(q, u)' => Decoded(q, u)
        /\ proc'[q].task = u => proc[q].task = u
        /\ Once(proc'[q].inbox, u) /\ Once(proc'[q].batch, u)
  <2>1. \A u : ~In(<<>>, u) /\ Once(<<>>, u)
    BY DEF In, Once
  <2> QED BY <1>1, <1>4, <1>7, <2>1 DEF Received, Decoded, HeldOK
<1>10. ASSUME NEW q \in Procs, NEW u \in Tasks
       PROVE  HeldOK(q, u)'
  <2>1. HeldOK(q, u)
    BY <1>1
  <2> QED BY <1>0, <1>6, <1>9, <2>1 DEF HeldOK, Holds
<1>11. \A u \in Tasks : TaskOK(u)'
  BY <1>0, <1>1 DEF TaskOK
<1>12. Flow'
  BY <1>6, <1>8, <1>10, <1>11 DEF Flow
<1> QED BY <1>0, <1>3, <1>5, <1>12 DEF HostTypes

----------------------------------------------------------------------------
(* Every step is a step of the tables with reports in order, or leaves      *)
(* them alone. *)
LEMMA StoreStep ==
  ASSUME FlowInv, [Next]_vars
  PROVE  [Store!OrderlyNext]_(Store!vars)
<1>1. UNCHANGED storeVars => UNCHANGED Store!vars
  BY DEF storeVars, Store!vars
<1>2. now \in Store!Times
  BY StoreTypes DEF FlowInv, Store!TypeOK
<1>3. ASSUME NEW p \in Procs, ProcessStep(p)
      PROVE  UNCHANGED Store!vars
  BY <1>1, <1>3, HostStep
<1>4. ASSUME NEW w \in Workers, WorkerStep(w)
      PROVE  Store!OrderlyNext
  <2>1. CASE HandleRegister(w)
    <3>1. work[w].version \in Versions
      BY <2>1 DEF HandleRegister, FlowInv, Flow, RequestOK
    <3> QED BY <2>1, <3>1 DEF HandleRegister, Store!OrderlyNext, Store!AgentStep
  <2>2. CASE CheckReport(w)
    <3>1. /\ work[w].event = "report" /\ job[w].stage = "idle"
          /\ UNCHANGED <<now, row, state, result, agent, audit, admin>>
      BY <2>2 DEF CheckReport
    <3> DEFINE t == work[w].task
               r == work[w].report
    <3>2. /\ t \in Tasks /\ r \in {"running"} \cup Results /\ Admissible(t, r)
          /\ Store!Executed(t) \/ r = "running"
      BY <3>1, ReportAdmissible
    <3>3. job' = [job EXCEPT ![w] = [stage |-> "checked", task |-> t, report |-> r]]
      BY <2>2, <3>2 DEF CheckReport
    <3> HIDE DEF t, r
    <3>4. CASE r = "running"
      <4>1. Store!CheckRunning(w, t)
        BY <3>1, <3>2, <3>3, <3>4 DEF Store!CheckRunning, Admissible, Store!dbVars
      <4> QED BY <3>2, <4>1 DEF Store!OrderlyNext, Store!WorkerStep
    <3>5. CASE r # "running"
      <4>1. r \in Store!Terminal
        BY <3>2, <3>5 DEF Results, Store!Terminal
      <4>2. Store!Executed(t) /\ Store!CheckResult(w, t, r)
        BY <3>1, <3>2, <3>3, <3>5
        DEF Store!CheckResult, Store!Executed, Store!Terminal, Admissible, Store!dbVars
      <4> QED BY <3>2, <4>1, <4>2 DEF Store!OrderlyNext, Store!ResultOfRunning
    <3> QED BY <3>4, <3>5
  <2>3. CASE WriteReport(w)
    BY <1>2, <2>3 DEF WriteReport, Store!OrderlyNext, Store!WorkerStep
  <2>4. CASE AuditReport(w)
    BY <2>4 DEF AuditReport, Store!OrderlyNext, Store!WorkerStep
  <2> QED BY <1>4, <2>1, <2>2, <2>3, <2>4 DEF WorkerStep
<1>5. ASSUME NEW t \in Tasks, HandOutTask(t)
      PROVE  Store!OrderlyNext
  BY <1>2, <1>5 DEF HandOutTask, Store!OrderlyNext, Store!AgentStep
<1>6. AdminStep => Store!OrderlyNext
  BY DEF AdminStep, ScheduleUpgrade, Store!OrderlyNext, Store!AdminStep
<1>7. NoticeLostSession \/ UNCHANGED vars => UNCHANGED Store!vars
  BY <1>1 DEF NoticeLostSession, vars
<1>8. RestartServer \/ Store!Tick => Store!OrderlyNext
  BY DEF RestartServer, Store!OrderlyNext
<1> QED BY <1>3, <1>4, <1>5, <1>6, <1>7, <1>8 DEF Next

(* The invariant survives every step. *)
LEMMA FlowStep == FlowInv /\ [Next]_vars => FlowInv'
<1> SUFFICES ASSUME FlowInv, [Next]_vars PROVE FlowInv'
  OBVIOUS
<1>1. P!TaskInv'
  <2>1. [P!Next]_(P!vars)
    BY StoreStep, SameSteps, P!OrderlyIsNext, SameConstants DEF P!vars, Store!vars
  <2>2. P!TaskInv
    BY DEF FlowInv
  <2> QED BY <2>1, <2>2, P!TaskStep, SameConstants
<1>2. HostTypes' /\ Flow'
  <2>1. ASSUME NEW p \in Procs, ProcessStep(p)
        PROVE  HostTypes' /\ Flow'
    BY <2>1, HostStep
  <2>2. ASSUME NEW w \in Workers, WorkerStep(w)
        PROVE  HostTypes' /\ Flow'
    BY <2>2, AnswerStep, CheckStep, WriteStep DEF WorkerStep
  <2>3. ASSUME NEW t \in Tasks, HandOutTask(t)
        PROVE  HostTypes' /\ Flow'
    BY <2>3, HandOutStep
  <2>4. CASE \/ AdminStep \/ NoticeLostSession \/ (Store!Tick /\ Unrelated)
             \/ UNCHANGED vars
    BY <2>4, TablesStep
  <2>5. CASE RestartServer
    BY <2>5, RestartStep
  <2> QED BY <2>1, <2>2, <2>3, <2>4, <2>5 DEF Next
<1> QED BY <1>1, <1>2 DEF FlowInv

(* What the connections and the host keep up, in every state. *)
THEOREM FlowInvariant == Spec => []FlowInv
<1>1. Init => FlowInv
  BY InitFlow
<1>2. FlowInv /\ [Next]_vars => FlowInv'
  BY FlowStep
<1> QED BY <1>1, <1>2, PTL DEF Spec

(* The types hold in every state: of the tables, of the requests under way, *)
(* of the host and of its processes. *)
THEOREM TypesHold == Spec => []TypeOK
<1>1. FlowInv => TypeOK
  BY StoreTypes DEF FlowInv, HostTypes, TypeOK
<1> QED BY <1>1, FlowInvariant, PTL

(* Agents that lose connections, die, and replace themselves, and a server *)
(* that restarts, use the tables with reports in order: RecordTaskResult   *)
(* sees no result before MarkTaskRunning saw the task running. *)
THEOREM StoreIsImplemented == Spec => StoreSpec
<1>1. Init => Store!Init
  BY DEF Init
<1>2. FlowInv /\ [Next]_vars => [Store!OrderlyNext]_(Store!vars)
  BY StoreStep
<1> QED BY <1>1, <1>2, FlowInvariant, PTL DEF Spec, StoreSpec, Store!OrderlySpec

(* No task is executed twice, nor while the server believes it not started *)
(* or ended: the answer to the running report (handle_command) is what     *)
(* execution waits for. *)
THEOREM ExecutedOnceHolds == Spec => []ExecutedOnce
<1>1. ASSUME FlowInv
      PROVE  ExecutedOnce
  <2> SUFFICES ASSUME NEW p \in Procs, proc[p].at \in Working
               PROVE  /\ state[proc[p].task] = "running"
                      /\ proc[p].task \notin done \/ proc[p].at = "updated"
                      /\ \A q \in Procs \ {p} :
                           proc[q].at \in Connected => proc[q].task # proc[p].task
    BY DEF ExecutedOnce
  <2>1. ProcessOK(p) /\ proc[p].task \in Tasks
    BY <1>1 DEF FlowInv, Flow, HostTypes, Processes, ProcessOK
  <2>2. \A q \in Procs : proc[q].task = proc[p].task => q = p
    BY <1>1, <2>1 DEF FlowInv, Flow, HeldOK, Holds
  <2> QED BY <2>1, <2>2 DEF ProcessOK, Working
<1> QED BY <1>1, FlowInvariant, PTL

(* A task recorded as succeeded (RecordTaskResult) was carried out on the  *)
(* host: no reordering or loss turns a failed update into a success. *)
THEOREM SuccessIsTrueHolds == Spec => []SuccessIsTrue
<1>1. FlowInv => SuccessIsTrue
  BY DEF FlowInv, Flow, TaskOK, SuccessIsTrue
<1> QED BY <1>1, FlowInvariant, PTL

----------------------------------------------------------------------------
(* The promises of TaskStore, of the whole system.                        *)

(* Reports stay in order.                                                  *)
LEMMA OrderKept ==
  P!OrderInv /\ FlowInv /\ [Next]_vars =>
    /\ P!OrderInv'
    /\ [Lifecycle!LifecycleNext]_(Lifecycle!lifecycleVars)
<1> SUFFICES ASSUME P!OrderInv, FlowInv, [Next]_vars
             PROVE  /\ P!OrderInv'
                    /\ [Lifecycle!LifecycleNext]_(Lifecycle!lifecycleVars)
  OBVIOUS
<1>1. [P!OrderlyNext]_(P!vars)
  BY StoreStep, SameSteps DEF P!vars, Store!vars
<1>2. P!OrderInv' /\ [P!Lifecycle!LifecycleNext]_(P!Lifecycle!lifecycleVars)
  BY <1>1, P!OrderStep, P!LifecycleStep, SameConstants
<1>3. /\ P!Lifecycle!LifecycleNext <=> Lifecycle!LifecycleNext
      /\ P!Lifecycle!lifecycleVars = Lifecycle!lifecycleVars
  BY DEF P!Lifecycle!LifecycleNext, Lifecycle!LifecycleNext,
     P!Lifecycle!Create, Lifecycle!Create,
     P!Lifecycle!Advance, Lifecycle!Advance,
     P!Lifecycle!CanTransition, Lifecycle!CanTransition,
     P!Lifecycle!Terminal, Lifecycle!Terminal,
     P!Lifecycle!lifecycleVars, Lifecycle!lifecycleVars
<1>4. UNCHANGED P!Lifecycle!lifecycleVars <=> UNCHANGED Lifecycle!lifecycleVars
  BY DEF P!Lifecycle!lifecycleVars, Lifecycle!lifecycleVars
<1> QED BY <1>2, <1>3, <1>4

(* At all times.                                                           *)
LEMMA OrderHolds == Spec => [](FlowInv /\ P!OrderInv)
<1>1. Init => P!OrderInv
  <2> SUFFICES ASSUME Init PROVE P!OrderInv
    OBVIOUS
  <2>1. P!Init
    BY SameSteps DEF Init
  <2> QED BY <2>1, P!InitOrderInv, SameConstants
<1> QED BY <1>1, OrderKept, FlowInvariant, PTL DEF Spec

(* In the whole system a task moves along the transitions of               *)
(* CanTransitionTaskState only, although RecordTaskResult would record the *)
(* result of a queued or assigned one. *)
THEOREM LifecycleIsImplemented == Spec => LifecycleSpec
<1>1. Init => Lifecycle!LifecycleInit
  BY DEF Init, Store!Init, Lifecycle!LifecycleInit
<1> QED BY <1>1, OrderKept, OrderHolds, PTL
        DEF Spec, LifecycleSpec, Lifecycle!LifecycleSpec

(* In the whole system no chained task leaves the queue before the one it  *)
(* is chained to succeeded, by a claim or by a report.                     *)
THEOREM PrerequisitesAreRespected == Spec => []PrerequisiteRespected
<1>1. P!OrderInv => PrerequisiteRespected
  BY DEF P!OrderInv, P!PrerequisiteRespected, P!InOrder,
     PrerequisiteRespected, Store!PrerequisiteRespected, Store!InOrder
<1> QED BY <1>1, OrderHolds, PTL

(* The invariants of the tables, under either name. *)
LEMMA SameProperties ==
  /\ P!ResultRecordedOnce <=> Store!ResultRecordedOnce
  /\ P!AuditTruthful <=> Store!AuditTruthful
  /\ P!UpgradeAgrees <=> Store!UpgradeAgrees
  /\ P!ConfirmedMatchesDesired <=> Store!ConfirmedMatchesDesired
<1>1. P!Terminal = Store!Terminal
  BY DEF Store!Terminal, P!Terminal
<1>3. P!AuditTruthful <=> Store!AuditTruthful
  BY <1>1 DEF Store!AuditTruthful, P!AuditTruthful
<1>4. P!UpgradeAgrees <=> Store!UpgradeAgrees
  BY Zenon DEF Store!UpgradeAgrees, P!UpgradeAgrees,
     Store!AgreesWithTasks, P!AgreesWithTasks,
     Store!FailedStates, P!FailedStates, Store!Chain, P!Chain
<1>5. P!ConfirmedMatchesDesired <=> Store!ConfirmedMatchesDesired
  BY DEF Store!ConfirmedMatchesDesired, P!ConfirmedMatchesDesired
<1>6. P!ResultRecordedOnce <=> Store!ResultRecordedOnce
  BY <1>1 DEF Store!ResultRecordedOnce, P!ResultRecordedOnce
<1> QED BY <1>3, <1>4, <1>5, <1>6

(* The invariant of the upgrade columns, of the whole system. *)
LEMMA ColumnsStep ==
  P!UpgradeInv /\ FlowInv /\ [Next]_vars =>
    /\ P!UpgradeInv'
    /\ [\A a \in {Self} : P!VerdictKept(a)]_(Store!vars)
<1> SUFFICES ASSUME P!UpgradeInv, FlowInv, [Next]_vars
             PROVE  P!UpgradeInv' /\ \A a \in {Self} : P!VerdictKept(a)
  OBVIOUS
<1>1. [P!Next]_(P!vars)
  BY StoreStep, SameSteps, P!OrderlyIsNext, SameConstants DEF P!vars, Store!vars
<1> QED BY <1>1, P!UpgradeStep, SameConstants

(* It holds at all times. *)
LEMMA ColumnsHold == Spec => [](FlowInv /\ P!UpgradeInv)
<1>1. Init => P!UpgradeInv
  <2> SUFFICES ASSUME Init PROVE P!UpgradeInv
    OBVIOUS
  <2>1. P!Init /\ P!TaskInv
    BY InitFlow, SameSteps DEF Init, FlowInv
  <2> QED BY <2>1, SameConstants DEF P!Init, P!UpgradeInv, P!UpgradeOK, P!AgreesWithTasks,
     P!BetweenWrites, P!Unregistered, P!IdleAdmin, P!ConstantsOK
<1> QED BY <1>1, ColumnsStep, FlowInvariant, PTL DEF Spec

(* What the tables promise holds of the whole system, whatever agents,     *)
(* connections and restarts do: a result is recorded once, audit events    *)
(* are true, and the upgrade columns of the agent (ScheduleAgentUpgrade,   *)
(* the upsert, ScheduleAgentRollback) agree with its tasks and with what   *)
(* it confirmed. *)
THEOREM TablesHold ==
  Spec => [](/\ Store!ResultRecordedOnce /\ Store!AuditTruthful
             /\ Store!UpgradeAgrees /\ Store!ConfirmedMatchesDesired)
<1>1. P!UpgradeInv => /\ P!ResultRecordedOnce /\ P!AuditTruthful
                      /\ P!UpgradeAgrees /\ P!ConfirmedMatchesDesired
  BY DEF P!UpgradeInv, P!TaskInv, P!UpgradeOK, P!UpgradeAgrees, P!ConfirmedMatchesDesired
<1> QED BY <1>1, SameProperties, ColumnsHold, PTL

(* A verdict on an upgrade stands in the whole system without exception:   *)
(* no registration of an old or a new process and no late report turns it  *)
(* round, because RecordTaskResult is given no result before its turn.     *)
THEOREM VerdictsStand ==
  Spec => [][agent[Self].upgrade \in {"succeeded", "failed"} =>
               \/ agent'[Self].upgrade = agent[Self].upgrade
               \/ agent'[Self].task # agent[Self].task]_(Store!vars)
<1>1. ASSUME P!UpgradeInv, P!OrderInv, FlowInv, [Next]_vars,
             agent[Self].upgrade \in {"succeeded", "failed"},
             agent'[Self].task = agent[Self].task
      PROVE  agent'[Self].upgrade = agent[Self].upgrade
  <2>1. (P!OrderInv' /\ P!VerdictKept(Self)) \/ UNCHANGED Store!vars
    BY <1>1, OrderKept, ColumnsStep
  <2>2. CASE UNCHANGED Store!vars
    BY <2>2 DEF Store!vars
  <2>3. agent[Self].task \in Tasks
    BY <1>1 DEF P!UpgradeInv, P!UpgradeOK, P!AgreesWithTasks, P!TaskInv,
       P!TypeOK, P!AgentRows
  <2>4. CASE P!OrderInv' /\ P!VerdictKept(Self)
    BY <1>1, <2>3, <2>4
    DEF P!OrderInv, P!PrerequisiteRespected, P!InOrder, P!VerdictKept
  <2> QED BY <2>1, <2>2, <2>4
<1>2. (FlowInv /\ P!UpgradeInv) /\ (FlowInv /\ P!OrderInv) /\ [Next]_vars =>
        [agent[Self].upgrade \in {"succeeded", "failed"} =>
           \/ agent'[Self].upgrade = agent[Self].upgrade
           \/ agent'[Self].task # agent[Self].task]_(Store!vars)
  BY <1>1
<1> QED BY <1>2, ColumnsHold, OrderHolds, PTL DEF Spec
=============================================================================
