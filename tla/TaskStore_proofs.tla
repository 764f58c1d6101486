-------------------------- MODULE TaskStore_proofs --------------------------
(***************************************************************************)
(* Theorems about TaskStore, for any number of agents, tasks, workers and  *)
(* versions.                                                               *)
(***************************************************************************)
EXTENDS TaskStore, TLAPS

(* The upgrade columns can be set to any of their values. *)
LEMMA SettleType ==
  ASSUME NEW r \in AgentRows,
         NEW u \in {"queued", "waiting_reconnect", "succeeded", "failed"},
         NEW e \in Errors \cup {"none"}, NEW x \in Times \cup {Nil}
  PROVE  Settle(r, u, e, x) \in AgentRows
BY DEF Settle, AgentRows

(* What a registration makes of an agents row is an agents row. *)
LEMMA ConfirmedUpgradeType ==
  ASSUME NEW r \in AgentRows, NEW v \in Versions, now \in Times
  PROVE  [ConfirmedUpgrade(r, v) EXCEPT !.version = v] \in AgentRows
<1>1. Settle(r, "failed", "unexpected_version", now) \in AgentRows
  BY SettleType DEF Errors
<1>2. Settle(r, "succeeded", "none", now) \in AgentRows
  BY SettleType
<1>3. r.desired \in {v, Nil} =>
        [Settle(r, "succeeded", "none", now) EXCEPT !.current = r.desired]
          \in AgentRows
  BY <1>2 DEF AgentRows
<1>4. ConfirmedUpgrade(r, v) \in AgentRows
  BY <1>1, <1>3 DEF ConfirmedUpgrade
<1> QED
  BY <1>4 DEF AgentRows

(* What a result makes of the agents table is an agents table. *)
LEMMA AgentsAfterResultType ==
  ASSUME agent \in [Agents -> AgentRows],
         NEW t, NEW s, NEW stamp \in Times
  PROVE  AgentsAfterResult(t, s, stamp) \in [Agents -> AgentRows]
<1>1. ASSUME NEW r \in AgentRows
      PROVE  AfterResult(r, t, s, stamp) \in AgentRows
  <2>1. Settle(r, "waiting_reconnect", "none", stamp) \in AgentRows
    BY SettleType
  <2>2. Settle(r, "failed", "task_error", stamp) \in AgentRows
    BY SettleType DEF Errors
  <2> QED
    BY <2>1, <2>2 DEF AfterResult
<1> QED
  BY <1>1 DEF AgentsAfterResult

(* So is what ExpireWaitingReconnect makes of it. *)
LEMMA AgentsAfterExpiryType ==
  ASSUME agent \in [Agents -> AgentRows]
  PROVE  AgentsAfterExpiry \in [Agents -> AgentRows]
<1>1. ASSUME NEW r \in AgentRows
      PROVE  Settle(r, "failed", "reconnect_timeout", r.at) \in AgentRows
  <2>1. r.at \in Times \cup {Nil}
    BY DEF AgentRows
  <2> QED
    BY <2>1, SettleType DEF Errors
<1> QED
  BY <1>1 DEF AgentsAfterExpiry

(* So is the table once a task is scheduled. *)
LEMMA ScheduledType ==
  ASSUME NEW r \in AgentRows, NEW v \in Versions \cup {Blank},
         NEW t \in Tasks
  PROVE  Scheduled(r, v, t) \in AgentRows
BY DEF Scheduled, AgentRows

(* What the stage of a worker or of a request says about its other fields. *)
LEMMA JobStages ==
  ASSUME NEW j \in Jobs
  PROVE  /\ j.stage \in {"idle", "checked", "stored"}
         /\ j.report \in Reports
         /\ j.stage # "idle" => j.task \in Tasks
<1>1. CASE j = IdleJob
  BY <1>1 DEF IdleJob, Reports
<1>2. CASE j \in [stage : {"checked", "stored"}, task : Tasks, report : Reports]
  BY <1>2
<1> QED
  BY <1>1, <1>2 DEF Jobs

(* A worker that wrote keeps its task and its report. *)
LEMMA JobStored ==
  ASSUME NEW j \in Jobs
  PROVE  /\ [j EXCEPT !.stage = "stored"].stage = "stored"
         /\ [j EXCEPT !.stage = "stored"].task = j.task
         /\ [j EXCEPT !.stage = "stored"].report = j.report
BY DEF Jobs, IdleJob

(* What the operation of a request says about its other fields. *)
LEMMA AdminStages ==
  ASSUME NEW j \in AdminJobs
  PROVE  /\ j.op # "idle" => j.agent \in Agents
         /\ j.op = "upgrade" => j.version \in Versions
         /\ j.op = "clear" => j.task \in Tasks
<1>1. CASE j = IdleAdmin
  BY <1>1 DEF IdleAdmin
<1>2. CASE j \in [op : {"upgrade"}, agent : Agents, version : Versions,
                 chain : BOOLEAN, task : {Nil}]
  BY <1>2
<1>3. CASE j \in [op : {"rollback"}, agent : Agents, version : {Nil},
                 chain : {FALSE}, task : {Nil}]
  BY <1>3
<1>4. CASE j \in [op : {"clear"}, agent : Agents, version : {Nil},
                 chain : {FALSE}, task : Tasks]
  BY <1>4
<1> QED
  BY <1>1, <1>2, <1>3, <1>4 DEF AdminJobs

(* A rollback request that has made its first write. *)
LEMMA AdminToClear ==
  ASSUME NEW j \in AdminJobs, j.op = "rollback", NEW t \in Tasks
  PROVE  [j EXCEPT !.op = "clear", !.task = t] \in AdminJobs
<1>1. CASE j = IdleAdmin
  BY <1>1 DEF IdleAdmin
<1>2. CASE j \in [op : {"upgrade"}, agent : Agents, version : Versions,
                 chain : BOOLEAN, task : {Nil}]
  BY <1>2
<1>3. CASE j \in [op : {"rollback"}, agent : Agents, version : {Nil},
                 chain : {FALSE}, task : {Nil}]
  <2>1. [j EXCEPT !.op = "clear", !.task = t] \in
          [op : {"clear"}, agent : Agents, version : {Nil},
           chain : {FALSE}, task : Tasks]
    BY <1>3
  <2> QED
    BY <2>1 DEF AdminJobs
<1>4. CASE j \in [op : {"clear"}, agent : Agents, version : {Nil},
                 chain : {FALSE}, task : Tasks]
  BY <1>4
<1> QED
  BY <1>1, <1>2, <1>3, <1>4 DEF AdminJobs

(* Every step keeps the type of every variable. *)
LEMMA TypeStep ==
  ASSUME TypeOK, [Next]_vars
  PROVE  TypeOK'
<1> USE ConstantsOK DEF TypeOK, dbVars
<1>1. ASSUME NEW a \in Agents, NEW v \in Versions, UpsertAgent(a, v)
      PROVE  TypeOK'
  BY <1>1, ConfirmedUpgradeType DEF UpsertAgent
<1>2. ASSUME NEW t \in Tasks, NEW a \in Agents, NEW e \in Expiries,
             EnqueueTask(t, a, e)
      PROVE  TypeOK'
  BY <1>2 DEF EnqueueTask, NewRow, TaskRows, Kinds, TaskStates
<1>3. ASSUME NEW t \in Tasks, NEW a \in Agents, NEW at \in Times,
             ClaimNextTaskForAgent(t, a, at)
      PROVE  TypeOK'
  BY <1>3 DEF ClaimNextTaskForAgent, TaskStates
<1>4. ASSUME NEW w \in Workers, NEW t \in Tasks, CheckRunning(w, t)
      PROVE  TypeOK'
  BY <1>4 DEF CheckRunning, Jobs, Reports
<1>5. ASSUME NEW w \in Workers, NEW t \in Tasks, NEW s \in Terminal,
             CheckResult(w, t, s)
      PROVE  TypeOK'
  BY <1>5 DEF CheckResult, Jobs, Reports
<1>6. ASSUME NEW w \in Workers, MarkTaskRunning(w)
      PROVE  TypeOK'
  BY <1>6 DEF MarkTaskRunning, Stored, Refused, IdleJob, Jobs, Reports,
     TaskStates
<1>7. ASSUME NEW w \in Workers, NEW stamp \in Times,
             RecordTaskResult(w, stamp)
      PROVE  TypeOK'
  <2>1. AgentsAfterResult(job[w].task, job[w].report, stamp)
          \in [Agents -> AgentRows]
    BY AgentsAfterResultType
  <2>2. job[w].report \in Terminal
    BY <1>7, JobStages DEF RecordTaskResult, Reports
  <2> QED
    BY <1>7, <2>1, <2>2 DEF RecordTaskResult, Stored, Refused, IdleJob,
       Jobs, Reports, TaskStates, Terminal
<1>8. ASSUME NEW w \in Workers, AuditReport(w)
      PROVE  TypeOK'
  BY <1>8 DEF AuditReport, AuditEvents, IdleJob, Jobs, Reports
<1>9. AgentsAfterExpiry \in [Agents -> AgentRows]
  BY AgentsAfterExpiryType
<1>10. CASE AdminRead
  BY <1>9, <1>10 DEF AdminRead
<1>11. ASSUME NEW a \in Agents, NEW v \in Versions, NEW c \in BOOLEAN,
              AdminUpgrade(a, v, c)
       PROVE  TypeOK'
  BY <1>9, <1>11 DEF AdminUpgrade, AdminJobs
<1>12. ASSUME NEW a \in Agents, AdminRollback(a)
       PROVE  TypeOK'
  BY <1>9, <1>12 DEF AdminRollback, AdminJobs
<1>13. ASSUME NEW t \in Tasks, NEW p \in Tasks \cup {Nil},
              NEW e \in Expiries, ScheduleAgentUpgrade(t, p, e)
       PROVE  TypeOK'
  <2> DEFINE a == admin.agent
  <2>1. a \in Agents /\ admin.version \in Versions
    BY <1>13, AdminStages DEF ScheduleAgentUpgrade
  <2>2. agent' \in [Agents -> AgentRows]
    BY <1>13, <2>1, ScheduledType DEF ScheduleAgentUpgrade
  <2>3. state' \in [Tasks -> TaskStates \cup {"none"}]
    BY <1>13 DEF ScheduleAgentUpgrade, TaskStates
  <2>4. row' \in [Tasks -> TaskRows \cup {Nil}]
    BY <1>13, <2>1 DEF ScheduleAgentUpgrade, NewRow, TaskRows, Kinds
  <2> QED
    BY <1>13, <2>2, <2>3, <2>4 DEF ScheduleAgentUpgrade, AdminJobs, IdleAdmin
<1>14. ASSUME NEW t \in Tasks, NEW e \in Expiries,
              ScheduleAgentRollback(t, e)
       PROVE  TypeOK'
  <2> DEFINE a == admin.agent
  <2>1. a \in Agents
    BY <1>14, AdminStages DEF ScheduleAgentRollback
  <2>2. agent' \in [Agents -> AgentRows]
    BY <1>14, <2>1, ScheduledType DEF ScheduleAgentRollback
  <2>3. state' \in [Tasks -> TaskStates \cup {"none"}]
    BY <1>14 DEF ScheduleAgentRollback, TaskStates
  <2>4. row' \in [Tasks -> TaskRows \cup {Nil}]
    BY <1>14, <2>1 DEF ScheduleAgentRollback, NewRow, TaskRows, Kinds
  <2> QED
    BY <1>14, <2>2, <2>3, <2>4, AdminToClear DEF ScheduleAgentRollback
<1>15. CASE ClearDesired
  <2>1. ASSUME NEW r \in AgentRows
        PROVE  [r EXCEPT !.desired = Nil] \in AgentRows
    BY DEF AgentRows
  <2>2. agent' \in [Agents -> AgentRows]
    BY <1>15, <2>1 DEF ClearDesired
  <2> QED
    BY <1>15, <2>2 DEF ClearDesired, AdminJobs, IdleAdmin
<1>16. CASE Tick
  BY <1>16 DEF Tick, Times
<1>17. CASE Restart
  BY <1>17 DEF Restart, IdleJob, Jobs, Reports, IdleAdmin, AdminJobs
<1>18. CASE UNCHANGED vars
  BY <1>18 DEF vars
<1> QED
  BY <1>1, <1>2, <1>3, <1>4, <1>5, <1>6, <1>7, <1>8, <1>10, <1>11, <1>12,
     <1>13, <1>14, <1>15, <1>16, <1>17, <1>18
  DEF Next, AgentStep, AnyResult, WorkerStep, AdminStep

(* The initial values have their types. *)
LEMMA TypeInit == Init => TypeOK
  BY ConstantsOK DEF Init, TypeOK, Times, Unregistered, AgentRows, IdleJob,
     Jobs, Reports, IdleAdmin, AdminJobs

(* Every variable keeps its type. *)
THEOREM TypeCorrect == Spec => []TypeOK
  BY TypeInit, TypeStep, PTL DEF Spec

----------------------------------------------------------------------------
(* A task has a row once it has a state.  A chained task and the one       *)
(* before it belong to one agent, and the latter is an installer's.        *)
RowsOK ==
  \A t \in Tasks :
    /\ row[t] = Nil <=> state[t] = "none"
    /\ (row[t] # Nil /\ row[t].after # Nil) =>
         /\ row[t].kind = "agent"
         /\ row[row[t].after] # Nil
         /\ row[row[t].after].kind = "installer"
         /\ row[row[t].after].agent = row[t].agent

(* A worker handles events of tasks that exist, and what it wrote still    *)
(* holds when it audits.                                                   *)
JobOK(w) ==
  LET j == job[w] IN
    /\ j.stage # "idle" => state[j.task] # "none"
    /\ j.stage = "stored" => Executed(j.task)
    /\ (j.stage = "stored" /\ j.report # "running") => result[j.task] = j.report

JobsOK == \A w \in Workers : JobOK(w)

(* The inductive invariant of the tasks. *)
TaskInv == TypeOK /\ RowsOK /\ JobsOK /\ ResultRecordedOnce /\ AuditTruthful

(* A step that touches none of the task tables keeps their invariant. *)
LEMMA TaskFrame ==
  ASSUME TaskInv, TypeOK', UNCHANGED <<row, state, result, audit, job>>
  PROVE  TaskInv'
BY DEF TaskInv, RowsOK, JobsOK, JobOK, ResultRecordedOnce, AuditTruthful, Executed

(* Tasks that are only added to the queue disturb no other one. *)
LEMMA TaskAdded ==
  ASSUME TaskInv, TypeOK', NEW N \in SUBSET Tasks,
         \A t \in N : state[t] = "none" /\ state'[t] = "queued",
         \A t \in Tasks \ N : state'[t] = state[t] /\ row'[t] = row[t],
         RowsOK', UNCHANGED <<result, audit, job>>
  PROVE  TaskInv'
<1> USE DEF TaskInv
<1>1. ResultRecordedOnce'
  BY DEF ResultRecordedOnce, Terminal
<1>2. \A t \in Tasks : state[t] # "none" => state'[t] = state[t]
  OBVIOUS
<1>3. JobsOK'
  BY <1>2, JobStages DEF JobsOK, JobOK, TypeOK, Executed, Terminal
<1>4. AuditTruthful'
  BY <1>2 DEF AuditTruthful, Terminal
<1> QED
  BY <1>1, <1>3, <1>4

(* Every step keeps the invariant of the tasks. *)
LEMMA TaskStep ==
  ASSUME TaskInv, [Next]_vars
  PROVE  TaskInv'
<1>0. TypeOK /\ TypeOK'
  BY TypeStep DEF TaskInv
<1>1. ASSUME NEW t \in Tasks, NEW a \in Agents, NEW e \in Expiries,
             EnqueueTask(t, a, e)
      PROVE  TaskInv'
  <2>1. NewRow(a, "inventory", Nil, e) \in TaskRows
    BY <1>0 DEF NewRow, TaskRows, Kinds, TypeOK
  <2>2. RowsOK'
    BY <1>0, <1>1, <2>1, ConstantsOK
    DEF EnqueueTask, TaskInv, RowsOK, NewRow, TypeOK, TaskRows
  <2>3. \A u \in Tasks \ {t} : state'[u] = state[u] /\ row'[u] = row[u]
    BY <1>0, <1>1 DEF EnqueueTask, TypeOK
  <2>4. \A u \in {t} : state[u] = "none" /\ state'[u] = "queued"
    BY <1>0, <1>1 DEF EnqueueTask, TypeOK
  <2>5. {t} \in SUBSET Tasks /\ UNCHANGED <<result, audit, job>>
    BY <1>1 DEF EnqueueTask
  <2> QED
    BY <1>0, <2>2, <2>3, <2>4, <2>5, TaskAdded
<1>2. ASSUME NEW t \in Tasks, NEW e \in Expiries,
             ScheduleAgentRollback(t, e)
      PROVE  TaskInv'
  <2>1. NewRow(admin.agent, "rollback", Nil, e) \in TaskRows
    BY <1>0, <1>2, AdminStages
    DEF ScheduleAgentRollback, NewRow, TaskRows, Kinds, TypeOK
  <2>2. RowsOK'
    BY <1>0, <1>2, <2>1, ConstantsOK
    DEF ScheduleAgentRollback, TaskInv, RowsOK, NewRow, TypeOK, TaskRows
  <2>3. \A u \in Tasks \ {t} : state'[u] = state[u] /\ row'[u] = row[u]
    BY <1>0, <1>2 DEF ScheduleAgentRollback, TypeOK
  <2>4. \A u \in {t} : state[u] = "none" /\ state'[u] = "queued"
    BY <1>0, <1>2 DEF ScheduleAgentRollback, TypeOK
  <2>5. {t} \in SUBSET Tasks /\ UNCHANGED <<result, audit, job>>
    BY <1>2 DEF ScheduleAgentRollback
  <2> QED
    BY <1>0, <2>2, <2>3, <2>4, <2>5, TaskAdded
<1>3. ASSUME NEW t \in Tasks, NEW p \in Tasks \cup {Nil}, NEW e \in Expiries,
             ScheduleAgentUpgrade(t, p, e)
      PROVE  TaskInv'
  <2>1. admin.agent \in Agents
    BY <1>0, <1>3, AdminStages DEF ScheduleAgentUpgrade, TypeOK
  <2>2. CASE ~admin.chain
    <3>1. NewRow(admin.agent, "agent", Nil, e) \in TaskRows
      BY <1>0, <2>1 DEF NewRow, TaskRows, Kinds, TypeOK
    <3>2. RowsOK'
      BY <1>0, <1>3, <2>2, <3>1, ConstantsOK
      DEF ScheduleAgentUpgrade, TaskInv, RowsOK, NewRow, TypeOK, TaskRows
    <3>3. \A u \in Tasks \ {t} : state'[u] = state[u] /\ row'[u] = row[u]
      BY <1>0, <1>3, <2>2 DEF ScheduleAgentUpgrade, TypeOK
    <3>4. \A u \in {t} : state[u] = "none" /\ state'[u] = "queued"
      BY <1>0, <1>3, <2>2 DEF ScheduleAgentUpgrade, TypeOK
    <3>5. {t} \in SUBSET Tasks /\ UNCHANGED <<result, audit, job>>
      BY <1>3 DEF ScheduleAgentUpgrade
    <3> QED
      BY <1>0, <3>2, <3>3, <3>4, <3>5, TaskAdded
  <2>3. CASE admin.chain
    <3>1. /\ NewRow(admin.agent, "installer", Nil, e) \in TaskRows
          /\ p \in Tasks => NewRow(admin.agent, "agent", p, e) \in TaskRows
      BY <1>0, <2>1 DEF NewRow, TaskRows, Kinds, TypeOK
    <3>2. p \in Tasks \ {t} /\ state[p] = "none" /\ state[t] = "none"
      BY <1>3, <2>3 DEF ScheduleAgentUpgrade
    <3>3. /\ row'[t] = NewRow(admin.agent, "agent", p, e)
          /\ row'[p] = NewRow(admin.agent, "installer", Nil, e)
          /\ state'[t] = "queued" /\ state'[p] = "queued"
          /\ \A u \in Tasks \ {t, p} : state'[u] = state[u] /\ row'[u] = row[u]
      BY <1>0, <1>3, <2>3, <3>2 DEF ScheduleAgentUpgrade, TypeOK
    <3>4. RowsOK'
      <4> SUFFICES ASSUME NEW u \in Tasks
                   PROVE  /\ row'[u] = Nil <=> state'[u] = "none"
                          /\ (row'[u] # Nil /\ row'[u].after # Nil) =>
                               /\ row'[u].kind = "agent"
                               /\ row'[row'[u].after] # Nil
                               /\ row'[row'[u].after].kind = "installer"
                               /\ row'[row'[u].after].agent = row'[u].agent
        BY DEF RowsOK
      <4>1. CASE u \in {t, p}
        BY <3>1, <3>2, <3>3, <4>1, ConstantsOK DEF NewRow
      <4>2. CASE u \notin {t, p}
        <5>1. row'[u] = row[u] /\ state'[u] = state[u]
          BY <3>3, <4>2
        <5>2. row[u] # Nil /\ row[u].after # Nil => row[u].after \in Tasks
          BY <1>0 DEF TypeOK, TaskRows
        <5>3. row[u] # Nil /\ row[u].after # Nil => row[u].after \notin {t, p}
          BY <3>2, <5>2 DEF TaskInv, RowsOK
        <5> QED
          BY <3>3, <5>1, <5>2, <5>3 DEF TaskInv, RowsOK
      <4> QED
        BY <4>1, <4>2
    <3>5. {t, p} \in SUBSET Tasks /\ UNCHANGED <<result, audit, job>>
      BY <1>3, <3>2 DEF ScheduleAgentUpgrade
    <3>6. \A u \in {t, p} : state[u] = "none" /\ state'[u] = "queued"
      BY <3>2, <3>3
    <3> QED
      BY <1>0, <3>3, <3>4, <3>5, <3>6, TaskAdded
  <2> QED
    BY <2>2, <2>3, <1>0, AdminStages
<1>4. ASSUME NEW t \in Tasks, NEW a \in Agents, NEW at \in Times,
             ClaimNextTaskForAgent(t, a, at)
      PROVE  TaskInv'
  <2>1. /\ state[t] = "queued" /\ state'[t] = "assigned"
        /\ \A u \in Tasks \ {t} : state'[u] = state[u]
        /\ UNCHANGED <<row, result, audit, job>>
    BY <1>0, <1>4 DEF ClaimNextTaskForAgent, Claimable, TypeOK
  <2>2. RowsOK'
    BY <1>0, <2>1 DEF TaskInv, RowsOK, TypeOK
  <2>3. JobsOK'
    BY <1>0, <2>1, JobStages DEF TaskInv, JobsOK, JobOK, TypeOK, Executed, Terminal
  <2>4. ResultRecordedOnce'
    BY <2>1 DEF TaskInv, ResultRecordedOnce, Terminal
  <2>5. AuditTruthful'
    BY <2>1 DEF TaskInv, AuditTruthful, Terminal
  <2> QED
    BY <1>0, <2>2, <2>3, <2>4, <2>5 DEF TaskInv
<1>5. ASSUME NEW w \in Workers, NEW t \in Tasks, CheckRunning(w, t)
      PROVE  TaskInv'
  <2>1. JobsOK'
    BY <1>0, <1>5 DEF CheckRunning, dbVars, TaskInv, JobsOK, JobOK, TypeOK, Executed
  <2> QED
    BY <1>0, <1>5, <2>1
    DEF CheckRunning, dbVars, TaskInv, RowsOK, ResultRecordedOnce,
        AuditTruthful
<1>6. ASSUME NEW w \in Workers, NEW t \in Tasks, NEW s \in Terminal,
             CheckResult(w, t, s)
      PROVE  TaskInv'
  <2>1. JobsOK'
    BY <1>0, <1>6 DEF CheckResult, dbVars, TaskInv, JobsOK, JobOK, TypeOK, Executed,
       Terminal
  <2> QED
    BY <1>0, <1>6, <2>1
    DEF CheckResult, dbVars, TaskInv, RowsOK, ResultRecordedOnce,
        AuditTruthful
<1>7. ASSUME NEW w \in Workers, MarkTaskRunning(w)
      PROVE  TaskInv'
  <2> DEFINE t == job[w].task
  <2>1. t \in Tasks /\ job[w].report = "running"
    BY <1>0, <1>7, JobStages DEF MarkTaskRunning, TypeOK
  <2>2. CASE state[t] = "assigned"
    <3>1. /\ state'[t] = "running"
          /\ \A u \in Tasks \ {t} : state'[u] = state[u]
          /\ job' = [job EXCEPT ![w].stage = "stored"]
          /\ UNCHANGED <<row, result, audit>>
      BY <1>0, <1>7, <2>1, <2>2 DEF MarkTaskRunning, TypeOK, Stored
    <3>2. RowsOK'
      BY <1>0, <2>2, <3>1 DEF TaskInv, RowsOK, TypeOK
    <3>3. JobsOK'
      <4> SUFFICES ASSUME NEW x \in Workers
                   PROVE  JobOK(x)'
        BY DEF JobsOK
      <4>1. CASE x = w
        <5>1. job'[x] = [job[w] EXCEPT !.stage = "stored"] /\ job[w] \in Jobs
          BY <1>0, <3>1, <4>1 DEF TypeOK
        <5>2. job'[x].stage = "stored" /\ job'[x].task = t /\ job'[x].report = "running"
          BY <2>1, <5>1, JobStored
        <5> QED
          BY <3>1, <5>2 DEF JobOK, Executed
      <4>2. CASE x # w
        BY <1>0, <2>1, <2>2, <3>1, <4>2, JobStages
        DEF TaskInv, JobsOK, JobOK, TypeOK, Executed, Terminal
      <4> QED
        BY <4>1, <4>2
    <3>4. ResultRecordedOnce'
      BY <2>2, <3>1 DEF TaskInv, ResultRecordedOnce, Terminal
    <3>5. AuditTruthful'
      BY <2>2, <3>1 DEF TaskInv, AuditTruthful, Terminal
    <3> QED
      BY <1>0, <3>2, <3>3, <3>4, <3>5 DEF TaskInv
  <2>3. CASE state[t] # "assigned"
    <3>1. UNCHANGED <<row, state, result, audit>> /\ job' = [job EXCEPT ![w] = IdleJob]
      BY <1>7, <2>3 DEF MarkTaskRunning, Refused
    <3>2. JobsOK'
      BY <1>0, <3>1 DEF TaskInv, JobsOK, JobOK, TypeOK, Executed, IdleJob
    <3> QED
      BY <1>0, <3>1, <3>2 DEF TaskInv, RowsOK, ResultRecordedOnce,
         AuditTruthful
  <2> QED
    BY <2>2, <2>3
<1>8. ASSUME NEW w \in Workers, NEW stamp \in Times, RecordTaskResult(w, stamp)
      PROVE  TaskInv'
  <2> DEFINE t == job[w].task
             s == job[w].report
  <2>1. t \in Tasks /\ s \in Terminal
    BY <1>0, <1>8, JobStages DEF RecordTaskResult, TypeOK, Reports
  <2>2. CASE result[t] = "none" /\ state[t] \notin Terminal
    <3>1. /\ state'[t] = s /\ result'[t] = s
          /\ \A u \in Tasks \ {t} : state'[u] = state[u] /\ result'[u] = result[u]
          /\ job' = [job EXCEPT ![w].stage = "stored"]
          /\ UNCHANGED <<row, audit>>
      BY <1>0, <1>8, <2>1, <2>2 DEF RecordTaskResult, TypeOK, Stored
    <3>2. state[t] \notin {"none"} \cup Terminal
      BY <1>0, <1>8, <2>2 DEF RecordTaskResult, TaskInv, JobsOK, JobOK
    <3>3. RowsOK'
      BY <1>0, <2>1, <3>1, <3>2 DEF TaskInv, RowsOK, TypeOK, Terminal
    <3>4. JobsOK'
      <4> SUFFICES ASSUME NEW x \in Workers
                   PROVE  JobOK(x)'
        BY DEF JobsOK
      <4>1. CASE x = w
        <5>1. job'[x] = [job[w] EXCEPT !.stage = "stored"] /\ job[w] \in Jobs
          BY <1>0, <3>1, <4>1 DEF TypeOK
        <5>2. job'[x].stage = "stored" /\ job'[x].task = t /\ job'[x].report = s
          BY <2>1, <5>1, JobStored
        <5> QED
          BY <2>1, <3>1, <5>2 DEF JobOK, Executed, Terminal
      <4>2. CASE x # w
        <5>1. job'[x] = job[x] /\ job[x] \in Jobs
          BY <1>0, <3>1, <4>2 DEF TypeOK
        <5>2. CASE job[x].task = t
          BY <2>1, <2>2, <3>1, <3>2, <5>1, <5>2, JobStages
          DEF TaskInv, JobsOK, JobOK, Executed, Terminal, Reports
        <5>3. CASE job[x].task # t
          BY <3>1, <5>1, <5>3, JobStages DEF TaskInv, JobsOK, JobOK, Executed
        <5> QED
          BY <5>2, <5>3
      <4> QED
        BY <4>1, <4>2
    <3>5. ResultRecordedOnce'
      BY <2>1, <3>1 DEF TaskInv, ResultRecordedOnce
    <3>6. AuditTruthful'
      BY <2>1, <2>2, <3>1, <3>2 DEF TaskInv, AuditTruthful, Terminal
    <3> QED
      BY <1>0, <3>3, <3>4, <3>5, <3>6 DEF TaskInv
  <2>3. CASE ~(result[t] = "none" /\ state[t] \notin Terminal)
    <3>1. UNCHANGED <<row, state, result, audit>> /\ job' = [job EXCEPT ![w] = IdleJob]
      BY <1>8, <2>3 DEF RecordTaskResult, Refused
    <3>2. JobsOK'
      BY <1>0, <3>1 DEF TaskInv, JobsOK, JobOK, TypeOK, Executed, IdleJob
    <3> QED
      BY <1>0, <3>1, <3>2 DEF TaskInv, RowsOK, ResultRecordedOnce,
         AuditTruthful
  <2> QED
    BY <2>2, <2>3
<1>9. ASSUME NEW w \in Workers, AuditReport(w)
      PROVE  TaskInv'
  <2>1. JobsOK'
    BY <1>0, <1>9 DEF AuditReport, TaskInv, JobsOK, JobOK, TypeOK, Executed, IdleJob
  <2>2. AuditTruthful'
    BY <1>0, <1>9, JobStages DEF AuditReport, TaskInv, JobsOK, JobOK, AuditTruthful,
       TypeOK, Executed, Terminal
  <2> QED
    BY <1>0, <1>9, <2>1, <2>2 DEF AuditReport, TaskInv, RowsOK,
       ResultRecordedOnce
<1>10. CASE Restart
  <2>1. JobsOK'
    BY <1>10 DEF Restart, JobsOK, JobOK, IdleJob
  <2> QED
    BY <1>0, <1>10, <2>1 DEF Restart, dbVars, TaskInv, RowsOK,
       ResultRecordedOnce, AuditTruthful
<1>11. ASSUME NEW a \in Agents, NEW v \in Versions, UpsertAgent(a, v)
       PROVE  TaskInv'
  BY <1>0, <1>11, TaskFrame DEF UpsertAgent
<1>12. CASE AdminRead
  BY <1>0, <1>12, TaskFrame DEF AdminRead
<1>13. ASSUME NEW a \in Agents, NEW v \in Versions, NEW c \in BOOLEAN,
              AdminUpgrade(a, v, c)
       PROVE  TaskInv'
  BY <1>0, <1>13, TaskFrame DEF AdminUpgrade
<1>14. ASSUME NEW a \in Agents, AdminRollback(a)
       PROVE  TaskInv'
  BY <1>0, <1>14, TaskFrame DEF AdminRollback
<1>15. CASE ClearDesired
  BY <1>0, <1>15, TaskFrame DEF ClearDesired
<1>16. CASE Tick
  BY <1>0, <1>16, TaskFrame DEF Tick
<1>17. CASE UNCHANGED vars
  BY <1>0, <1>17, TaskFrame DEF vars
<1> QED
  BY <1>1, <1>2, <1>3, <1>4, <1>5, <1>6, <1>7, <1>8, <1>9, <1>10, <1>11,
     <1>12, <1>13, <1>14, <1>15, <1>16, <1>17
  DEF Next, AgentStep, AnyResult, WorkerStep, AdminStep

(* The invariant of the tasks holds at the start. *)
LEMMA InitTaskInv == Init => TaskInv
<1> SUFFICES ASSUME Init PROVE TaskInv
  OBVIOUS
<1>1. RowsOK
  BY DEF Init, RowsOK
<1>2. JobsOK
  BY DEF Init, JobsOK, JobOK, IdleJob
<1>3. ResultRecordedOnce /\ AuditTruthful
  BY DEF Init, ResultRecordedOnce, AuditTruthful, Terminal
<1> QED
  BY <1>1, <1>2, <1>3, TypeInit DEF TaskInv

(* The invariant of the tasks holds. *)
THEOREM TaskInvariant == Spec => []TaskInv
  BY InitTaskInv, TaskStep, PTL DEF Spec

(* However workers interleave, a task's result is recorded once and agrees *)
(* with its state. *)
THEOREM ResultsRecordedOnce == Spec => []ResultRecordedOnce
  BY TaskInvariant, PTL DEF TaskInv

(* The workers' audit events are true when written, and stay so. *)
THEOREM AuditIsTruthful == Spec => []AuditTruthful
  BY TaskInvariant, PTL DEF TaskInv

----------------------------------------------------------------------------
(* The mapping of one step of the tables to a step of TaskLifecycle, when  *)
(* agents report in order.                                                 *)

(* A result that was checked is of a task that was reported running.       *)
CheckedInOrder ==
  \A w \in Workers :
    (job[w].stage = "checked" /\ job[w].report # "running") =>
      Executed(job[w].task)

(* The inductive invariant of the tasks under reports in order.            *)
OrderInv == TaskInv /\ CheckedInOrder /\ PrerequisiteRespected

(* Reports in order are among those the store takes.                       *)
LEMMA OrderlyIsNext == OrderlyNext => Next
  BY DEF OrderlyNext, Next, ResultOfRunning, AnyResult

taskAfter == [t \in Tasks |-> IF row[t] = Nil THEN Nil ELSE row[t].after]

(* Creating one task, or a chain of two, is a Create step of the           *)
(* lifecycle. *)
LEMMA LifecycleCreate ==
  ASSUME TaskInv, TaskInv', NEW t \in Tasks, NEW p \in Tasks \cup {Nil},
         state[t] = "none", row'[t] # Nil, row'[t].after = p,
         \/ /\ p = Nil
            /\ state' = [state EXCEPT ![t] = "queued"]
            /\ \A u \in Tasks \ {t} : row'[u] = row[u]
         \/ /\ p \in Tasks \ {t} /\ state[p] = "none"
            /\ state' = [state EXCEPT ![t] = "queued", ![p] = "queued"]
            /\ row'[p] # Nil /\ row'[p].after = Nil
            /\ \A u \in Tasks \ {t, p} : row'[u] = row[u]
  PROVE  Lifecycle!LifecycleNext
<1>0. Nil \notin Tasks
  BY ConstantsOK
<1>1. row[t] = Nil /\ (p # Nil => row[p] = Nil)
  BY DEF TaskInv, RowsOK
<1>2. CASE p = Nil
  <2>1. \A u \in Tasks \ {t} : row'[u] = row[u]
    BY <1>0, <1>2
  <2>2. taskAfter' = taskAfter
    BY <1>1, <1>2, <2>1 DEF taskAfter
  <2>3. state' = [state EXCEPT ![t] = "queued"]
    BY <1>0, <1>2
  <2>4. Lifecycle!Create(t, p)
    BY <1>2, <2>2, <2>3 DEF taskAfter, Lifecycle!Create
  <2> QED
    BY <2>4 DEF Lifecycle!LifecycleNext
<1>3. CASE p # Nil
  <2>1. /\ p \in Tasks \ {t} /\ state[p] = "none"
        /\ state' = [state EXCEPT ![t] = "queued", ![p] = "queued"]
        /\ row'[p] # Nil /\ row'[p].after = Nil
        /\ \A u \in Tasks \ {t, p} : row'[u] = row[u]
    BY <1>3
  <2>2. taskAfter' = [taskAfter EXCEPT ![t] = p]
    BY <1>1, <1>3, <2>1 DEF taskAfter
  <2>3. Lifecycle!Create(t, p)
    BY <2>1, <2>2 DEF taskAfter, Lifecycle!Create
  <2> QED
    BY <2>3 DEF Lifecycle!LifecycleNext
<1> QED
  BY <1>2, <1>3

(* A change of state the lifecycle allows is an Advance step of it.        *)
LEMMA LifecycleAdvance ==
  ASSUME NEW t \in Tasks, NEW s \in TaskStates, TypeOK, UNCHANGED row,
         state' = [state EXCEPT ![t] = s],
         \/ /\ state[t] = "queued" /\ s = "assigned" /\ row[t] # Nil
            /\ row[t].after # Nil => state[row[t].after] = "succeeded"
         \/ state[t] = "assigned" /\ s = "running"
         \/ state[t] = "running" /\ s \in Terminal
  PROVE  Lifecycle!LifecycleNext
<1>1. state'[t] = s
  BY DEF TypeOK
<1>2. Lifecycle!Advance(t, s)
  BY DEF Lifecycle!Advance, Lifecycle!CanTransition, Lifecycle!Terminal, Terminal
<1> QED
  BY <1>1, <1>2 DEF Lifecycle!LifecycleNext

(* What a task advances to is a state of a task.                           *)
LEMMA AdvancesToState ==
  ASSUME NEW t \in Tasks, NEW s, Lifecycle!Advance(t, s)
  PROVE  s \in TaskStates
BY DEF Lifecycle!Advance, Lifecycle!CanTransition, Lifecycle!Terminal, TaskStates

(* Every step of the server is a step of the lifecycle or leaves it alone. *)
LEMMA LifecycleStep ==
  ASSUME OrderInv, [OrderlyNext]_vars
  PROVE  [Lifecycle!LifecycleNext]_Lifecycle!lifecycleVars
<1>0. TaskInv /\ TypeOK /\ TaskInv' /\ TypeOK'
  BY TaskStep, OrderlyIsNext DEF OrderInv, TaskInv
<1>1. UNCHANGED <<row, state>> => UNCHANGED Lifecycle!lifecycleVars
  BY DEF Lifecycle!lifecycleVars
<1>2. ASSUME NEW t \in Tasks, NEW a \in Agents, NEW e \in Expiries,
             EnqueueTask(t, a, e)
      PROVE  Lifecycle!LifecycleNext
  <2>1. /\ state[t] = "none" /\ state' = [state EXCEPT ![t] = "queued"]
        /\ row'[t] # Nil /\ row'[t].after = Nil
        /\ \A u \in Tasks \ {t} : row'[u] = row[u]
    BY <1>0, <1>2 DEF EnqueueTask, NewRow, TypeOK, TaskInv, RowsOK
  <2> QED
    BY <1>0, <2>1, LifecycleCreate
<1>3. ASSUME NEW t \in Tasks, NEW e \in Expiries, ScheduleAgentRollback(t, e)
      PROVE  Lifecycle!LifecycleNext
  <2>1. /\ state[t] = "none" /\ state' = [state EXCEPT ![t] = "queued"]
        /\ row'[t] # Nil /\ row'[t].after = Nil
        /\ \A u \in Tasks \ {t} : row'[u] = row[u]
    BY <1>0, <1>3 DEF ScheduleAgentRollback, NewRow, TypeOK, TaskInv, RowsOK
  <2> QED
    BY <1>0, <2>1, LifecycleCreate
<1>4. ASSUME NEW t \in Tasks, NEW p \in Tasks \cup {Nil}, NEW e \in Expiries,
             ScheduleAgentUpgrade(t, p, e)
      PROVE  Lifecycle!LifecycleNext
  <2>1. CASE ~admin.chain
    <3>1. /\ state[t] = "none" /\ state' = [state EXCEPT ![t] = "queued"]
          /\ row'[t] # Nil /\ row'[t].after = Nil /\ p = Nil
          /\ \A u \in Tasks \ {t} : row'[u] = row[u]
      BY <1>0, <1>4, <2>1 DEF ScheduleAgentUpgrade, NewRow, TypeOK, TaskInv, RowsOK
    <3> QED
      BY <1>0, <3>1, LifecycleCreate
  <2>2. CASE admin.chain
    <3>1. /\ p \in Tasks \ {t} /\ state[t] = "none" /\ state[p] = "none"
          /\ state' = [state EXCEPT ![t] = "queued", ![p] = "queued"]
          /\ row'[t].after = p /\ row'[p].after = Nil
          /\ \A u \in Tasks \ {t, p} : row'[u] = row[u]
      BY <1>0, <1>4, <2>2 DEF ScheduleAgentUpgrade, NewRow, TypeOK
    <3>2. row'[t] # Nil /\ row'[p] # Nil
      BY <1>0, <3>1 DEF TaskInv, RowsOK, TypeOK
    <3> QED
      BY <1>0, <3>1, <3>2, LifecycleCreate
  <2> QED
    BY <2>1, <2>2, <1>4 DEF ScheduleAgentUpgrade
<1>5. ASSUME NEW t \in Tasks, NEW a \in Agents, NEW at \in Times,
             ClaimNextTaskForAgent(t, a, at)
      PROVE  Lifecycle!LifecycleNext
  BY <1>0, <1>5, LifecycleAdvance
  DEF ClaimNextTaskForAgent, Claimable, TaskStates, TaskInv, RowsOK
<1>6. ASSUME NEW w \in Workers, MarkTaskRunning(w), ~UNCHANGED state
      PROVE  Lifecycle!LifecycleNext
  BY <1>0, <1>6, LifecycleAdvance, JobStages
  DEF MarkTaskRunning, TaskStates, TypeOK
<1>7. ASSUME NEW w \in Workers, NEW stamp \in Times,
             RecordTaskResult(w, stamp), ~UNCHANGED state
      PROVE  Lifecycle!LifecycleNext
  <2>1. /\ job[w].stage = "checked" /\ job[w].report # "running"
        /\ state[job[w].task] \notin Terminal
        /\ state' = [state EXCEPT ![job[w].task] = job[w].report]
        /\ UNCHANGED row
    BY <1>7 DEF RecordTaskResult
  <2>2. job[w].task \in Tasks /\ job[w].report \in Terminal
    BY <1>0, <2>1, JobStages DEF TypeOK, Reports
  <2>3. state[job[w].task] = "running"
    BY <2>1 DEF OrderInv, CheckedInOrder, Executed
  <2> QED
    BY <1>0, <2>1, <2>2, <2>3, LifecycleAdvance DEF Terminal, TaskStates
<1>8. ASSUME NEW w \in Workers,
             \/ \E t \in Tasks : CheckRunning(w, t)
             \/ \E t \in Tasks, s \in Terminal : CheckResult(w, t, s)
             \/ (MarkTaskRunning(w) /\ UNCHANGED state)
             \/ \E stamp \in Times : (RecordTaskResult(w, stamp) /\ UNCHANGED state)
             \/ AuditReport(w)
      PROVE  UNCHANGED <<row, state>>
  BY <1>8 DEF CheckRunning, CheckResult, MarkTaskRunning, RecordTaskResult,
     AuditReport, dbVars
<1>9. ASSUME \/ \E a \in Agents, v \in Versions : UpsertAgent(a, v)
             \/ AdminRead
             \/ \E a \in Agents, v \in Versions, c \in BOOLEAN : AdminUpgrade(a, v, c)
             \/ \E a \in Agents : AdminRollback(a)
             \/ ClearDesired \/ Tick \/ Restart \/ UNCHANGED vars
      PROVE  UNCHANGED <<row, state>>
  BY <1>9 DEF UpsertAgent, AdminRead, AdminUpgrade, AdminRollback,
     ClearDesired, Tick, Restart, vars, dbVars
<1> QED
  BY <1>1, <1>2, <1>3, <1>4, <1>5, <1>6, <1>7, <1>8, <1>9
  DEF OrderlyNext, AgentStep, ResultOfRunning, WorkerStep, AdminStep

(* A step of the lifecycle takes no execution back.                        *)
LEMMA ExecutedStays ==
  ASSUME TypeOK, [Lifecycle!LifecycleNext]_Lifecycle!lifecycleVars,
         NEW t \in Tasks, Executed(t)
  PROVE  Executed(t)'
<1>1. CASE UNCHANGED Lifecycle!lifecycleVars
  BY <1>1 DEF Lifecycle!lifecycleVars, Executed
<1>2. ASSUME NEW u \in Tasks, NEW p \in Tasks \cup {Nil}, Lifecycle!Create(u, p)
      PROVE  Executed(t)'
  BY <1>2 DEF Lifecycle!Create, Executed, Terminal, TypeOK
<1>3. ASSUME NEW u \in Tasks, NEW to \in TaskStates, Lifecycle!Advance(u, to)
      PROVE  Executed(t)'
  BY <1>3 DEF Lifecycle!Advance, Lifecycle!CanTransition, Lifecycle!Terminal,
     Executed, Terminal, TypeOK
<1> QED
  BY <1>1, <1>2, <1>3, AdvancesToState DEF Lifecycle!LifecycleNext

(* A step of the lifecycle hands out no task before its prerequisite       *)
(* succeeded, and leaves what succeeded as it is.                          *)
LEMMA PrerequisiteStays ==
  ASSUME TypeOK, TypeOK', RowsOK, PrerequisiteRespected,
         [Lifecycle!LifecycleNext]_Lifecycle!lifecycleVars
  PROVE  PrerequisiteRespected'
<1> DEFINE after == [t \in Tasks |-> IF row[t] = Nil THEN Nil ELSE row[t].after]
<1>0. /\ \A t \in Tasks : row[t] # Nil => row[t] \in TaskRows
      /\ \A t \in Tasks : after[t] \in Tasks \cup {Nil}
  BY DEF TypeOK, TaskRows
<1>1. \A t \in Tasks : after[t] # Nil /\ state[t] # "queued" =>
                          state[after[t]] = "succeeded"
  BY DEF PrerequisiteRespected, InOrder
<1>2. SUFFICES ASSUME NEW t \in Tasks, after'[t] # Nil, state'[t] # "queued"
               PROVE  state'[after'[t]] = "succeeded"
  BY DEF PrerequisiteRespected, InOrder
<1>3. CASE UNCHANGED Lifecycle!lifecycleVars
  BY <1>1, <1>2, <1>3 DEF Lifecycle!lifecycleVars
<1>4. ASSUME NEW u \in Tasks, NEW p \in Tasks \cup {Nil}, Lifecycle!Create(u, p)
      PROVE  state'[after'[t]] = "succeeded"
  <2>1. /\ t \notin {u, p} /\ state'[t] = state[t] /\ after'[t] = after[t]
    <3>1. CASE p = Nil
      BY <1>2, <1>4, <3>1, ConstantsOK DEF Lifecycle!Create, TypeOK
    <3>2. CASE p # Nil
      <4>1. /\ state' = [state EXCEPT ![u] = "queued", ![p] = "queued"]
            /\ after' = [after EXCEPT ![u] = p] /\ p \in Tasks
        BY <1>4, <3>2 DEF Lifecycle!Create
      <4>2. t \notin {u, p} /\ state'[t] = state[t]
        BY <1>2, <4>1 DEF TypeOK
      <4> QED
        BY <4>1, <4>2
    <3> QED
      BY <3>1, <3>2
  <2>2. after[t] \in Tasks /\ state[after[t]] = "succeeded"
    BY <1>0, <1>1, <1>2, <2>1
  <2>3. state'[after[t]] = state[after[t]]
    BY <1>4, <2>2, ConstantsOK DEF Lifecycle!Create, TypeOK
  <2> QED
    BY <2>1, <2>2, <2>3
<1>5. ASSUME NEW u \in Tasks, NEW to \in TaskStates, Lifecycle!Advance(u, to)
      PROVE  state'[after'[t]] = "succeeded"
  <2>1. /\ after'[t] = after[t] /\ after[t] \in Tasks
        /\ state' = [state EXCEPT ![u] = to]
        /\ state[u] \in {"queued", "assigned", "running"}
    BY <1>0, <1>2, <1>5 DEF Lifecycle!Advance, Lifecycle!CanTransition
  <2>2. state[after[t]] = "succeeded"
    <3>1. CASE t = u /\ to = "assigned"
      BY <1>2, <1>5, <2>1, <3>1 DEF Lifecycle!Advance
    <3>2. CASE t = u /\ to # "assigned"
      BY <1>1, <1>2, <1>5, <2>1, <3>2 DEF Lifecycle!Advance, Lifecycle!CanTransition
    <3>3. CASE t # u
      BY <1>1, <1>2, <2>1, <3>3 DEF TypeOK
    <3> QED
      BY <3>1, <3>2, <3>3
  <2> QED
    BY <2>1, <2>2 DEF TypeOK
<1> QED
  BY <1>3, <1>4, <1>5, AdvancesToState DEF Lifecycle!LifecycleNext

(* With reports in order every step keeps the order.                       *)
LEMMA OrderStep ==
  ASSUME OrderInv, [OrderlyNext]_vars
  PROVE  OrderInv'
<1>0. TaskInv /\ TypeOK /\ TaskInv' /\ TypeOK'
  BY TaskStep, OrderlyIsNext DEF OrderInv, TaskInv
<1>1. [Lifecycle!LifecycleNext]_Lifecycle!lifecycleVars
  BY LifecycleStep
<1>2. PrerequisiteRespected'
  BY <1>0, <1>1, PrerequisiteStays DEF OrderInv, TaskInv
<1>3. \A t \in Tasks : Executed(t) => Executed(t)'
  BY <1>0, <1>1, ExecutedStays
<1>4. ASSUME NEW w \in Workers, job'[w].stage = "checked", job'[w].report # "running"
      PROVE  job'[w].task \in Tasks /\ Executed(job'[w].task)
  <2>1. job'[w].task \in Tasks
    BY <1>0, <1>4, JobStages DEF TypeOK
  <2>2. CASE job'[w] = job[w]
    BY <1>4, <2>1, <2>2 DEF OrderInv, CheckedInOrder
  <2>3. CASE job'[w] # job[w]
    <3>1. ASSUME NEW x \in Workers, NEW t \in Tasks, NEW r \in Terminal,
                 Executed(t), CheckResult(x, t, r)
          PROVE  Executed(job'[w].task)
      BY <1>0, <2>3, <3>1 DEF CheckResult, TypeOK
    <3>2. ASSUME NEW x \in Workers, NEW t \in Tasks, CheckRunning(x, t)
          PROVE  FALSE
      BY <1>0, <1>4, <2>3, <3>2 DEF CheckRunning, TypeOK
    <3>3. ASSUME NEW x \in Workers,
                 \/ MarkTaskRunning(x)
                 \/ \E stamp \in Times : RecordTaskResult(x, stamp)
                 \/ AuditReport(x)
          PROVE  FALSE
      <4>1. \/ job' = [job EXCEPT ![x].stage = "stored"]
            \/ job' = [job EXCEPT ![x] = IdleJob]
        BY <3>3 DEF MarkTaskRunning, RecordTaskResult, AuditReport, Stored, Refused
      <4>2. CASE w # x
        BY <1>0, <2>3, <4>1, <4>2 DEF TypeOK
      <4>3. CASE w = x
        <5>1. job[w] \in Jobs
          BY <1>0 DEF TypeOK
        <5>2. \/ job'[w] = [job[w] EXCEPT !.stage = "stored"]
              \/ job'[w] = IdleJob
          BY <1>0, <4>1, <4>3 DEF TypeOK
        <5>3. [job[w] EXCEPT !.stage = "stored"].stage = "stored"
          BY <5>1, JobStored
        <5>4. IdleJob.stage = "idle"
          BY DEF IdleJob
        <5> QED
          BY <1>4, <5>2, <5>3, <5>4
      <4> QED
        BY <4>2, <4>3
    <3>4. ASSUME Restart
          PROVE  FALSE
      BY <1>4, <3>4 DEF Restart, IdleJob
    <3>5. ASSUME AgentStep \/ AdminStep \/ Tick \/ UNCHANGED vars
          PROVE  UNCHANGED job
      BY <3>5 DEF AgentStep, AdminStep, Tick, vars, UpsertAgent,
         ClaimNextTaskForAgent, EnqueueTask, AdminRead, AdminUpgrade,
         AdminRollback, ScheduleAgentUpgrade, ScheduleAgentRollback, ClearDesired
    <3>6. ResultOfRunning \/ WorkerStep \/ Restart
      BY <2>3, <3>5 DEF OrderlyNext
    <3>7. ~WorkerStep
      BY <3>2, <3>3 DEF WorkerStep
    <3> QED
      BY <2>1, <3>1, <3>4, <3>6, <3>7 DEF ResultOfRunning
  <2> QED
    BY <2>1, <2>2, <2>3
<1>5. CheckedInOrder'
  <2> SUFFICES ASSUME NEW w \in Workers, job'[w].stage = "checked",
                      job'[w].report # "running"
               PROVE  Executed(job[w].task)'
    BY DEF CheckedInOrder
  <2>1. PICK t \in Tasks : t = job'[w].task /\ Executed(t)
    BY <1>4
  <2>2. Executed(t)'
    BY <1>3, <2>1
  <2> QED
    BY <2>1, <2>2 DEF Executed
<1> QED
  BY <1>0, <1>2, <1>5 DEF OrderInv

(* The order holds at the start.                                           *)
LEMMA InitOrderInv == Init => OrderInv
<1> SUFFICES ASSUME Init PROVE OrderInv
  OBVIOUS
<1>1. CheckedInOrder
  BY DEF Init, CheckedInOrder, IdleJob
<1>2. PrerequisiteRespected
  BY DEF Init, PrerequisiteRespected, InOrder
<1> QED
  BY <1>1, <1>2, InitTaskInv DEF OrderInv

(* The invariant of reports in order holds.                                *)
THEOREM OrderInvariant == OrderlySpec => []OrderInv
  BY InitOrderInv, OrderStep, PTL DEF OrderlySpec

(* With reports in order no chained task leaves the queue before the one   *)
(* it is chained to succeeded. *)
THEOREM PrerequisitesRespected == OrderlySpec => []PrerequisiteRespected
  BY OrderInvariant, PTL DEF OrderInv

(* With reports in order the server's tables, whatever its threads and     *)
(* requests do, implement the lifecycle of tasks. *)
THEOREM ImplementsLifecycle == OrderlySpec => LifecycleSpec
<1>1. Init => Lifecycle!LifecycleInit
  BY DEF Init, Lifecycle!LifecycleInit
<1> QED
  BY <1>1, OrderInvariant, LifecycleStep, PTL
  DEF OrderlySpec, LifecycleSpec, Lifecycle!LifecycleSpec

----------------------------------------------------------------------------
(* The upgrade columns of the agents table: four writers that know nothing *)
(* of each other keep them in step with the tasks.                         *)


(* The row of a: its last upgrade task is a task that replaces the agent   *)
(* itself; it agrees with that task; and what it confirmed is what was     *)
(* desired.  The empty version of a rollback is never confirmed.           *)
UpgradeOK(a) ==
  LET r == agent[a] IN
  /\ r.task # Nil => row[r.task] # Nil /\ row[r.task].kind \in {"agent", "rollback"}
  /\ AgreesWithTasks(a)
  /\ r.upgrade = "succeeded" => r.current = r.desired /\ r.desired # Blank

(* Between the two writes of a rollback its agent desires the empty        *)
(* version, unless another request overtook it.                            *)
BetweenWrites ==
  (admin.op = "clear" /\ agent[admin.agent].task = admin.task) =>
    agent[admin.agent].desired = Blank

(* The inductive invariant of the upgrade columns, on top of that of the   *)
(* tasks. *)
UpgradeInv == TaskInv /\ BetweenWrites /\ \A a \in Agents : UpgradeOK(a)

(* A step that neither ends a task nor changes the columns of a task that  *)
(* exists. *)
EndsNoTask ==
  \A t \in Tasks :
    row[t] # Nil =>
      /\ row'[t] = row[t]
      /\ \A s \in Terminal : state'[t] = s <=> state[t] = s

(* The tasks of a chain exist and belong to the agent of the last one.     *)
LEMMA ChainTasks ==
  ASSUME TaskInv, NEW t \in Tasks, row[t] # Nil
  PROVE  /\ Chain(t) \subseteq Tasks
         /\ t \in Chain(t)
         /\ \A u \in Chain(t) :
              /\ row[u] # Nil
              /\ row[u].agent = row[t].agent
              /\ u = t \/ (row[t].after = u /\ row[u].kind = "installer")
<1>1. row[t].after \in Tasks \cup {Nil}
  BY DEF TaskInv, TypeOK, TaskRows
<1> QED
  BY <1>1, ConstantsOK DEF Chain, TaskInv, RowsOK

(* The row of an agent stays right as long as neither it nor the fate of   *)
(* a task changes. *)
LEMMA UpgradeFrame ==
  ASSUME TaskInv, NEW a \in Agents, UpgradeOK(a), EndsNoTask,
         agent'[a] = agent[a]
  PROVE  UpgradeOK(a)'
<1> DEFINE r == agent[a]
<1>1. CASE r.task = Nil
  BY <1>1 DEF UpgradeOK, AgreesWithTasks
<1>2. CASE r.task # Nil
  <2>1. r.task \in Tasks /\ row[r.task] # Nil
    BY <1>2 DEF UpgradeOK, TaskInv, TypeOK, AgentRows
  <2>2. row'[r.task] = row[r.task] /\ Chain(r.task)' = Chain(r.task)
    BY <2>1 DEF EndsNoTask, Chain
  <2>3. \A t \in Chain(r.task), s \in Terminal : state'[t] = s <=> state[t] = s
    BY <2>1, ChainTasks DEF EndsNoTask
  <2>4. \A t \in Chain(r.task) :
          /\ state'[t] = "succeeded" <=> state[t] = "succeeded"
          /\ state'[t] \in FailedStates <=> state[t] \in FailedStates
    BY <2>3 DEF Terminal, FailedStates
  <2>5. r.task \in Chain(r.task)
    BY <2>1, ChainTasks
  <2> QED
    BY <1>2, <2>1, <2>2, <2>4, <2>5 DEF UpgradeOK, AgreesWithTasks, FailedStates
<1> QED
  BY <1>1, <1>2

(* A registration keeps the row of its agent right. *)
LEMMA UpgradeUpsert ==
  ASSUME TaskInv, NEW a \in Agents, UpgradeOK(a), NEW v \in Versions,
         UNCHANGED <<row, state>>,
         agent'[a] = [ConfirmedUpgrade(agent[a], v) EXCEPT !.version = v]
  PROVE  /\ UpgradeOK(a)'
         /\ agent'[a].task = agent[a].task
         /\ agent'[a].desired = agent[a].desired
         /\ agent[a].upgrade # "waiting_reconnect" =>
              agent'[a].upgrade = agent[a].upgrade
<1> DEFINE r == agent[a]
<1>0. r \in AgentRows
  BY DEF TaskInv, TypeOK
<1>1. CASE r.upgrade # "waiting_reconnect"
  <2>1. agent'[a] = [r EXCEPT !.version = v]
    BY <1>1 DEF ConfirmedUpgrade
  <2>2. /\ agent'[a].task = r.task /\ agent'[a].upgrade = r.upgrade
        /\ agent'[a].error = r.error /\ agent'[a].current = r.current
        /\ agent'[a].desired = r.desired
    BY <1>0, <2>1 DEF AgentRows
  <2> QED
    BY <1>0, <2>2 DEF UpgradeOK, AgreesWithTasks, Chain
<1>2. CASE r.upgrade = "waiting_reconnect" /\ r.desired \in {v, Nil}
  <2>1. /\ agent'[a].task = r.task /\ agent'[a].upgrade = "succeeded"
        /\ agent'[a].desired = r.desired /\ agent'[a].current = r.desired
    BY <1>0, <1>2 DEF ConfirmedUpgrade, Settle, AgentRows
  <2>2. r.desired # Blank
    BY <1>2, ConstantsOK
  <2> QED
    BY <1>0, <1>2, <2>1, <2>2 DEF UpgradeOK, AgreesWithTasks, Chain
<1>3. CASE r.upgrade = "waiting_reconnect" /\ r.desired \notin {v, Nil}
  <2>1. /\ agent'[a].task = r.task /\ agent'[a].upgrade = "failed"
        /\ agent'[a].error = "unexpected_version" /\ agent'[a].desired = r.desired
    BY <1>0, <1>3 DEF ConfirmedUpgrade, Settle, AgentRows
  <2> QED
    BY <1>0, <1>3, <2>1 DEF UpgradeOK, AgreesWithTasks, Chain
<1> QED
  BY <1>1, <1>2, <1>3

(* So does the expiry every administration request begins with. *)
LEMMA UpgradeExpiry ==
  ASSUME TaskInv, NEW a \in Agents, UpgradeOK(a), UNCHANGED <<row, state>>,
         agent' = AgentsAfterExpiry
  PROVE  /\ UpgradeOK(a)'
         /\ agent'[a].task = agent[a].task
         /\ agent'[a].desired = agent[a].desired
         /\ agent[a].upgrade # "waiting_reconnect" =>
              agent'[a].upgrade = agent[a].upgrade
<1> DEFINE r == agent[a]
<1>0. r \in AgentRows
  BY DEF TaskInv, TypeOK
<1>1. CASE ~Overdue(a)
  <2>1. agent'[a] = r
    BY <1>1 DEF AgentsAfterExpiry
  <2> QED
    BY <2>1, UpgradeFrame DEF EndsNoTask
<1>2. CASE Overdue(a)
  <2>1. /\ agent'[a].task = r.task /\ agent'[a].upgrade = "failed"
        /\ agent'[a].error = "reconnect_timeout" /\ agent'[a].desired = r.desired
    BY <1>0, <1>2 DEF AgentsAfterExpiry, Settle, AgentRows
  <2>2. r.upgrade = "waiting_reconnect"
    BY <1>2 DEF Overdue
  <2> QED
    BY <1>0, <2>1, <2>2 DEF UpgradeOK, AgreesWithTasks, Chain
<1> QED
  BY <1>1, <1>2

(* What the result of a task that has not ended makes of an agents row.    *)
(* A verdict stands if the last upgrade is in order after it.              *)
LEMMA UpgradeResult ==
  ASSUME TaskInv, NEW a \in Agents, UpgradeOK(a),
         NEW t \in Tasks, NEW s \in Terminal, NEW stamp \in Times,
         row[t] # Nil, state[t] \notin Terminal,
         UNCHANGED row, state' = [state EXCEPT ![t] = s],
         agent' = AgentsAfterResult(t, s, stamp)
  PROVE  /\ UpgradeOK(a)'
         /\ agent'[a].task = agent[a].task
         /\ agent'[a].desired = agent[a].desired
         /\ (agent[a].upgrade \in {"succeeded", "failed"} /\ InOrder(agent[a].task)') =>
              agent'[a].upgrade = agent[a].upgrade
<1> DEFINE r == agent[a]
           last == agent[a].task
<1>0. /\ r \in AgentRows
      /\ state \in [Tasks -> TaskStates \cup {"none"}]
  BY DEF TaskInv, TypeOK
<1>1. CASE r.task = Nil \/ t \notin Chain(r.task)
  <2>1. r.task # t
    BY <1>1, ConstantsOK DEF Chain
  <2>2. agent'[a] = r
    BY <1>1, <2>1 DEF AgentsAfterResult, AfterResult
  <2>3. CASE r.task = Nil
    BY <2>2, <2>3 DEF UpgradeOK, AgreesWithTasks
  <2>4. CASE r.task # Nil
    <3>1. last \in Tasks /\ row[last] # Nil
      BY <1>0, <2>4 DEF UpgradeOK, AgentRows
    <3>2. \A u \in Chain(last) : state'[u] = state[u]
      BY <1>0, <1>1, <2>4, <3>1, ChainTasks
    <3>3. last \in Chain(last) /\ Chain(last)' = Chain(last)
      BY <2>2, <3>1, ChainTasks DEF Chain
    <3> QED
      BY <2>2, <2>4, <3>1, <3>2, <3>3 DEF UpgradeOK, AgreesWithTasks
  <2> QED
    BY <2>2, <2>3, <2>4
<1>2. CASE r.task # Nil /\ t \in Chain(r.task)
  <2>1. last \in Tasks /\ row[last] # Nil
    BY <1>0, <1>2 DEF UpgradeOK, AgentRows
  <2>2. /\ t = last \/ (row[last].after = t /\ t # Nil)
        /\ \A u \in Chain(last) : u = last \/ (row[last].after = u /\ u # Nil)
    BY <1>2, <2>1, ChainTasks DEF Chain
  <2>3. a = row[t].agent /\ row[t].kind \in PackageUpdates
    BY <1>2, <2>1, ChainTasks DEF UpgradeOK, AgreesWithTasks, PackageUpdates, Kinds
  <2>4. agent'[a] = AfterResult(r, t, s, stamp)
    BY <2>3 DEF AgentsAfterResult
  <2>5. /\ \A u \in Tasks : Chain(u)' = Chain(u)
        /\ last \in Chain(last) /\ Chain(last) \subseteq Tasks
    BY <2>1, ChainTasks DEF Chain
  <2>6. state'[t] = s /\ \A u \in Tasks \ {t} : state'[u] = state[u]
    BY <1>0
  <2>7. /\ row'[last] = row[last]
        /\ agent'[a].task = last =>
             (InOrder(agent[a].task)' =>
                (row[last].after # Nil /\ state'[last] # "queued" =>
                   state'[row[last].after] = "succeeded"))
    BY <2>1 DEF InOrder
  <2>8. CASE t = last /\ s = "succeeded"
    <3>1. /\ agent'[a].task = r.task /\ agent'[a].upgrade = "waiting_reconnect"
          /\ agent'[a].desired = r.desired
      BY <1>0, <2>4, <2>8 DEF AfterResult, Settle, AgentRows
    <3>2. row'[last] = row[last] /\ state'[last] = "succeeded"
      BY <2>6, <2>8
    <3>3. UpgradeOK(a)'
      BY <1>2, <2>1, <2>5, <3>1, <3>2 DEF UpgradeOK, AgreesWithTasks
    <3>4. ASSUME r.upgrade \in {"succeeded", "failed"}, InOrder(agent[a].task)'
          PROVE  FALSE
      <4>1. state[last] # "succeeded"
        BY <2>8 DEF Terminal
      <4>2. PICK u \in Chain(last) : state[u] \in FailedStates
        BY <1>2, <3>4, <4>1 DEF UpgradeOK, AgreesWithTasks
      <4>3. u # t /\ u = row[last].after /\ u # Nil
        BY <2>2, <2>8, <4>2 DEF Terminal, FailedStates
      <4>4. state'[u] = state[u]
        BY <2>5, <2>6, <4>3
      <4> QED
        BY <2>7, <3>1, <3>2, <3>4, <4>2, <4>3, <4>4 DEF FailedStates
    <3> QED
      BY <3>1, <3>3, <3>4
  <2>9. CASE s # "succeeded"
    <3>1. /\ agent'[a].task = r.task /\ agent'[a].upgrade = "failed"
          /\ agent'[a].error = "task_error" /\ agent'[a].desired = r.desired
      BY <1>0, <1>2, <2>4, <2>9 DEF AfterResult, Settle, AgentRows
    <3>2. s \in FailedStates
      BY <2>9 DEF Terminal, FailedStates
    <3>3. row'[last] = row[last] /\ \E u \in Chain(last) : state'[u] \in FailedStates
      BY <1>2, <2>6, <3>2
    <3>4. UpgradeOK(a)'
      BY <1>2, <2>1, <2>5, <3>1, <3>3 DEF UpgradeOK, AgreesWithTasks, FailedStates
    <3>5. ASSUME r.upgrade = "succeeded", InOrder(agent[a].task)'
          PROVE  FALSE
      <4>1. state[last] = "succeeded"
        BY <1>2, <3>5 DEF UpgradeOK, AgreesWithTasks
      <4>2. t # last /\ row[last].after = t /\ t # Nil
        BY <2>2, <4>1 DEF Terminal
      <4>3. state'[last] = "succeeded"
        BY <2>1, <2>6, <4>1, <4>2
      <4> QED
        BY <2>6, <2>7, <2>9, <3>1, <3>5, <4>2, <4>3
    <3> QED
      BY <3>1, <3>4, <3>5
  <2>10. CASE t # last /\ s = "succeeded"
    <3>1. agent'[a] = r
      BY <2>4, <2>10 DEF AfterResult
    <3>2. state'[last] = state[last]
      BY <2>1, <2>6, <2>10
    <3>3. \A u \in Chain(last) : state'[u] \in FailedStates <=> state[u] \in FailedStates
      BY <2>5, <2>6, <2>10 DEF FailedStates, Terminal
    <3> QED
      BY <1>2, <2>1, <2>5, <2>7, <3>1, <3>2, <3>3
      DEF UpgradeOK, AgreesWithTasks, FailedStates
  <2> QED
    BY <2>8, <2>9, <2>10
<1> QED
  BY <1>1, <1>2

(* What scheduling the last upgrade task t of an agent makes of its row.   *)
LEMMA UpgradeScheduled ==
  ASSUME TaskInv, TypeOK', RowsOK', NEW a \in Agents, NEW t \in Tasks,
         NEW v \in Versions \cup {Blank},
         agent'[a] = Scheduled(agent[a], v, t),
         row'[t] # Nil, row'[t].agent = a, row'[t].kind \in {"agent", "rollback"},
         \A u \in Chain(t)' : state'[u] = "queued",
         state'[t] = "queued"
  PROVE  UpgradeOK(a)' /\ agent'[a].task = t /\ agent'[a].desired = v
<1>1. agent[a] \in AgentRows
  BY DEF TaskInv, TypeOK
<1>2. /\ agent'[a].task = t /\ agent'[a].upgrade = "queued"
      /\ agent'[a].desired = v
  BY <1>1 DEF Scheduled, AgentRows
<1>3. t # Nil
  BY ConstantsOK
<1> QED
  BY <1>2, <1>3 DEF UpgradeOK, AgreesWithTasks, FailedStates

(* The verdict on the last upgrade of a stands, or there is a new upgrade. *)
VerdictKept(a) ==
  (agent[a].upgrade \in {"succeeded", "failed"} /\ InOrder(agent[a].task)') =>
    \/ agent'[a].upgrade = agent[a].upgrade
    \/ agent'[a].task # agent[a].task

(* A step that leaves the agents table and the administration request      *)
(* alone, and ends no task. *)
LEMMA UpgradeUntouched ==
  ASSUME UpgradeInv, TaskInv', EndsNoTask, UNCHANGED agent,
         UNCHANGED admin \/ admin'.op # "clear"
  PROVE  UpgradeInv' /\ \A a \in Agents : VerdictKept(a)
<1>1. BetweenWrites'
  BY DEF BetweenWrites, UpgradeInv
<1>2. \A a \in Agents : UpgradeOK(a)' /\ VerdictKept(a)
  BY UpgradeFrame DEF UpgradeInv, VerdictKept
<1> QED
  BY <1>1, <1>2 DEF UpgradeInv

(* A step that may change what an agents row says, but not its last task,  *)
(* nor what it desires, nor a verdict. *)
LEMMA UpgradeTouched ==
  ASSUME UpgradeInv, TaskInv', UNCHANGED admin \/ admin'.op # "clear",
         \A a \in Agents :
           /\ UpgradeOK(a)'
           /\ agent'[a].task = agent[a].task
           /\ agent'[a].desired = agent[a].desired
           /\ (agent[a].upgrade \in {"succeeded", "failed"} /\ InOrder(agent[a].task)') =>
                agent'[a].upgrade = agent[a].upgrade
  PROVE  UpgradeInv' /\ \A a \in Agents : VerdictKept(a)
<1>1. BetweenWrites'
  BY AdminStages DEF BetweenWrites, UpgradeInv, TaskInv, TypeOK
<1> QED
  BY <1>1 DEF UpgradeInv, VerdictKept

(* A request that schedules task t, which did not exist, for agent b.      *)
LEMMA UpgradeRescheduled ==
  ASSUME UpgradeInv, TaskInv', NEW b \in Agents, NEW t \in Tasks,
         NEW v \in Versions \cup {Blank},
         state[t] = "none", EndsNoTask,
         agent' = [agent EXCEPT ![b] = Scheduled(agent[b], v, t)],
         row'[t] # Nil, row'[t].agent = b, row'[t].kind \in {"agent", "rollback"},
         \A u \in Chain(t)' : state'[u] = "queued",
         state'[t] = "queued",
         admin'.op = "clear" => /\ admin'.agent = b /\ admin'.task = t
                                /\ v = Blank
  PROVE  UpgradeInv' /\ \A a \in Agents : VerdictKept(a)
<1>1. agent \in [Agents -> AgentRows]
  BY DEF UpgradeInv, TaskInv, TypeOK
<1>2. agent'[b] = Scheduled(agent[b], v, t)
  BY <1>1
<1>3. UpgradeOK(b)' /\ agent'[b].task = t /\ agent'[b].desired = v
  BY <1>2, UpgradeScheduled DEF UpgradeInv, TaskInv
<1>4. agent[b].task # t
  <2>1. row[t] = Nil
    BY DEF UpgradeInv, TaskInv, RowsOK
  <2> QED
    BY <2>1, ConstantsOK DEF UpgradeInv, UpgradeOK
<1>5. VerdictKept(b)
  BY <1>3, <1>4 DEF VerdictKept
<1>6. ASSUME NEW a \in Agents \ {b}
      PROVE  UpgradeOK(a)' /\ VerdictKept(a)
  <2>1. agent'[a] = agent[a]
    BY <1>1
  <2> QED
    BY <2>1, UpgradeFrame DEF UpgradeInv, VerdictKept
<1>7. BetweenWrites'
  BY <1>3 DEF BetweenWrites
<1> QED
  BY <1>3, <1>5, <1>6, <1>7 DEF UpgradeInv

(* The second write of a rollback. *)
LEMMA UpgradeCleared ==
  ASSUME UpgradeInv, TaskInv', ClearDesired
  PROVE  UpgradeInv' /\ \A a \in Agents : VerdictKept(a)
<1>0. PICK b \in Agents : b = admin.agent
  BY AdminStages DEF ClearDesired, UpgradeInv, TaskInv, TypeOK
<1>1. agent \in [Agents -> AgentRows]
  BY DEF UpgradeInv, TaskInv, TypeOK
<1>2. EndsNoTask /\ admin'.op # "clear" /\ UNCHANGED <<row, state>>
  BY DEF ClearDesired, EndsNoTask, IdleAdmin
<1>3. CASE agent[b].task # admin.task
  <2>1. UNCHANGED agent
    BY <1>0, <1>3 DEF ClearDesired
  <2> QED
    BY <1>2, <2>1, UpgradeUntouched
<1>4. CASE agent[b].task = admin.task
  <2>1. agent' = [agent EXCEPT ![b].desired = Nil]
    BY <1>0, <1>4 DEF ClearDesired
  <2>2. agent[b].desired = Blank
    BY <1>0, <1>4 DEF ClearDesired, UpgradeInv, BetweenWrites
  <2>3. agent[b].upgrade # "succeeded"
    BY <1>1, <2>2 DEF UpgradeInv, UpgradeOK
  <2>4. /\ agent'[b].task = agent[b].task /\ agent'[b].upgrade = agent[b].upgrade
        /\ agent'[b].error = agent[b].error
    BY <1>1, <2>1 DEF AgentRows
  <2>5. UpgradeOK(b)'
    BY <1>1, <1>2, <2>3, <2>4 DEF UpgradeInv, UpgradeOK, AgreesWithTasks, Chain
  <2>6. VerdictKept(b)
    BY <2>4 DEF VerdictKept
  <2>7. ASSUME NEW a \in Agents \ {b}
        PROVE  UpgradeOK(a)' /\ VerdictKept(a)
    <3>1. agent'[a] = agent[a]
      BY <1>1, <2>1
    <3> QED
      BY <1>2, <3>1, UpgradeFrame DEF UpgradeInv, VerdictKept
  <2>8. BetweenWrites'
    BY <1>2 DEF BetweenWrites
  <2> QED
    BY <2>5, <2>6, <2>7, <2>8 DEF UpgradeInv
<1> QED
  BY <1>3, <1>4

(* Every step keeps the invariant of the upgrades, and their verdicts.     *)
LEMMA UpgradeStep ==
  ASSUME UpgradeInv, [Next]_vars
  PROVE  UpgradeInv' /\ \A a \in Agents : VerdictKept(a)
<1> DEFINE Goal == UpgradeInv' /\ \A a \in Agents : VerdictKept(a)
<1>0. TypeOK /\ TypeOK' /\ TaskInv /\ TaskInv' /\ RowsOK'
  BY TaskStep DEF UpgradeInv, TaskInv
<1>1. ASSUME NEW t \in Tasks, NEW a \in Agents, NEW e \in Expiries,
             EnqueueTask(t, a, e)
      PROVE  Goal
  <2>1. EndsNoTask
    BY <1>0, <1>1 DEF EnqueueTask, EndsNoTask, TypeOK, TaskInv, RowsOK
  <2> QED
    BY <1>0, <1>1, <2>1, UpgradeUntouched DEF EnqueueTask
<1>2. ASSUME NEW t \in Tasks, NEW a \in Agents, NEW at \in Times,
             ClaimNextTaskForAgent(t, a, at)
      PROVE  Goal
  <2>1. EndsNoTask
    BY <1>0, <1>2 DEF ClaimNextTaskForAgent, Claimable, EndsNoTask, TypeOK, Terminal
  <2> QED
    BY <1>0, <1>2, <2>1, UpgradeUntouched DEF ClaimNextTaskForAgent
<1>3. ASSUME NEW w \in Workers, MarkTaskRunning(w)
      PROVE  Goal
  <2>1. EndsNoTask
    BY <1>0, <1>3 DEF MarkTaskRunning, EndsNoTask, TypeOK, Terminal
  <2> QED
    BY <1>0, <1>3, <2>1, UpgradeUntouched DEF MarkTaskRunning
<1>4. ASSUME NEW w \in Workers,
             \/ \E t \in Tasks : CheckRunning(w, t)
             \/ \E t \in Tasks, s \in Terminal : CheckResult(w, t, s)
             \/ AuditReport(w)
      PROVE  Goal
  <2>1. UNCHANGED <<row, state, agent, admin>>
    BY <1>4 DEF CheckRunning, CheckResult, AuditReport, dbVars
  <2> QED
    BY <1>0, <2>1, UpgradeUntouched DEF EndsNoTask
<1>5. ASSUME Restart \/ Tick \/ UNCHANGED vars
      PROVE  Goal
  <2>1. UNCHANGED <<row, state, agent>> /\ (UNCHANGED admin \/ admin'.op # "clear")
    BY <1>5 DEF Restart, Tick, vars, dbVars, IdleAdmin
  <2> QED
    BY <1>0, <2>1, UpgradeUntouched DEF EndsNoTask
<1>6. ASSUME NEW a \in Agents, NEW v \in Versions, UpsertAgent(a, v)
      PROVE  Goal
  <2>1. /\ UNCHANGED <<row, state, admin>>
        /\ agent' = [agent EXCEPT ![a] =
                       [ConfirmedUpgrade(agent[a], v) EXCEPT !.version = v]]
    BY <1>6 DEF UpsertAgent
  <2>2. agent'[a] = [ConfirmedUpgrade(agent[a], v) EXCEPT !.version = v]
    BY <1>0, <2>1 DEF TypeOK
  <2>3. \A b \in Agents \ {a} : agent'[b] = agent[b]
    BY <1>0, <2>1 DEF TypeOK
  <2>4. \A b \in Agents : UpgradeOK(b)
    BY DEF UpgradeInv
  <2>5. \A b \in Agents \ {a} : UpgradeOK(b)'
    BY <1>0, <2>1, <2>3, <2>4, UpgradeFrame DEF EndsNoTask
  <2>6. /\ UpgradeOK(a)' /\ agent'[a].task = agent[a].task
        /\ agent'[a].desired = agent[a].desired
        /\ agent[a].upgrade \in {"succeeded", "failed"} =>
             agent'[a].upgrade = agent[a].upgrade
    BY <1>0, <2>1, <2>2, <2>4, UpgradeUpsert
  <2>7. \A b \in Agents :
          /\ UpgradeOK(b)' /\ agent'[b].task = agent[b].task
          /\ agent'[b].desired = agent[b].desired
          /\ agent[b].upgrade \in {"succeeded", "failed"} =>
               agent'[b].upgrade = agent[b].upgrade
    BY <2>3, <2>5, <2>6
  <2> QED
    BY <1>0, <2>1, <2>7, UpgradeTouched
<1>7. ASSUME \/ AdminRead
             \/ \E a \in Agents, v \in Versions, c \in BOOLEAN : AdminUpgrade(a, v, c)
             \/ \E a \in Agents : AdminRollback(a)
      PROVE  Goal
  <2>1. /\ UNCHANGED <<row, state>> /\ agent' = AgentsAfterExpiry
        /\ UNCHANGED admin \/ admin'.op # "clear"
    BY <1>7 DEF AdminRead, AdminUpgrade, AdminRollback
  <2>2. \A b \in Agents :
          /\ UpgradeOK(b)' /\ agent'[b].task = agent[b].task
          /\ agent'[b].desired = agent[b].desired
          /\ agent[b].upgrade \in {"succeeded", "failed"} =>
               agent'[b].upgrade = agent[b].upgrade
    BY <1>0, <2>1, UpgradeExpiry DEF UpgradeInv
  <2> QED
    BY <1>0, <2>1, <2>2, UpgradeTouched
<1>8. ASSUME NEW w \in Workers, NEW stamp \in Times, RecordTaskResult(w, stamp)
      PROVE  Goal
  <2>1. CASE UNCHANGED <<row, state, agent, admin>>
    BY <1>0, <2>1, UpgradeUntouched DEF EndsNoTask
  <2>2. CASE ~UNCHANGED <<row, state, agent, admin>>
    <3>1. PICK t \in Tasks, s \in Terminal : t = job[w].task /\ s = job[w].report
      BY <1>0, <1>8, JobStages DEF RecordTaskResult, TypeOK, Reports
    <3>2. /\ state[t] \notin Terminal /\ state' = [state EXCEPT ![t] = s]
          /\ agent' = AgentsAfterResult(t, s, stamp) /\ UNCHANGED <<row, admin>>
      BY <1>8, <2>2, <3>1 DEF RecordTaskResult
    <3>3. row[t] # Nil
      BY <1>0, <1>8, <3>1 DEF RecordTaskResult, TaskInv, JobsOK, JobOK, RowsOK
    <3>4. \A b \in Agents :
            /\ UpgradeOK(b)' /\ agent'[b].task = agent[b].task
            /\ agent'[b].desired = agent[b].desired
            /\ (agent[b].upgrade \in {"succeeded", "failed"} /\ InOrder(agent[b].task)') =>
                 agent'[b].upgrade = agent[b].upgrade
      BY <1>0, <3>2, <3>3, UpgradeResult DEF UpgradeInv
    <3> QED
      BY <1>0, <3>2, <3>4, UpgradeTouched
  <2> QED
    BY <2>1, <2>2
<1>9. ASSUME NEW t \in Tasks, NEW e \in Expiries, ScheduleAgentRollback(t, e)
      PROVE  Goal
  <2>1. PICK b \in Agents : b = admin.agent
    BY <1>0, <1>9, AdminStages DEF ScheduleAgentRollback, TypeOK
  <2>2. /\ state[t] = "none" /\ EndsNoTask
        /\ agent' = [agent EXCEPT ![b] = Scheduled(agent[b], Blank, t)]
        /\ state'[t] = "queued"
    BY <1>0, <1>9, <2>1 DEF ScheduleAgentRollback, EndsNoTask, TypeOK, TaskInv, RowsOK
  <2>3. /\ row'[t].agent = b /\ row'[t].kind \in {"agent", "rollback"}
        /\ row'[t].after = Nil
    BY <1>0, <1>9, <2>1 DEF ScheduleAgentRollback, NewRow, TypeOK
  <2>4. row'[t] # Nil /\ \A u \in Chain(t)' : state'[u] = "queued"
    BY <1>0, <2>2, <2>3 DEF Chain, RowsOK
  <2>5. admin'.op = "clear" => admin'.agent = b /\ admin'.task = t
    <3>1. /\ [admin EXCEPT !.op = "clear", !.task = t].agent = admin.agent
          /\ [admin EXCEPT !.op = "clear", !.task = t].task = t
      BY <1>0 DEF TypeOK, AdminJobs, IdleAdmin
    <3> QED
      BY <1>9, <2>1, <3>1 DEF ScheduleAgentRollback
  <2> QED
    BY <1>0, <2>2, <2>3, <2>4, <2>5, UpgradeRescheduled
<1>10. ASSUME NEW t \in Tasks, NEW p \in Tasks \cup {Nil}, NEW e \in Expiries,
              ScheduleAgentUpgrade(t, p, e)
       PROVE  Goal
  <2>1. PICK b \in Agents, v \in Versions : b = admin.agent /\ v = admin.version
    BY <1>0, <1>10, AdminStages DEF ScheduleAgentUpgrade, TypeOK
  <2>2. /\ state[t] = "none" /\ EndsNoTask /\ admin'.op # "clear"
        /\ agent' = [agent EXCEPT ![b] = Scheduled(agent[b], v, t)]
        /\ state'[t] = "queued"
    BY <1>0, <1>10, <2>1
    DEF ScheduleAgentUpgrade, EndsNoTask, TypeOK, TaskInv, RowsOK, IdleAdmin
  <2>3. row'[t].agent = b /\ row'[t].kind = "agent" /\ row'[t].after = p
    BY <1>0, <1>10, <2>1 DEF ScheduleAgentUpgrade, NewRow, TypeOK
  <2>4. p # Nil => state'[p] = "queued"
    BY <1>0, <1>10, ConstantsOK DEF ScheduleAgentUpgrade, TypeOK
  <2>5. row'[t] # Nil /\ \A u \in Chain(t)' : state'[u] = "queued"
    BY <1>0, <2>2, <2>3, <2>4 DEF Chain, RowsOK
  <2> QED
    BY <1>0, <2>2, <2>3, <2>5, UpgradeRescheduled
<1>11. CASE ClearDesired
  BY <1>0, <1>11, UpgradeCleared
<1> QED
  BY <1>1, <1>2, <1>3, <1>4, <1>5, <1>6, <1>7, <1>8, <1>9, <1>10, <1>11
  DEF Next, AgentStep, AnyResult, WorkerStep, AdminStep

(* The invariant of the upgrades holds. *)
THEOREM UpgradeInvariant == Spec => []UpgradeInv
<1>1. Init => TaskInv
  BY InitTaskInv
<1>2. Init => UpgradeInv
  BY <1>1, ConstantsOK DEF Init, UpgradeInv, UpgradeOK, AgreesWithTasks, BetweenWrites,
     Unregistered, IdleAdmin
<1> QED
  BY <1>2, UpgradeStep, PTL DEF Spec

(* Whatever order results, registrations, expiries and scheduling requests *)
(* take, the upgrade columns tell the truth about the tasks. *)
THEOREM UpgradesAgree == Spec => []UpgradeAgrees
<1>1. UpgradeInv => UpgradeAgrees
  BY DEF UpgradeInv, UpgradeOK, UpgradeAgrees
<1> QED
  BY <1>1, UpgradeInvariant, PTL

(* The two writes of a rollback never leave an upgrade confirmed on one    *)
(* package and recorded on another. *)
THEOREM ConfirmedIsDesired == Spec => []ConfirmedMatchesDesired
<1>1. UpgradeInv => ConfirmedMatchesDesired
  BY DEF UpgradeInv, UpgradeOK, ConfirmedMatchesDesired
<1> QED
  BY <1>1, UpgradeInvariant, PTL

(* No late registration, result or expiry changes the verdict on an        *)
(* upgrade, unless a result overtook the prerequisite. *)
THEOREM VerdictsStand == Spec => VerdictStable
<1>1. UpgradeInv /\ [Next]_vars =>
        [\A a \in Agents :
           (agent[a].upgrade \in {"succeeded", "failed"} /\ InOrder(agent[a].task)') =>
             \/ agent'[a].upgrade = agent[a].upgrade
             \/ agent'[a].task # agent[a].task]_vars
  BY UpgradeStep DEF VerdictKept
<1> QED
  BY <1>1, UpgradeInvariant, PTL DEF Spec, VerdictStable
=============================================================================
