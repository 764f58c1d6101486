----------------------------- MODULE TaskStore -----------------------------
(***************************************************************************)
(* The tasks, task_results and agents tables of the server, and everything *)
(* that writes them while the server runs: the claim made for a command    *)
(* stream, the worker threads that handle task_running and task_result     *)
(* events, the administration requests that schedule upgrades and          *)
(* rollbacks, and agents registering.                                      *)
(*                                                                         *)
(* Every write reaches the database through one write actor, and each      *)
(* write is one SQLite statement or transaction, so one write is one       *)
(* action here.  What is NOT atomic in the code is not atomic here: a      *)
(* worker reads the task, later writes it, and later writes the audit      *)
(* event; a rollback is scheduled by two writes.  A restart of the server  *)
(* may fall between any two of these steps: it forgets the requests in     *)
(* progress and keeps the tables.                                          *)
(***************************************************************************)
EXTENDS Naturals

CONSTANTS
  Agents,            \* agent identifiers
  Tasks,             \* task identifiers (UUIDs)
  Workers,           \* threads of the control worker pool
  Versions,          \* package versions; a version also names its package
  Nil,               \* SQL null
  Blank,             \* the empty string ScheduleAgentRollback stores as version
  MaxTime,           \* bound on the clock, in units of the reconnect timeout
  Expiries,          \* the expiry times requests may ask for
  ReconnectTimeout   \* the ten minutes of ExpireWaitingReconnect

Times == 0 .. MaxTime

Kinds == {"inventory", "installer", "agent", "rollback"}

PackageUpdates == Kinds \ {"inventory"}

TaskStates == {"queued", "assigned", "running",
               "succeeded", "failed", "expired"}

(* IsTerminalTaskState. *)
Terminal == {"succeeded", "failed", "expired"}

Errors == {"task_error", "unexpected_version", "reconnect_timeout"}

TaskRows ==
  [agent : Agents, kind : Kinds, after : Tasks \cup {Nil},
   created : Times, expires : Expiries]

ASSUME ConstantsOK ==
  /\ Versions \subseteq Nat
  /\ MaxTime \in Nat
  /\ ReconnectTimeout \in Nat
  /\ Expiries \subseteq Nat
  /\ Nil \notin Tasks \cup Agents \cup Versions \cup Times \cup TaskRows
  /\ Blank \notin Versions \cup {Nil}

VARIABLES
  now,     \* the clock
  row,     \* row[t]: the columns of tasks fixed when t is inserted
  state,   \* state[t]: the column tasks.state, "none" before t is inserted
  result,  \* result[t]: status in task_results, "none" when there is no row
  agent,   \* agent[a]: the row of a in agents
  audit,   \* the task events in audit_events, but for task_queued
  job,     \* job[w]: the event worker w is handling
  admin    \* the administration request being handled

dbVars == <<row, state, result, agent, audit>>
vars == <<now, row, state, result, agent, audit, job, admin>>

AgentRows ==
  [version : Versions \cup {Nil},          \* agent_version
   current : Versions \cup {Nil},          \* current_package_id
   desired : Versions \cup {Nil, Blank},   \* desired_version, desired_package_id
   upgrade : {"none", "queued", "waiting_reconnect", "succeeded", "failed"},
   task    : Tasks \cup {Nil},             \* last_upgrade_task_id
   error   : Errors \cup {"none"},         \* last_upgrade_error
   at      : Times \cup {Nil}]             \* last_upgrade_at

Reports == {"running"} \cup Terminal

IdleJob == [stage |-> "idle", task |-> Nil, report |-> "running"]

Jobs ==
  {IdleJob}
  \cup [stage : {"checked", "stored"}, task : Tasks, report : Reports]

IdleAdmin == [op |-> "idle", agent |-> Nil, version |-> Nil,
              chain |-> FALSE, task |-> Nil]

AdminJobs ==
  {IdleAdmin}
  \cup [op : {"upgrade"}, agent : Agents, version : Versions,
        chain : BOOLEAN, task : {Nil}]
  \cup [op : {"rollback"}, agent : Agents, version : {Nil},
        chain : {FALSE}, task : {Nil}]
  \cup [op : {"clear"}, agent : Agents, version : {Nil},
        chain : {FALSE}, task : Tasks]

AuditEvents == Tasks \X ({"assigned"} \cup Reports)

TypeOK ==
  /\ now \in Times
  /\ row \in [Tasks -> TaskRows \cup {Nil}]
  /\ state \in [Tasks -> TaskStates \cup {"none"}]
  /\ result \in [Tasks -> Terminal \cup {"none"}]
  /\ agent \in [Agents -> AgentRows]
  /\ audit \subseteq AuditEvents
  /\ job \in [Workers -> Jobs]
  /\ admin \in AdminJobs

----------------------------------------------------------------------------
(* An agent with no row yet. *)
Unregistered ==
  [version |-> Nil, current |-> Nil, desired |-> Nil, upgrade |-> "none",
   task |-> Nil, error |-> "none", at |-> Nil]

Init ==
  /\ now = 0
  /\ row = [t \in Tasks |-> Nil]
  /\ state = [t \in Tasks |-> "none"]
  /\ result = [t \in Tasks |-> "none"]
  /\ agent = [a \in Agents |-> Unregistered]
  /\ audit = {}
  /\ job = [w \in Workers |-> IdleJob]
  /\ admin = IdleAdmin

Registered(a) == agent[a].version # Nil

(* A task and the one it is chained to. *)
Chain(t) == {t, row[t].after} \ {Nil}

NewRow(a, kind, after, expires) ==
  [agent |-> a, kind |-> kind, after |-> after,
   created |-> now, expires |-> expires]

----------------------------------------------------------------------------
(* The upgrade columns, set together. *)
Settle(r, upgrade, error, at) ==
  [r EXCEPT !.upgrade = upgrade, !.error = error, !.at = at]

ConfirmedUpgradeMutant1(r, v) ==   \* does not follow the confirmed package
  IF r.upgrade = "waiting_reconnect" /\ r.desired \in {v, Nil}
  THEN Settle(r, "succeeded", "none", now)
  ELSE r

ConfirmedUpgradeMutant2(r, v) ==   \* confirms an upgrade that timed out
  IF r.upgrade \in {"waiting_reconnect", "failed"} /\ r.desired \in {v, Nil}
  THEN [Settle(r, "succeeded", "none", now) EXCEPT !.current = r.desired]
  ELSE r

(* UpsertAgent, the write of a registration that reports version v.  An    *)
(* upgrade that waits for the reconnection ends here: in success if v is   *)
(* the desired version, or if there is none (a rollback); in failure if v  *)
(* is another version.  Any other registration leaves the upgrade alone.   *)
(* (The time it sets is the agent's; nobody reads it before a result sets  *)
(* it again, so `now` stands for it.)                                      *)
ConfirmedUpgrade(r, v) ==
  IF r.upgrade # "waiting_reconnect"
  THEN r
  ELSE IF r.desired \in {v, Nil}
  THEN [Settle(r, "succeeded", "none", now) EXCEPT !.current = r.desired]
  ELSE Settle(r, "failed", "unexpected_version", now)

UpsertAgent(a, v) ==
  /\ agent' = [agent EXCEPT ![a] =
                 [ConfirmedUpgrade(agent[a], v) EXCEPT !.version = v]]
  /\ UNCHANGED <<now, row, state, result, audit, job, admin>>

----------------------------------------------------------------------------
(* EnqueueTask: a task outside any upgrade. *)
EnqueueTask(t, a, expires) ==
  /\ state[t] = "none"
  /\ state' = [state EXCEPT ![t] = "queued"]
  /\ row' = [row EXCEPT ![t] = NewRow(a, "inventory", Nil, expires)]
  /\ UNCHANGED <<now, result, agent, audit, job, admin>>

ClaimableMutant(t, a, at) ==   \* hands out a chained task at once
  /\ state[t] = "queued"
  /\ row[t].agent = a
  /\ row[t].expires > at

(* The select of AsyncClaimNextTaskForAgent. *)
Claimable(t, a, at) ==
  /\ state[t] = "queued"
  /\ row[t].agent = a
  /\ row[t].expires > at
  /\ row[t].after # Nil => state[row[t].after] = "succeeded"

(* AsyncClaimNextTaskForAgent.  The session took `at` from the clock when  *)
(* it submitted the claim, which may be earlier than the write.            *)
ClaimNextTaskForAgent(t, a, at) ==
  /\ at <= now
  /\ Claimable(t, a, at)
  /\ \A u \in Tasks : Claimable(u, a, at) => row[t].created <= row[u].created
  /\ state' = [state EXCEPT ![t] = "assigned"]
  /\ UNCHANGED <<now, row, result, agent, audit, job, admin>>

----------------------------------------------------------------------------
(* A worker handles an event about task t; the transport may present one   *)
(* event to two workers, or again later.  HandleTaskRunning and            *)
(* HandleTaskResult begin by reading the task: a refused event ends there  *)
(* and changes nothing.                                                    *)
CheckRunning(w, t) ==
  /\ job[w].stage = "idle"
  /\ state[t] = "assigned"
  /\ job' = [job EXCEPT ![w] =
               [stage |-> "checked", task |-> t, report |-> "running"]]
  /\ UNCHANGED <<now, dbVars, admin>>

(* A result is refused of a task that has ended, and of no other: it may   *)
(* come while the task is queued or assigned.                              *)
CheckResult(w, t, s) ==
  /\ job[w].stage = "idle"
  /\ state[t] \notin Terminal \cup {"none"}
  /\ job' = [job EXCEPT ![w] =
               [stage |-> "checked", task |-> t, report |-> s]]
  /\ UNCHANGED <<now, dbVars, admin>>

Stored(w) == [job EXCEPT ![w].stage = "stored"]
Refused(w) == [job EXCEPT ![w] = IdleJob]

(* MarkTaskRunning: the update names the state it expects. *)
MarkTaskRunning(w) ==
  LET t == job[w].task IN
  /\ job[w].stage = "checked" /\ job[w].report = "running"
  /\ \/ /\ state[t] = "assigned"
        /\ state' = [state EXCEPT ![t] = "running"]
        /\ job' = Stored(w)
     \/ /\ state[t] # "assigned"
        /\ job' = Refused(w)
        /\ UNCHANGED state
  /\ UNCHANGED <<now, row, result, agent, audit, admin>>

AfterResultMutant1(r, t, s, stamp) ==   \* stores the task's own status
  IF r.task = t THEN Settle(r, s, "none", stamp) ELSE r

AfterResultMutant2(r, t, s, stamp) ==   \* forgets the chained task
  IF r.task # t THEN r
  ELSE IF s = "succeeded" THEN Settle(r, "waiting_reconnect", "none", stamp)
  ELSE Settle(r, "failed", "task_error", stamp)

(* An agents row r after the result s of t, a package update of its agent: *)
(* t may be its last upgrade task or, when t did not succeed, the task its *)
(* last upgrade task is chained to.                                        *)
AfterResult(r, t, s, stamp) ==
  IF r.task = t /\ s = "succeeded"
  THEN Settle(r, "waiting_reconnect", "none", stamp)
  ELSE IF s # "succeeded" /\ r.task # Nil /\ t \in Chain(r.task)
  THEN Settle(r, "failed", "task_error", stamp)
  ELSE r

AgentsAfterResult(t, s, stamp) ==
  [a \in Agents |->
    IF a = row[t].agent /\ row[t].kind \in PackageUpdates
    THEN AfterResult(agent[a], t, s, stamp)
    ELSE agent[a]]

RecordTaskResultMutant1(w, stamp) ==   \* the second result wins the state
  LET t == job[w].task
      s == job[w].report
  IN
  /\ job[w].stage = "checked" /\ s # "running"
  /\ result' = [result EXCEPT ![t] = IF @ = "none" THEN s ELSE @]
  /\ state' = [state EXCEPT ![t] = s]
  /\ agent' = AgentsAfterResult(t, s, stamp)
  /\ job' = Stored(w)
  /\ UNCHANGED <<now, row, audit, admin>>

RecordTaskResultMutant2(w, stamp) ==   \* a duplicate is ignored, yet audited
  LET t == job[w].task
      s == job[w].report
  IN
  /\ job[w].stage = "checked" /\ s # "running"
  /\ result' = [result EXCEPT ![t] = IF @ = "none" THEN s ELSE @]
  /\ state' = [state EXCEPT ![t] = IF result[t] = "none" THEN s ELSE @]
  /\ agent' = IF result[t] = "none" THEN AgentsAfterResult(t, s, stamp) ELSE agent
  /\ job' = Stored(w)
  /\ UNCHANGED <<now, row, audit, admin>>

(* RecordTaskResult, one transaction: it aborts if task_results already    *)
(* has a row for t or t is in a terminal state.  `stamp` is the time the   *)
(* agent wrote into its event, by its own clock.                           *)
RecordTaskResult(w, stamp) ==
  LET t == job[w].task
      s == job[w].report
  IN
  /\ job[w].stage = "checked" /\ s # "running"
  /\ \/ /\ result[t] = "none"
        /\ state[t] \notin Terminal
        /\ result' = [result EXCEPT ![t] = s]
        /\ state' = [state EXCEPT ![t] = s]
        /\ agent' = AgentsAfterResult(t, s, stamp)
        /\ job' = Stored(w)
     \/ /\ result[t] # "none" \/ state[t] \in Terminal
        /\ job' = Refused(w)
        /\ UNCHANGED <<result, state, agent>>
  /\ UNCHANGED <<now, row, audit, admin>>

(* The RecordAuditEvent that follows either write. *)
AuditReport(w) ==
  /\ job[w].stage = "stored"
  /\ audit' = audit \cup {<<job[w].task, job[w].report>>}
  /\ job' = [job EXCEPT ![w] = IdleJob]
  /\ UNCHANGED <<now, row, state, result, agent, admin>>

----------------------------------------------------------------------------
(* ExpireWaitingReconnect, with which every administration request begins. *)
Overdue(a) ==
  /\ agent[a].upgrade = "waiting_reconnect"
  /\ agent[a].at # Nil
  /\ agent[a].at + ReconnectTimeout <= now

AgentsAfterExpiry ==
  [a \in Agents |->
    IF Overdue(a)
    THEN Settle(agent[a], "failed", "reconnect_timeout", agent[a].at)
    ELSE agent[a]]

(* A request that only reads. *)
AdminRead ==
  /\ admin.op = "idle"
  /\ agent' = AgentsAfterExpiry
  /\ UNCHANGED <<now, row, state, result, audit, job, admin>>

(* POST .../upgrade up to its write: the agent is known and the package is *)
(* newer than the version it reported.  The package may ask for an         *)
(* installer first (chain).                                                *)
AdminUpgrade(a, v, chain) ==
  /\ admin.op = "idle"
  /\ Registered(a)
  /\ v > agent[a].version
  /\ agent' = AgentsAfterExpiry
  /\ admin' = [op |-> "upgrade", agent |-> a, version |-> v,
               chain |-> chain, task |-> Nil]
  /\ UNCHANGED <<now, row, state, result, audit, job>>

AdminRollback(a) ==
  /\ admin.op = "idle"
  /\ Registered(a)
  /\ agent' = AgentsAfterExpiry
  /\ admin' = [op |-> "rollback", agent |-> a, version |-> Nil,
               chain |-> FALSE, task |-> Nil]
  /\ UNCHANGED <<now, row, state, result, audit, job>>

(* The agents row once task t towards version v is scheduled. *)
Scheduled(r, v, t) ==
  [r EXCEPT !.desired = v, !.upgrade = "queued", !.task = t, !.error = "none"]

(* ScheduleAgentUpgrade: the agents row, the prerequisite p if there is    *)
(* one, and the task t, in one transaction.                                *)
ScheduleAgentUpgrade(t, p, expires) ==
  LET a == admin.agent IN
  /\ admin.op = "upgrade"
  /\ state[t] = "none"
  /\ agent' = [agent EXCEPT ![a] = Scheduled(agent[a], admin.version, t)]
  /\ \/ /\ ~admin.chain /\ p = Nil
        /\ state' = [state EXCEPT ![t] = "queued"]
        /\ row' = [row EXCEPT ![t] = NewRow(a, "agent", Nil, expires)]
     \/ /\ admin.chain /\ p \in Tasks \ {t} /\ state[p] = "none"
        /\ state' = [state EXCEPT ![t] = "queued", ![p] = "queued"]
        /\ row' = [row EXCEPT ![p] = NewRow(a, "installer", Nil, expires),
                              ![t] = NewRow(a, "agent", p, expires)]
  /\ admin' = IdleAdmin
  /\ UNCHANGED <<now, result, audit, job>>

(* ScheduleAgentRollback, first write: ScheduleAgentUpgrade with an empty  *)
(* version and an empty package.                                           *)
ScheduleAgentRollback(t, expires) ==
  LET a == admin.agent IN
  /\ admin.op = "rollback"
  /\ state[t] = "none"
  /\ agent' = [agent EXCEPT ![a] = Scheduled(agent[a], Blank, t)]
  /\ state' = [state EXCEPT ![t] = "queued"]
  /\ row' = [row EXCEPT ![t] = NewRow(a, "rollback", Nil, expires)]
  /\ admin' = [admin EXCEPT !.op = "clear", !.task = t]
  /\ UNCHANGED <<now, result, audit, job>>

(* ScheduleAgentRollback, second write. *)
ClearDesired ==
  LET a == admin.agent IN
  /\ admin.op = "clear"
  /\ agent' = IF agent[a].task = admin.task
              THEN [agent EXCEPT ![a].desired = Nil]
              ELSE agent
  /\ admin' = IdleAdmin
  /\ UNCHANGED <<now, row, state, result, audit, job>>

----------------------------------------------------------------------------
Tick ==
  /\ now < MaxTime
  /\ now' = now + 1
  /\ UNCHANGED <<row, state, result, agent, audit, job, admin>>

(* The server stops or crashes and is started again: nothing in the tables *)
(* is repaired at start-up.                                                *)
Restart ==
  /\ job' = [w \in Workers |-> IdleJob]
  /\ admin' = IdleAdmin
  /\ UNCHANGED <<now, dbVars>>

AgentStep ==
  \E a \in Agents :
    \/ \E v \in Versions : UpsertAgent(a, v)
    \/ \E t \in Tasks, at \in Times : ClaimNextTaskForAgent(t, a, at)

AnyResult ==
  \E w \in Workers, t \in Tasks, s \in Terminal : CheckResult(w, t, s)

WorkerStep ==
  \E w \in Workers :
    \/ \E t \in Tasks : CheckRunning(w, t)
    \/ MarkTaskRunning(w)
    \/ \E stamp \in Times : RecordTaskResult(w, stamp)
    \/ AuditReport(w)

AdminStep ==
  \/ \E t \in Tasks, a \in Agents, e \in Expiries : EnqueueTask(t, a, e)
  \/ AdminRead
  \/ \E a \in Agents, v \in Versions, c \in BOOLEAN : AdminUpgrade(a, v, c)
  \/ \E a \in Agents : AdminRollback(a)
  \/ \E t \in Tasks, p \in Tasks \cup {Nil}, e \in Expiries :
       ScheduleAgentUpgrade(t, p, e)
  \/ \E t \in Tasks, e \in Expiries : ScheduleAgentRollback(t, e)
  \/ ClearDesired

Next == AgentStep \/ AnyResult \/ WorkerStep \/ AdminStep \/ Tick \/ Restart

(* The store, whatever its agents report and in whatever order.            *)
Spec == Init /\ [][Next]_vars

(* The store as used by agents that report the result of a task only once  *)
(* their report that it runs was accepted.  Nothing in the server demands  *)
(* it; UpgradeFlow shows that agents, connections and workers keep it.     *)
Executed(t) == state[t] \in {"running"} \cup Terminal

ResultOfRunning ==
  \E w \in Workers, t \in Tasks, s \in Terminal :
    Executed(t) /\ CheckResult(w, t, s)

OrderlyNext ==
  AgentStep \/ ResultOfRunning \/ WorkerStep \/ AdminStep \/ Tick \/ Restart

OrderlySpec == Init /\ [][OrderlyNext]_vars

----------------------------------------------------------------------------
(* A result is accepted once: task_results and tasks agree on whether and  *)
(* how each task ended, however many workers handle reports about it and   *)
(* wherever between check and write they stand.                            *)
ResultRecordedOnce ==
  \A t \in Tasks :
    result[t] = IF state[t] \in Terminal THEN state[t] ELSE "none"

InOrder(t) ==
  (row[t] # Nil /\ row[t].after # Nil /\ state[t] # "queued") =>
    state[row[t].after] = "succeeded"

(* The claim's prerequisite clause, and the order in which agents report:  *)
(* a task chained to another one leaves the queue only after that one      *)
(* succeeded, and it stays succeeded.  (A property of OrderlySpec: the     *)
(* server takes the result of a task it never handed out.)                 *)
PrerequisiteRespected == \A t \in Tasks : InOrder(t)

FailedStates == {"failed", "expired"}

AgreesWithTasks(a) ==
  LET r == agent[a] IN
  /\ r.task = Nil => r.upgrade = "none"
  /\ r.task # Nil =>
       /\ row[r.task].agent = a
       /\ r.upgrade # "none"
       /\ r.upgrade = "queued" =>
            /\ state[r.task] # "succeeded"
            /\ \A t \in Chain(r.task) : state[t] \notin FailedStates
       /\ r.upgrade \in {"waiting_reconnect", "succeeded"} =>
            state[r.task] = "succeeded"
       /\ (r.upgrade = "failed" /\ r.error = "task_error") =>
            \E t \in Chain(r.task) : state[t] \in FailedStates
       /\ (r.upgrade = "failed" /\ r.error # "task_error") =>
            r.error # "none" /\ state[r.task] = "succeeded"

(* The upgrade columns of agents, which RecordTaskResult, UpsertAgent,     *)
(* ExpireWaitingReconnect and the scheduling requests write without        *)
(* knowing of each other, tell the truth about the last upgrade's tasks:   *)
(* it is queued only while its chain may still succeed, it waits for the   *)
(* agent or succeeded only after its task did, and it failed with the      *)
(* error of a task exactly when a task of its chain did.                   *)
UpgradeAgrees == \A a \in Agents : AgreesWithTasks(a)

(* After a confirmed upgrade or rollback, current_package_id is the        *)
(* package that was desired: the two writes of a rollback, and a           *)
(* registration between them, never leave an upgrade confirmed on one      *)
(* package and recorded on another.                                        *)
ConfirmedMatchesDesired ==
  \A a \in Agents :
    agent[a].upgrade = "succeeded" => agent[a].current = agent[a].desired

(* An audit event of a worker never claims what the tables deny, although  *)
(* it is written after the table and outside its transaction.              *)
AuditTruthful ==
  \A t \in Tasks :
    /\ <<t, "running">> \in audit => state[t] \in {"running"} \cup Terminal
    /\ \A s \in Terminal : <<t, s>> \in audit => result[t] = s

(* The verdict on an upgrade stands until another one is scheduled: a late *)
(* registration, a late result or another expiry never turns failure into  *)
(* success or the reverse -- unless the server was told the result of the  *)
(* upgrade's task before its prerequisite had succeeded.                   *)
VerdictStable ==
  [][\A a \in Agents :
       (agent[a].upgrade \in {"succeeded", "failed"} /\ InOrder(agent[a].task)') =>
         \/ agent'[a].upgrade = agent[a].upgrade
         \/ agent'[a].task # agent[a].task]_vars

(* The tables, with all their writers and agents that report in order,     *)
(* implement the lifecycle the protocol promises for tasks.  (A property   *)
(* of OrderlySpec too: of the writes, only MarkTaskRunning consults        *)
(* CanTransitionTaskState, so a result may end a queued or assigned task.) *)
Lifecycle ==
  INSTANCE TaskLifecycle WITH
    status <- state,
    after <- [t \in Tasks |-> IF row[t] = Nil THEN Nil ELSE row[t].after]

LifecycleSpec == Lifecycle!LifecycleSpec

----------------------------------------------------------------------------
(* docs/contracts.md:154: creating a rollback task clears the desired      *)
(* version and package, and the agent coming back online after it confirms *)
(* the rollback: whatever version it reports, it is expected.              *)
RollbackConfirmedByReconnect ==
  \A a \in Agents :
    agent[a].task # Nil /\ row[agent[a].task].kind = "rollback" =>
      agent[a].error # "unexpected_version"
=============================================================================
