----------------------------- MODULE UpgradeFlow -----------------------------
(***************************************************************************)
(* An upgrade or rollback from end to end: the tables of the server        *)
(* (TaskStore), the control connections of one agent identity, the agent   *)
(* processes that run under it, and the releases on their host.            *)
(*                                                                         *)
(* An agent that updates itself starts its successor before it reports the *)
(* result, so two processes with one agent_id are connected for a while.   *)
(* Any connection may break at any time, before or after the server has    *)
(* handled what was posted on it; a process may be killed, the server      *)
(* restarted.                                                              *)
(***************************************************************************)
EXTENDS Naturals, Sequences

CONSTANTS
  Self,              \* the agent_id
  Tasks, Workers, Versions, Nil, Blank, MaxTime, Expiries, ReconnectTimeout,
  Procs,             \* bound: agent processes alive at once
  Lost               \* a session whose client is gone

VARIABLES
  \* server: see TaskStore
  now, row, state, result, agent, audit, job, admin,
  target,     \* target[t]: version in the PackageUpdateInput of t
  work,       \* work[w]: the request worker w is handling
  bound,      \* the process whose session the registry has for Self
  \* host
  active,     \* agent/var/active-version
  previous,   \* agent/var/previous-version
  proc,       \* proc[p]: an agent process
  done        \* tasks whose update was completed on the host

Store == INSTANCE TaskStore WITH Agents <- {Self}

storeVars == <<now, row, state, result, agent, audit, job, admin>>
hostVars == <<active, previous, done>>
vars == <<storeVars, target, work, bound, hostVars, proc>>

ASSUME ProcsOK ==
  /\ Procs # {} /\ Versions # {}
  /\ Nil \notin Procs /\ Lost \notin Procs \cup {Nil}

ASSUME StoreOK == Store!ConstantsOK

Results == {"succeeded", "failed"}

Requests == [event : {"none", "register", "report"},
             from : Procs \cup {Nil},    \* Nil once its connection is lost
             version : Versions \cup {Nil},
             task : Tasks \cup {Nil},
             report : Results \cup {"running"}]

NoRequest == [event |-> "none", from |-> Nil, version |-> Nil,
              task |-> Nil, report |-> "running"]

(* Where AgentRuntime::Run stands. *)
Working == {"updating", "applied", "updated"}
Connected == {"registering", "serving", "starting", "reporting"} \cup Working

Processes ==
  [at : {"absent", "launching", "offline"} \cup Connected,
   version : Versions \cup {Nil},
   inbox : Seq(Tasks),          \* bytes of the command stream not yet drained
   batch : Seq(Tasks),          \* commands decoded, not yet handled
   task : Tasks \cup {Nil},     \* the command being handled
   report : Results,            \* its outcome
   linked : BOOLEAN,            \* the connection still stands
   stop : BOOLEAN]              \* stop_requested_

Absent == [at |-> "absent", version |-> Nil, inbox |-> <<>>, batch |-> <<>>,
           task |-> Nil, report |-> "failed", linked |-> FALSE, stop |-> FALSE]

TypeOK ==
  /\ Store!TypeOK
  /\ target \in [Tasks -> Versions \cup {Nil}]
  /\ work \in [Workers -> Requests]
  /\ bound \in Procs \cup {Nil, Lost}
  /\ active \in Versions
  /\ previous \in Versions \cup {Nil}
  /\ proc \in [Procs -> Processes]
  /\ done \subseteq Tasks

Init ==
  /\ Store!Init
  /\ target = [t \in Tasks |-> Nil]
  /\ work = [w \in Workers |-> NoRequest]
  /\ bound = Nil
  /\ active = CHOOSE v \in Versions : \A u \in Versions : v <= u
  /\ previous = Nil
  /\ proc = [p \in Procs |-> Absent]
  /\ done = {}

----------------------------------------------------------------------------
(* The end of a connection, as the process sees it. A command being        *)
(* executed is finished first, and its report then fails; everything else  *)
(* that was received or half done on the connection is forgotten.          *)
Disconnected(q) ==
  IF q.at \in Working THEN [q EXCEPT !.linked = FALSE]
  ELSE IF q.stop THEN Absent
  ELSE [Absent EXCEPT !.at = "offline", !.version = q.version]

(* ... and as the server does: workers go on with what was posted on it,   *)
(* and the registry keeps its session until the end is noticed.            *)
Orphaned(p) == [w \in Workers |-> IF work[w].from = p
                                  THEN [work[w] EXCEPT !.from = Nil]
                                  ELSE work[w]]

Unbound(p) == IF bound = p THEN Lost ELSE bound

LoseConnection(p) ==
  /\ proc[p].at \in Connected
  /\ proc[p].at \in Working => proc[p].linked
  /\ proc' = [proc EXCEPT ![p] = Disconnected(@)]
  /\ work' = Orphaned(p)
  /\ bound' = Unbound(p)
  /\ UNCHANGED <<storeVars, target, hostVars>>

Kill(p) ==
  /\ proc[p].at # "absent"
  /\ proc' = [proc EXCEPT ![p] = Absent]
  /\ work' = Orphaned(p)
  /\ bound' = Unbound(p)
  /\ UNCHANGED <<storeVars, target, hostVars>>

(* RunSessionOnStrand ends: CloseConnection. *)
NoticeLostSession ==
  /\ bound = Lost
  /\ bound' = Nil
  /\ UNCHANGED <<storeVars, target, work, hostVars, proc>>

----------------------------------------------------------------------------
(* The agent process. *)

(* The service manager, or an operator, starts the agent if none runs. *)
StartAgent(p) ==
  /\ \A q \in Procs : proc[q].at = "absent"
  /\ proc' = [proc EXCEPT ![p].at = "launching"]
  /\ UNCHANGED <<storeVars, target, work, bound, hostVars>>

(* RunLauncher: the stub starts the version that is active by then. *)
Launch(p) ==
  /\ proc[p].at = "launching"
  /\ proc' = [proc EXCEPT ![p].at = "offline", ![p].version = active]
  /\ UNCHANGED <<storeVars, target, work, bound, hostVars>>

(* PostEvents: the request reaches a worker. *)
Post(p, event, task, report) ==
  \E w \in Workers :
    /\ work[w].event = "none"
    /\ work' = [work EXCEPT ![w] =
                  [event |-> event, from |-> p, version |-> proc[p].version,
                   task |-> task, report |-> report]]

(* Connect and send_connection_bootstrap. *)
Register(p) ==
  /\ proc[p].at = "offline"
  /\ Post(p, "register", Nil, "running")
  /\ proc' = [proc EXCEPT ![p].at = "registering"]
  /\ UNCHANGED <<storeVars, target, bound, hostVars>>

Waiting(p) == proc[p].at = "serving" /\ proc[p].batch = <<>>

(* send_heartbeat, whose only effect is that the registry gives Self to    *)
(* the connection it came on.                                              *)
SendHeartbeat(p) ==
  /\ Waiting(p) /\ ~proc[p].stop
  /\ bound' = p
  /\ UNCHANGED <<storeVars, target, work, hostVars, proc>>

DrainCommandBytes(p) ==
  /\ Waiting(p) /\ ~proc[p].stop
  /\ proc[p].inbox # <<>>
  /\ proc' = [proc EXCEPT ![p].batch = proc[p].inbox, ![p].inbox = <<>>]
  /\ UNCHANGED <<storeVars, target, work, bound, hostVars>>

HandleCommandMutant(p) ==   \* does not wait for the answer to task_running
  /\ proc[p].at = "serving" /\ proc[p].batch # <<>>
  /\ proc' = [proc EXCEPT ![p].at = "updating",
                          ![p].task = Head(proc[p].batch),
                          ![p].batch = Tail(@)]
  /\ UNCHANGED <<storeVars, target, work, bound, hostVars>>

(* handle_command, up to the report that the task is running. The rest of  *)
(* a batch is handled although a stop was requested meanwhile.             *)
HandleCommand(p) ==
  /\ proc[p].at = "serving" /\ proc[p].batch # <<>>
  /\ Post(p, "report", Head(proc[p].batch), "running")
  /\ proc' = [proc EXCEPT ![p].at = "starting",
                          ![p].task = Head(proc[p].batch),
                          ![p].batch = Tail(@)]
  /\ UNCHANGED <<storeVars, target, bound, hostVars>>

Finished(q, outcome) == [q EXCEPT !.at = "updated", !.report = outcome]

(* What ExecutePackageUpdate reports without having changed the host: a    *)
(* failed download, a wrong digest, an installer that refuses.             *)
UpdateFails(p) ==
  /\ proc[p].at = "updating"
  /\ proc' = [proc EXCEPT ![p] = Finished(@, "failed")]
  /\ UNCHANGED <<storeVars, target, work, bound, hostVars>>

(* An installer package: nothing is restarted. *)
InstallerUpdated(p) ==
  /\ proc[p].at = "updating"
  /\ row[proc[p].task].kind = "installer"
  /\ done' = done \cup {proc[p].task}
  /\ proc' = [proc EXCEPT ![p] = Finished(@, "succeeded")]
  /\ UNCHANGED <<storeVars, target, work, bound, active, previous>>

(* The installer's part in an agent task, of which Installer has the       *)
(* detail: the two version files (the active release being intact), and    *)
(* that it may report a failure after either of the two writes.            *)
SwitchTo(p, v) ==
  /\ previous' = IF v # active THEN active ELSE previous
  /\ \/ active' = v /\ proc' = [proc EXCEPT ![p].at = "applied"]
     \/ active' \in {active, v} /\ proc' = [proc EXCEPT ![p] = Finished(@, "failed")]
  /\ UNCHANGED <<storeVars, target, work, bound, done>>

ApplyUpdate(p) ==
  /\ proc[p].at = "updating"
  /\ row[proc[p].task].kind = "agent"
  /\ SwitchTo(p, target[proc[p].task])

RunRollbackMutant(p) ==   \* does not need a recorded version
  /\ proc[p].at = "updating"
  /\ row[proc[p].task].kind = "rollback"
  /\ SwitchTo(p, previous)

RunRollback(p) ==
  /\ proc[p].at = "updating"
  /\ row[proc[p].task].kind = "rollback"
  /\ previous \notin {Nil, active}
  /\ SwitchTo(p, previous)

StartNewAgentMutant(p) ==   \* a successor that cannot be started is ignored
  /\ proc[p].at = "applied"
  /\ proc' = [proc EXCEPT ![p] = Finished(@, "succeeded")]
  /\ UNCHANGED <<storeVars, target, work, bound, hostVars>>

(* The successor is a detached process of the stub; starting it may fail.  *)
StartNewAgent(p) ==
  /\ proc[p].at = "applied"
  /\ \/ \E q \in Procs :
          /\ proc[q].at = "absent"
          /\ proc' = [proc EXCEPT ![p] = Finished(@, "succeeded"),
                                  ![q].at = "launching"]
          /\ done' = done \cup {proc[p].task}
     \/ /\ proc' = [proc EXCEPT ![p] = Finished(@, "failed")]
        /\ UNCHANGED done
  /\ UNCHANGED <<storeVars, target, work, bound, active, previous>>

(* handle_command posts the result, or finds the connection broken. *)
ReportResult(p) ==
  LET q == proc[p] IN
  /\ q.at = "updated"
  /\ \/ /\ q.linked
        /\ Post(p, "report", q.task, q.report)
        /\ proc' = [proc EXCEPT ![p].at = "reporting"]
     \/ /\ ~q.linked
        /\ proc' = [proc EXCEPT ![p] =
                      Disconnected([q EXCEPT !.at = "reporting"])]
        /\ UNCHANGED work
  /\ UNCHANGED <<storeVars, target, bound, hostVars>>

Exit(p) ==
  /\ Waiting(p) /\ proc[p].stop
  /\ proc' = [proc EXCEPT ![p] = Absent]
  /\ bound' = Unbound(p)
  /\ UNCHANGED <<storeVars, target, work, hostVars>>

----------------------------------------------------------------------------
(* The server. *)

RestartsAgent(t) == row[t].kind \in {"agent", "rollback"}

(* The process after its request was accepted. *)
Accepted(q) ==
  IF q.at = "registering" THEN [q EXCEPT !.at = "serving", !.linked = TRUE]
  ELSE IF q.at = "starting" THEN [q EXCEPT !.at = "updating"]
  ELSE [q EXCEPT !.at = "serving", !.task = Nil, !.report = "failed",
                 !.stop = @ \/ (q.report = "succeeded" /\ RestartsAgent(q.task))]

(* The response, if there is still a connection to send it on. The agent   *)
(* closes the connection when it is not 200.                               *)
Answer(w, ok) ==
  LET p == work[w].from IN
  /\ work' = [work EXCEPT ![w] = NoRequest]
  /\ proc' = IF p = Nil THEN proc
             ELSE [proc EXCEPT ![p] = IF ok THEN Accepted(@) ELSE Disconnected(@)]

(* HandleRegister, and the registry binding that follows. A connection     *)
(* that is gone may be bound, until its end is noticed.                    *)
HandleRegister(w) ==
  /\ work[w].event = "register"
  /\ Store!UpsertAgent(Self, work[w].version)
  /\ bound' \in IF work[w].from = Nil THEN {bound, Lost} ELSE {work[w].from}
  /\ Answer(w, TRUE)
  /\ UNCHANGED <<target, hostVars>>

(* The checks HandleTaskRunning and HandleTaskResult make first. *)
Admissible(t, report) ==
  IF report = "running" THEN state[t] = "assigned"
                        ELSE state[t] \notin Store!Terminal

CheckReport(w) ==
  LET t == work[w].task
      r == work[w].report
  IN
  /\ work[w].event = "report" /\ job[w].stage = "idle"
  /\ \/ /\ Admissible(t, r)
        /\ job' = [job EXCEPT ![w] =
                     [stage |-> "checked", task |-> t, report |-> r]]
        /\ UNCHANGED <<work, proc, bound>>
     \/ /\ ~Admissible(t, r)
        /\ Answer(w, FALSE)
        /\ bound' = IF work[w].from = Nil THEN bound ELSE Unbound(work[w].from)
        /\ UNCHANGED job
  /\ UNCHANGED <<now, row, state, result, agent, audit, admin, target, hostVars>>

WriteReport(w) ==
  /\ \/ Store!MarkTaskRunning(w)
     \/ Store!RecordTaskResult(w, now)
  /\ IF job'[w].stage = "stored"
     THEN UNCHANGED <<work, proc, bound>>
     ELSE /\ Answer(w, FALSE)
          /\ bound' = IF work[w].from = Nil THEN bound ELSE Unbound(work[w].from)
  /\ UNCHANGED <<target, hostVars>>

AuditReport(w) ==
  /\ Store!AuditReport(w)
  /\ Answer(w, TRUE)
  /\ UNCHANGED <<target, bound, hostVars>>

(* A claim for the session that is bound, and the command sent on it. The  *)
(* claim may have been under way when another connection was bound: its    *)
(* answer then goes to the connection that made it.                        *)
Claimants ==
  {bound} \cup {p \in Procs : proc[p].at \in Connected \ {"registering"}}

HandOutTask(t) ==
  /\ bound # Nil
  /\ Store!ClaimNextTaskForAgent(t, Self, now)
  /\ \E p \in Claimants :
       proc' = IF p = Lost THEN proc
               ELSE [proc EXCEPT ![p].inbox = Append(@, t)]
  /\ UNCHANGED <<target, work, bound, hostVars>>

Unrelated == UNCHANGED <<target, work, bound, hostVars, proc>>

(* The administration requests, which set the package of the tasks. *)
ScheduleUpgrade(t, p, expires) ==
  /\ Store!ScheduleAgentUpgrade(t, p, expires)
  /\ target' = [target EXCEPT ![t] = admin.version]
  /\ UNCHANGED <<work, bound, hostVars, proc>>

AdminStep ==
  \/ Store!AdminRead /\ Unrelated
  \/ \E v \in Versions, c \in BOOLEAN : Store!AdminUpgrade(Self, v, c) /\ Unrelated
  \/ Store!AdminRollback(Self) /\ Unrelated
  \/ \E t \in Tasks, p \in Tasks \cup {Nil}, e \in Expiries :
       ScheduleUpgrade(t, p, e)
  \/ \E t \in Tasks, e \in Expiries :
       Store!ScheduleAgentRollback(t, e) /\ Unrelated
  \/ Store!ClearDesired /\ Unrelated

RestartServer ==
  /\ Store!Restart
  /\ work' = [w \in Workers |-> NoRequest]
  /\ bound' = Nil
  /\ proc' = [p \in Procs |-> IF proc[p].at \in Connected
                              THEN Disconnected(proc[p]) ELSE proc[p]]
  /\ UNCHANGED <<target, hostVars>>

----------------------------------------------------------------------------
ProcessStep(p) ==
  \/ StartAgent(p) \/ Launch(p) \/ Register(p) \/ SendHeartbeat(p)
  \/ DrainCommandBytes(p) \/ HandleCommand(p)
  \/ UpdateFails(p) \/ InstallerUpdated(p) \/ ApplyUpdate(p) \/ RunRollback(p)
  \/ StartNewAgent(p) \/ ReportResult(p) \/ Exit(p)
  \/ LoseConnection(p) \/ Kill(p)

WorkerStep(w) ==
  HandleRegister(w) \/ CheckReport(w) \/ WriteReport(w) \/ AuditReport(w)

Next ==
  \/ \E p \in Procs : ProcessStep(p)
  \/ \E w \in Workers : WorkerStep(w)
  \/ \E t \in Tasks : HandOutTask(t)
  \/ AdminStep
  \/ NoticeLostSession
  \/ RestartServer
  \/ Store!Tick /\ Unrelated

Spec == Init /\ [][Next]_vars

----------------------------------------------------------------------------
(* Agents, connections and workers report in order: a result never         *)
(* overtakes the running report of its task, whoever lost the connection   *)
(* in between.  The server does not look.                                  *)
StoreSpec == Store!OrderlySpec

(* The tables as TaskLifecycle has them.                                   *)
Lifecycle ==
  INSTANCE TaskLifecycle WITH
    status <- state,
    after <- [t \in Tasks |-> IF row[t] = Nil THEN Nil ELSE row[t].after]

(* Server and agents together keep tasks to the transitions of             *)
(* CanTransitionTaskState, which none of these writes consults.            *)
LifecycleSpec == Lifecycle!LifecycleSpec

(* A chained task leaves the queue only once its prerequisite succeeded:   *)
(* the claim sees to it that it is not handed out, the agents that no      *)
(* result comes of what was not handed out.                                *)
PrerequisiteRespected == Store!PrerequisiteRespected

(* A process works on a task only while the server has it as running, and  *)
(* on none that another process works on: losing answers, processes and    *)
(* the server itself never makes the host execute a task twice, or one     *)
(* that the server believes not started or already ended.                  *)
ExecutedOnce ==
  \A p \in Procs :
    proc[p].at \in Working =>
      /\ state[proc[p].task] = "running"
      /\ proc[p].task \notin done \/ proc[p].at = "updated"
      /\ \A q \in Procs \ {p} :
           proc[q].at \in Connected => proc[q].task # proc[p].task

(* A task the server holds for succeeded was carried out: its package is   *)
(* installed, and when it replaces the agent the successor was started.    *)
SuccessIsTrue ==
  \A t \in Tasks : result[t] = "succeeded" => t \in done

(* docs/adr/0011:170: the old agent exits or ends its control stream once  *)
(* the new one is started; two never serve under one identity.             *)
OneAgentServes ==
  \A p, q \in Procs :
    (Waiting(p) /\ Waiting(q) /\ ~proc[p].stop /\ ~proc[q].stop) => p = q

(* docs/adr/0011:171: once the new agent is online and has reported its    *)
(* version, the server compares it with what is desired; so an upgrade     *)
(* never fails with waiting_reconnect_timeout (docs/contracts.md:157)      *)
(* while the last registration on record reports the version asked for.    *)
TimedOutMeansAbsent ==
  [][(/\ agent[Self].upgrade = "waiting_reconnect"
      /\ agent'[Self].error = "reconnect_timeout") =>
        agent[Self].version # agent[Self].desired]_vars
=============================================================================
