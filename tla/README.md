# A formal model of z-fleet

TLA+ modules that model the core of z-fleet, the TLC runs that check them on
small instances, and the theorems TLAPS proves about them for every instance.
Paths are relative to the repository; `database.cpp`, `control_*.cpp` and
`admin_http_server.cpp` are under `apps/server/src`, `runtime.cpp` and
`package_updater.cpp` under `apps/agent/src`.

## 1. The system

z-fleet manages a fleet of machines. An **agent** on each machine keeps one
HTTP/2 control connection to the **server**; an operator uses the server's
administration HTTP API. The server queues **tasks** (inventory, package
update, rollback); the agent receives them on a long-lived command stream and
posts `task_running` and `task_result` events. An agent upgrade replaces the
running agent: the **installer** stages and activates a release, the old agent
starts the new one and stops, and the registration of the new one, with its new
version, confirms the upgrade.

| component | state it keeps | operations | hard behaviour | what makes it correct |
|---|---|---|---|---|
| task tables (`database.cpp`) | `tasks`, `task_results`, upgrade columns of `agents` | claim, mark running, record result, schedule upgrade / rollback, expire a reconnection, upsert an agent | several writers that know nothing of each other; check and write not atomic; two-write rollback | one result per task; lifecycle of tasks, as long as results are of running tasks; upgrade columns agree with tasks; verdicts stand |
| write actor (`database.cpp`) | queue of writes | submit (waiting or with a completion), run, stop | order of writes against order of events; stop while writers wait | each write answered once, in order |
| control sessions (`control_server.cpp`) | `StreamState`, pending writes, flags of the command stream, `closed_` | open command stream, claim, send task, post events, close | completions after close; merged notifications; a claim in flight | no lost wake-up; one claim in flight; a task goes to one place |
| connection registry (`control_connection_registry.cpp`) | two maps, connection and agent | open, bind, find, close | an agent with two connections; late binds | the maps are inverse to each other |
| worker pool, dispatcher, control service | threads and the event each handles | handle running / result / register / heartbeat | workers interleave between a read and a write | audit events are true; no result twice |
| administration API (`admin_http_server.cpp`) | none of its own | upgrade, rollback, queries, packages, tokens | checks made before the write | the upgrade asked for is the one scheduled |
| registration tokens (`database.cpp`) | uses left, revoked, expiry | create, consume, revoke | concurrent consumption | never more uses than allowed |
| packages (`database.cpp`, `package_repository.cpp`) | packages, publications, files | upload, validate, publish, retire | file and row not atomic; the default moves | one default, never a retired one |
| agent runtime, client, updater | state file, backoff, connection | register, heartbeat, execute, hand over | loss of connection, retry, hand-over to a new process | no task executed twice; exactly one agent at the end |
| installer, launcher | `active-version`, `previous-version`, release directories | stage, activate, roll back, resolve | a crash between two file operations, writes that never reach the disk | a version a version file names is a complete release, and the version that worked stays named |
| acceptor, admission, `Stop` (`control_server.cpp`) | list of sessions, stop flags, threads | accept, refuse, reap, stop | Stop against accepts, reads, workers and writes under way | Stop ends, nothing accepted is lost, slots come free |
| management sessions (`admin_http_server.cpp`) | staging file, timer, answer | header, body, commit, respond, close | a body that goes on after the answer; a failure between rename and rows | an answer agrees with rows and files |
| packager, archives (`packager.cpp`, `archive.cpp`) | the archive that is written | collect, copy, create; read, extract | a payload rebuilt meanwhile; an archive cut short | only whole packages are accepted |
| frame codec | buffer | push bytes | arbitrary chunks, handed in by several threads | an answer of 200 means that every event was handled |
| protocol codecs, web UI, logging, configuration | - | formats and I/O | - | not modelled |

How they interact: a session's strand hands event batches to the worker pool
and claims to the write actor, and both answer by a posted completion. Workers
call the control service, which waits for writes, and then bind the connection
in the registry. A write that may make a task claimable notifies every session.
Administration requests run on their own thread and use the database and the
package repository only; machines download packages from it.

`PROJECT.json` lists the hazards of this code, at their lines, with the
properties that watch them.

## 2. Modules

### TaskLifecycle
What the server promises about tasks: `status` of every task and the task it is
chained to. `CanTransition` is the switch of `CanTransitionTaskState`. The
server never calls that function on the paths that write the tables, and its
SQL alone does not obey it: `HandleTaskResult` and `RecordTaskResult` take a
result of any task that is not finished, a queued or assigned one too
(`control_service.cpp:181`, `database.cpp:1548-1551`), and
`apps/server/tests/server_upgrade_lifecycle_test.cpp` relies on it. What the
refinement shows is that the tables obey it under agents that report the result
of a task only after their running report of it was accepted, and that the
agents of this repository are such.

### TaskStore (and MCTaskStore)
The tables and everything that writes them. One action per write, because the
write actor serialises writes and each is one statement or transaction; and one
action per step of a caller where the code is not atomic:

| variable | code |
|---|---|
| `row`, `state` | the columns of `tasks`; `state[t] = "none"` before the insert |
| `result` | `task_results.status` |
| `agent[a]` | `agent_version`, `current_package_id`, `desired_*`, `upgrade_state`, `last_upgrade_task_id`, `last_upgrade_error`, `last_upgrade_at` |
| `audit` | task events of `audit_events`, without `task_queued` |
| `job[w]` | the event worker `w` handles: checked (read done), stored (write done) |
| `admin` | the administration request between its check and its write(s) |

| action | code |
|---|---|
| `ClaimNextTaskForAgent` | `AsyncClaimNextTaskForAgent`; the time it compares may be older than the write |
| `CheckRunning`, `MarkTaskRunning`, `AuditReport` | `HandleTaskRunning`: `FindTaskById`, the guarded update, the audit event |
| `CheckResult`, `RecordTaskResult`, `AuditReport` | `HandleTaskResult` likewise |
| `UpsertAgent` | the `case` expressions of the upsert |
| `AdminRead`, `AdminUpgrade`, `AdminRollback` | a request up to its write; each begins with `ExpireWaitingReconnect` |
| `ScheduleAgentUpgrade` | one transaction: agents row, prerequisite, task |
| `ScheduleAgentRollback`, `ClearDesired` | the two writes of a rollback |
| `EnqueueTask` | a task outside any upgrade (the API of the store; no request uses it today) |
| `Restart` | stop or crash at any point, and start: nothing is repaired |

Abstractions: one version names one package; requests are taken one at a time up
to their write (any number of workers runs beside them); error codes of tasks
are one value; times are counted in units of the reconnect time-out. Reports
come in any order, of any task, and any report may be presented twice, to two
workers, with two outcomes. `Spec` is the store under all of them. `OrderlySpec`
is the store under agents that report a result only after their running report
was accepted, as `runtime.cpp:202-249` does: the refinement of TaskLifecycle and
the prerequisite of a chained task need that, and UpgradeFlow shows it.
`VerdictStable` speaks of a task that started in its turn.

### ControlSession (and MCControlSession)
The connections of one agent. Registry: `entries`, `bound`, `current`. Session:
`session`, `stream` (the four flags of `StreamState` that decide on claims),
`event` (where the batch posted on it stands), `output` (`pending_writes`).
Write actor: `writes`, answers in `replies`. `client` is how far the agent got.
The actions are the handlers of the session by their names, `Post`,
`Disconnect` and `Accept` of the agent, `HandleRegister` and
`RecordAcceptedEvent` of a worker, and the writes of the actor.

Abstractions: a single agent (sessions of different agents meet in the write
actor only, and TaskStore has several); handlers posted to a strand may run in
any order, a superset of its order; HTTP/2 settings and flow control are left
out; a request is one batch; an agent posts its next event after the answer to
the last one was written, as its client blocks on it.

### Installer (and MCInstaller)
One install root with its three components. `release`, `staging`: the
directories `releases/<v>` and `.staging/<v>`; `active`, `previous`: the version
files; `stub`: the installer release each launcher stub was copied from;
`run`: the installer process, or what its last
run reported. A step is one change of the file system. What is in a version file
or a stub is a version, or `Torn` for a file without its content: `WriteTextFile`
looks at its stream before the buffer is flushed, so a flush that fails (a full
disk) is not noticed, the empty file is renamed into place and the run goes on;
`run.lost` remembers it. Nothing is synced, so that a loss of power may empty any
of these files, though the renames stay in order.

| action | code |
|---|---|
| `ApplyPackage`, `RollbackComponent` | the reads of a command up to its first change; every early return of a rollback |
| `ResolveInstallerVersionForPackage` | before everything in an apply, after the switch in a rollback |
| `CheckRelease` | the branch on an existing release directory |
| `BeginStaging`, `StageRelease`, `InstallRelease` | `StageRelease` and the rename; the catch block that removes the staging directory is `Abort` |
| `WritePreviousVersion`, `WriteActiveVersion` | the two calls of `WriteVersionFile`, with the rename that fails, the file removed and the rename tried again, and the flush that fails unnoticed |
| `EnsureLauncherStub` | per stub: the copy begins, the copy ends |
| `Crash`, `PowerLoss`, `Damage` | the process ends at any point; so does the host, and files lose their content; a file of a release is altered |

`LaunchTargets` is `ResolveLaunchTarget` of the launcher, which changes nothing.
Abstractions: versions are numbers in their order; a package is bad when some
file of it does not verify, found during staging; a release is healthy or
damaged as a whole (for an installer this includes the launcher asset); one
installer runs on a root at a time, as nothing in the code or the documents
provides for two.

### UpgradeFlow (and MCUpgradeFlow)
An upgrade or rollback from end to end, for one agent identity. It takes
TaskStore as `Store == INSTANCE TaskStore WITH Agents <- {Self}` for the
server's tables and gives it the environment TaskStore leaves open: agent
processes, connections, requests in the hands of workers, and the host.

| variable | code |
|---|---|
| `proc[p]` | a process of the agent: where `AgentRuntime::Run` stands, bytes of the command stream (`inbox`), commands decoded (`batch`), the command being handled, `stop_requested_` |
| `work[w]` | the request a worker of the pool handles, and the process that waits for its answer |
| `bound` | the registry's connection of the agent, `Lost` until the end of a dead one is noticed |
| `active`, `previous`, `done` | the version files of the agent, and which tasks were carried out |
| `target` | the version in a task's input |

| action | code |
|---|---|
| `StartAgent`, `Launch` | a process is started and the stub resolves the active version, which may have changed meanwhile |
| `Register`, `HandleRegister` | `Connect`, `send_connection_bootstrap`, and the server's part; `UpsertAgent` is TaskStore's |
| `HandOutTask`, `DrainCommandBytes` | a claim sent on a session, perhaps one that another has replaced; the agent takes what has arrived |
| `HandleCommand`, `CheckReport`, `WriteReport`, `AuditReport` | `handle_command` up to its first request, and the two handlers of the service with TaskStore's writes |
| `UpdateFails`, `InstallerUpdated`, `ApplyUpdate`, `RunRollback`, `StartNewAgent` | the outcomes of `ExecutePackageUpdate` |
| `ReportResult`, `Answer`, `Exit` | the second request, its answer, and the end of the loop |
| `LoseConnection`, `Kill`, `NoticeLostSession`, `RestartServer` | failures: of a connection at any time, with requests on it handled or not; of a process; of the server |

Abstractions: the installer is the switch of two files with a failure after
either (Installer has the rest) and ends with the agent that runs it; its writes
reach the disk and releases are intact; a stop by a signal is one of the ends `Kill` covers, which may fall
anywhere; no inventory tasks; the agent's clock is the server's; registration
tokens, and registrations refused for them, are left out; a service manager or
an operator starts an agent only if none runs; a request is handled as a whole, so
that 200 means it was handled (`chunk_order` shows the exception, a report that is
cut in two). The rest of a batch is handled
although a stop was requested, as in the code.

### FrameCodec
`EncodeFrame` and `FrameDecoder::Push` over bytes, four of them for the length,
with the limit `max_frame_bytes_` as the constant `MaxFrameBytes`. `Drain` is the
loop of `Push`, as a recursive function of the buffer; what it took before it
throws is lost.

### WorkQueue
What a queue of work with its threads promises, and the abstract specification
of two parts of the server that are built alike: the worker pool and the write
actor. Work handed in before the stop is finished before the last thread ends;
work handed in later is refused; nothing runs twice.

### ControlServer (and MCControlServer)
The control server around its sessions, from the accept to the end of `Stop`.

| variable | code |
|---|---|
| `acceptor`, `sessions`, `phase` | `acceptor_`, `sessions_`, and how far a connection got |
| `received`, `pending`, `hasError`, `answer` | the stream of a posted batch in `StreamState` |
| `reading`, `marking`, `done` | `read_in_flight_`, `offline_mark_in_flight_` and the shared flag |
| `inbox` | what is posted to the strand, in order |
| `decoder`, `pushed`, `handled` | the session's `FrameDecoder`, the order in which pieces reached it, the events accepted |
| `tasks`, `worker`, `ran`, `poolRefused` | `ControlWorkerPool` |
| `writes`, `writing`, `wrote` | the queue of the write actor and what each write's future holds |
| `token`, `agents` | the row of one registration token; the status of agents |
| `stopper` | the thread in `Stop` |

| action | code |
|---|---|
| `CompleteAccept`, `Accept` | the completion of `async_accept`, after which closing the acceptor cannot call it back; its handler, with `ReapFinishedSessions` and the limit |
| `OnData`, `OnPieceDone`, `OnEof`, `OnMarked`, `OnAborted`, `OnStop` | handlers of the session's strand |
| `WorkerTake`, `WorkerDecode`, `WorkerEvent`, `WorkerConsumed`, `WorkerUpserted`, `WorkerFinish`, `WorkerEnd` | `RunWorker`, `PushEventBytes` under `dispatcher_mutex`, `HandleRegister` with its two waits for the write actor, the posted completion |
| `ActorTake`, `ActorRun`, `ActorEnd` | `RunWriteActor`; a write may fail with an exception, which refuses the event that waits for it |
| `StopBegin`, `CloseAcceptor`, `StopSessions`, `StopPool`, `StopDatabase` | `ControlServer::Stop`, then `ServerDatabase::Stop`; both waits of two seconds may end early |

Abstractions: each connection posts one batch, a registration with the token and
a heartbeat, cut into one or two pieces (an agent that registers without a token
consumes none and is left out); audit events and asset snapshots of
`HandleRegister`, and the platform and architecture of a token, are left out;
expiry has the effect of `Revoke`; the reaping of sessions and the admission of
the next are one handler, and the start of a session is part of it;
`io_context_.stop()` and the stop of the pool are one step; completions posted
to a stopped context are dropped; writes to a socket end with the handler that
starts them. `Stop` is called by destructors and tests (`main.cpp` destroys the
control server before the service and the database).

### Archive
The ZIP archives of `libs/package` as sequences of blocks: local files, the
directory, the end record. `Blocks` is `CreateArchive`, `Written` what is on disk
before it is done; the readers are `LocateEndOfCentralDirectory` (the record must
reach the end of the file), `ParseCentralDirectory`, `ReadArchiveFile` and
`ExtractArchive`. The reader compares the checksum of a local header with the
directory's and does not compute it of the data, so that it is the SHA-256 of the
manifest that finds a changed payload.

### Packages (and MCPackages)
The way of a package from the packager to a machine.

| variable | code |
|---|---|
| `dist`, `packs` | the archive at its final name, complete or not |
| `upload`, `response`, `thread` | a `ManagementHttpSession` with its file, its answer, and the commit the thread is in |
| `staged`, `stored`, `damaged` | `.staging`, the repository, and what was damaged in it |
| `rows`, `pubs` | `agent_packages`, `package_publications` |
| `offers`, `installed` | packages a machine was offered, and what it unpacked |

| action | code |
|---|---|
| `Pack`, `CreateArchive` | `Pack` up to the archive, with files that changed between their hash and their copy; the archive complete |
| `OpenStagingFile`, `OnBodyChunk`, `Refuse`, `Close` | a session: header, last chunk, an answer before the body is complete, end |
| `Commit`, `CommitUploaded`, `CommitValidated` | `CommitAgentPackageUpload`: rename, validation with the first row, second row |
| `Validate`, `Publish`, `Retire` | the three requests with their transactions |
| `InstallOptions`, `ScheduleUpgrade`, `Download` | what a machine is offered, and the download with its SHA-256 |
| `Crash`, `Damage` | the server is killed; a file of the repository is lost or changed |

Abstractions: the handlers run on one thread, as `AdminHttpServerOptions` says
and `main.cpp` leaves it (with several threads a commit and a retirement could
interleave, which the proof's `CommitAlone` excludes); the status 408 stands for
413 and 500 too; a client reads the archive when it starts to upload; uploads
are numbered as they start; closing the staging file is not checked by the code,
so the stored file may be torn; platform, architecture and build type are the
same for all; a name that is not the package's is `Nil`; a failed write of the
database is a choice; `Metadata` and `Unpacked` tabulate the readers over all the
files there may be.

### Proof modules
One for each module with theorems: `TaskStore_proofs`, `ControlSession_proofs`,
`Installer_proofs`, `WorkQueue_proofs`, `Packages_proofs`, `UpgradeFlow_proofs`
and `ControlServer_proofs`, which also has the theorems about FrameCodec.
`Queues` has the lemmas they share: what appending and taking the head do to a
sequence seen as a queue (`In`, `Once`, `CountIn`), and that a non-empty set of
numbers has a least one (`LeastNumber`), which stands in for induction.
`UpgradeFlow_proofs` and `ControlServer_proofs` take the theorems of TaskStore
and of WorkQueue by INSTANCE, under the substitutions of the refinements.

## 3. Runs

| run | instance | what it shows |
|---|---|---|
| `task_races` | 1 agent, 2 tasks, 2 workers, 2 versions, clock 0..1, reports in any order | `ResultRecordedOnce`, `AuditTruthful`, `UpgradeAgrees`, `ConfirmedMatchesDesired`, `VerdictStable` |
| `control_session` | 2 connections, 2 tasks | `RegistryConsistent`, `OneClaimInFlight`, `TaskInOnePlace`, `WakeupPending` |
| `task_delivery` | 1 connection, 2 tasks | `QueuedTaskClaimed`, liveness |
| `install_root` | 2 installer and 2 agent packages, one fault | `VersionFilesNameReleases`, `SuccessIsComplete`, `WorkingVersionKept`, `ReleasesAreKept`, `MinInstallerRespected` |
| `upgrade_flow` | 2 processes, 2 tasks, 2 workers, 2 versions | `ExecutedOnce`, `SuccessIsTrue`, `PrerequisiteRespected`; `StoreSpec`: the whole system implements `OrderlySpec` of TaskStore, so what is checked and proved of TaskStore holds of it; `LifecycleSpec`: and so the refinement of TaskLifecycle |
| `control_server` | 2 connections, 2 agents, 1 slot, 1 use of the token, 2 workers | `RegistrationPaid`, `AnswerTruthful`, `CleanStop`; `PoolSpec` and `ActorSpec`, the refinements of WorkQueue; `StopEnds` and `SlotsReleased`, liveness |
| `packages` | 2 uploads, 2 archives of 4 kinds, 1 crash, 1 damage | `RowsAreWhole`, `UploadAnswered`, `FilesKept`, `InstalledWhole`, `DefaultsSound`, `RetiredStaysRetired`; `StagingCleared`, liveness |
| `early_registration`, `superseded_agent` | 2 processes, 1 task | expected violations, see section 5 |
| `rollback_two_writes`, `reconnect_status`, `chunk_order` | as above | expected violations, see section 5 |

Every module with variables has a type invariant, `TypeOK`, which its run checks.

Why these bounds. Two workers on one task are every race between a check and a
write, and a second task is one to interfere with: a prerequisite and its
upgrade, or an upgrade and a rollback or another upgrade that overtakes it; two
versions are an expected and an unexpected one; two clock values are before and
after a time-out (the time-out is one unit). The clock moves while one of the
workers is idle (`RacesOrTime`). Two connections are the old and the new one, and
with two tasks one can be on its way while the other is queued. Tasks and
workers are symmetric; symmetry is not used with liveness.

In `control_server` one slot makes the second connection wait for the first to be
reaped, and one use of the token makes two agents race for it. The batch is ten
bytes, two frames of four bytes of length and one of payload, under the default
limit of 1048576; one agent's comes in two pieces, cut after seven bytes, within
the length of the second frame, so that two workers can be at one batch and the
decoder keeps a part. The proofs are for any cut into one or two pieces and any
limit. `PiecesAtStop` bounds how much of the batches
there is when `Stop` begins; everything under way then goes on. `MaxUses`,
`MaxConnections`, `IoThreads` are options of the server.

In `packages` two uploads are a package and one that races or replaces it in its
slot, and an agent package with its installer. The targets are an agent that
needs installer 2, two installers, and a server package, which is refused. Two
contents are the payload as hashed and another. `Cuts` are an empty archive and
one without its directory; `MaxPacks`, `MaxCrashes`, `MaxDamages` bound what may
happen.

In `install_root` two versions of a component are what a switch and a rollback are about; the
second agent package needs the second installer, so that an apply can be refused
and an installer rolled back under an agent; the stubs of the third component
are refreshed with the others although it has no package. `MaxFaults` bounds
the releases damaged on disk, the flushes that are lost and the losses of power
together, and one reaches every check of a release and leaves every file without
its content; the proofs are for any number. Kills and exceptions are not bounded.

In `upgrade_flow` two processes are the old agent and its successor, and two
tasks a prerequisite and its upgrade, or an upgrade and a rollback, in one batch
or one after the other. Two constraints bound it: requests are handled two at a
time until every task was created, and one at a time from then on
(`WorkersToSpare`); the clock moves, and upgrades time out, only while a single
task exists (`TimeForOne`). TaskStore's own runs have no such bounds.
Losses, kills and restarts are not bounded.

TaskStore, Installer and UpgradeFlow are checked for deadlock (a restart,
or another command, is always possible).
ControlSession, ControlServer and Packages are not: they end when every
connection was used, Stop has returned, or every upload was made.

Fairness. `task_delivery`: weak fairness of the worker threads, of each
handler posted to the strand, of the write actor, of the notification that
follows a write, and of writes to a socket the agent reads from. Asio runs what
is posted, the pool and the actor take from their queues while they are not
empty. Nothing is assumed of the agent: it may stop anywhere, and the property
speaks of an agent that stays. With two connections the same question is the
safety property `WakeupPending`: some step that will look for a task is due.

`control_server`: weak fairness of the handlers that are due, of some worker, of
the write actor and of the thread in `Stop`. Agents need not go on and `Stop`
need not be called. One condition for all workers is enough and no more than the
scheduler gives: a worker that waits for a lock or a write is not enabled.
`packages`: weak fairness of the steps of each session. The thread runs what is
posted, and the timer armed with the header, which no chunk arms again, ends a
body that does not end.

## 4. What is proved

For any number of agents, tasks, workers, versions and time values, from
`ConstantsOK` alone (versions and times are numbers; `Nil` and `Blank` are no
identifiers or rows):

* `TypeCorrect`: types, by induction over all actions.
* `ResultsRecordedOnce` and `AuditIsTruthful`, from the inductive invariant
  `TaskInv`. They are not inductive: a worker that stands between check and write
  must find a task at least as far as it saw it, and one between write and audit
  must still be right (`JobsOK`); a chained task must have its prerequisite in the
  tables (`RowsOK`).
* `PrerequisitesRespected` and `ImplementsLifecycle`, of `OrderlySpec`: every step
  of the tables is a step of TaskLifecycle or leaves it alone.
  `LifecycleCreate` covers the three inserts, `LifecycleAdvance` the three changes
  of state.
* `UpgradesAgree`, `ConfirmedIsDesired`, `VerdictsStand`, from `UpgradeInv`: in
  addition the last upgrade task is one that replaces the agent (no other
  upgrade is chained to it), and between the two writes of a rollback the agent
  desires the empty version, which no registration confirms (`BetweenWrites`).
  A verdict can be turned round only by the result of an upgrade's task that comes
  before its prerequisite succeeded; `VerdictStable` leaves that case out, and
  UpgradeFlow shows that it does not arise.

For any number of connections and tasks of one agent:

* `RegistryIsConsistent`, by itself; then `TypesHold`, `OneClaimHolds`,
  `TaskInOnePlaceHolds` and `WakeupHolds`, from one invariant `Inv`. A claim is on
  its way to the write actor or back exactly while its flag is set (`ClaimOK`);
  a task claimed is with the connection it was claimed for, in one place of the
  way from the answer to the agent (`TaskAt`), and not lost while both ends stay
  (`TaskKept`). The wake-up needs two parts that the property does not show: a
  stream with nothing under way remembers that it has to look again
  (`Remembers`), and one that remembers has an event or a write under way whose
  end makes it look (`Looks`).

For any versions, packages, kills and number of faults, and the three components:

* `VersionFilesAreSafe` (with the types), `SuccessIsTruthful`,
  `WorkingVersionIsKept` and `MinInstallerIsRespected`, from the invariant
  `RunInv`. The properties speak of files, and say nothing of a run half done:
  the invariant adds what the run may rely on at each step, that what it read
  is still so (`SeenIsCurrent`), that its target is installed
  (`TargetInstalled`), that the old version is recorded before the second write
  unless that write was lost (`OldRecorded`), that the installer it resolved is still active
  (`InstallerResolved`) and which stubs are to do (`StubsAccounted`).
* `NoReleaseReplaced`, from `NothingToReplace`: between the check and the rename
  nothing appears at the place of the release.

For any threads and jobs:

* `RunOnceHolds` and `NothingLeftHolds` of WorkQueue, from an invariant that
  says a job is in one place only and that a thread ends with the queue empty.

For any sessions, threads of the pool, agents, uses of the token, frame limit
and cuts of a batch into one or two pieces (`ServerConstants`, `FrameLimit`):

* `RegistrationPaidHolds`, from `Basics` (types, and pieces numbered as they were
  received) and `Registered`. The dispatcher's mutex admits one worker of a
  connection (`Mutex`), so that a worker that waits for a write waits for one
  that is queued, being written, or answered (`ConsumeOK`, `UpsertOK`), and the
  uses counted are those granted (`Paid`).
  A worker that comes to a registration has not asked for a use before
  (`AsksOnce`), since each piece is decoded once and a batch has one registration:
  so `Registered`, `Answers`, `Decoding` and `Stops` below hold together or not at
  all, and `ServerInvariant` proves them at once.
* `CleanStopHolds`, from `Stops`: a session is listed until it is done or `Stop`
  waits for it, and is not done while its offline mark is on its way. When `Stop`
  takes over the list in time the acceptor is closed, so that no more can come
  than the one whose accept had completed (`LateOK`, from `OneAccepted`).
* `AnswerWaitsHolds`, from `Answers`: `pending_event_chunks` never counts fewer
  than the pieces in flight and the results that wait for the strand.
* `AnswerTruthfulHolds`. What a worker decodes is what the batch has at that
  place, wherever it was cut: `BufferOK` says what the decoder keeps between two
  pieces, `PushedOK` that each is decoded once, `RegisterOK` that a
  registration's writes are submitted once, and `MetOK` that, as long as nothing
  failed, each event decoded is handled or waits with a worker. The data behind
  it are two theorems about FrameCodec: `CutsDoNotMatter` (two pushes yield what
  one push of all the bytes yields, failures included) and `FrameComesBack` (an
  encoded frame is decoded as it was).
* `TypesHold`, with the count of pieces and the buffers.
* `PoolIsImplemented` and `ActorIsImplemented`: every step of the server is a step
  of the worker pool's queue or none, and of the write actor's or none. For the
  pool this rests on a piece being handed in once; for the actor, on a write
  being submitted once and before the actor stops. So no write is ever refused.
* `QueuesHold`: with them WorkQueue's theorems are theorems of both queues.

For any uploads, targets, contents and channels, and any cut of a torn archive:

* `DefaultsSoundHolds` and `RetiredStaysRetiredHolds`, from `Inv`: the tables are
  tables of records, no publication of a retired package is a default, a slot
  has one default, and (`CommitAlone`) while an upload is being committed its
  row is as the upload left it, since the thread is with it. Without the last
  part a commit could write over the row of a package retired meanwhile.
* `RowsAreWholeHolds`, `UploadAnsweredHolds`, `FilesKeptHolds`,
  `InstalledWholeHolds` and `TypeOKHolds`, from `Facts`, inductive relative to
  `Inv`: the packager archives a directory it made (`Packed`), an answer tells
  what became of the row (`Answered`), and rows, offers and installations are of
  files that pass (`Kept`). That a file which passes is a whole package is a
  lemma about the readers: every reachable file is a whole archive, one with its
  payload changed, or one cut short, and of these only the first passes
  validation. `UnreadableIsNoValue` assumes that the outcome of an exception is not
  a value a reader returns.

For any number of agent processes, tasks, workers and versions (`ProcsOK`,
and `StoreOK`, which is `ConstantsOK` of TaskStore for this agent):

* `StoreIsImplemented`: connections, processes, kills, losses and restarts
  implement TaskStore, and its `OrderlySpec`: no result overtakes the running
  report of its task, which the server would not notice. The invariant `FlowInv` has
  TaskStore's own `TaskInv` as a part and adds that a request comes from the
  process that waits for it (`RequestOK`), that the only report about a task finds
  the task as it was when it was handed out or begun (`ReportOK`), what a process
  may assume at each point (`ProcessOK`), and that a task is with one process, in
  one place (`HeldOK`). It follows that the reports of this agent are never
  refused for the state of their task.
* `ExecutedOnceHolds`, `SuccessIsTrueHolds` and `TypesHold`, from `FlowInv`.
* `LifecycleIsImplemented` and `PrerequisitesAreRespected`: with that, TaskStore's
  theorems about reports in order are theorems of the whole system.
* `TablesHold` and `VerdictsStand`: so are the invariants of the tables, and the
  verdict on an upgrade, the latter without exception.

What the recursive function `Drain` computes would be shown by induction over the
buffer. The library's induction theorems cannot be used, since they take an
operator as a parameter; the proofs take the shortest counterexample instead
(`LeastNumber`) and unfold the function at it.

Only model-checked: `QueuedTaskClaimed`, `StopEnds`, `SlotsReleased` and
`StagingCleared`, since liveness under fairness is out of the prover's reach. All
other properties of the runs that pass are theorems. The five disagreements are
shown by TLC's counterexamples.

## 5. Disagreements

* `rollback_two_writes`: between the two writes of a rollback the agent may be
  handed the task, finish it and register; it is then recorded as failed,
  against `docs/contracts.md:154`.
* `reconnect_status`: the offline mark of an old connection can be written after
  the registration on the new one, and no heartbeat corrects it, against
  `docs/contracts.md:425`.
* `early_registration`: the successor is started before the result is posted. If
  it registers first, its registration is not compared with the desired version,
  and the upgrade times out although the desired version is on record, against
  `docs/adr/0011-agent-package-install-upgrade.md:171`.
* `superseded_agent`: an agent that started its successor stops only when its
  result is answered with 200. If the connection is lost first it reconnects and
  serves beside its successor, against line 170 of the same document.

* `chunk_order`: each chunk of a request goes to the worker pool on its own
  (`control_server.cpp:337`), and `dispatcher_mutex` keeps two workers apart but
  not in order. Two pieces decoded in the wrong order make one event out of parts
  of two or leave one undecoded, and the batch may be answered with 200. The tests
  of decoder and dispatcher (`libs/transport/tests/frame_codec_test.cpp:10`,
  `apps/server/tests/server_control_unit_test.cpp:59`) push parts in order.

Disagreements met while modelling that no run is kept for:

* The claim the control server uses (`database.cpp:1368`) writes no audit event;
  `docs/contracts.md:436` asks for one.
* A rollback switches `active-version` before the steps that may still throw
  (`installer.cpp:621`) and then reports a failure with the version switched,
  against the title of the test at `apps/installer/tests/installer_test.cpp:567`,
  whose sections fail before the first write only.
* An upload is moved into the repository before it is validated
  (`admin_http_server.cpp:302`) and stays there when it fails;
  `docs/security.md:46` says nothing enters the repository before.
* Validating a published package again makes it `validated`: its publication
  stays the default of its channel and install options find no package until it
  is published again.
* An upgrade takes any agent package that is not retired, a rejected one too.
* A failed upload writes no audit event (`docs/contracts.md:148`).
* A token may be used twice for one new agent, by two registrations under way at
  once or by a crash between the two writes of `HandleRegister`;
  `docs/operations.md:261` says that a reconnection does not use it again.
* Closing the staging file and the archive is not checked, and staging files of a
  killed server are never removed.
* The server takes a result of a queued or assigned task
  (`control_service.cpp:181`, `database.cpp:1548-1551`): `assigned` to `succeeded`,
  which `CanTransitionTaskState` forbids and
  `apps/server/tests/server_upgrade_lifecycle_test.cpp` relies on. Of a chained task
  the prerequisite may then never have run. The agents of this repository report in
  order (`LifecycleSpec`, `PrerequisiteRespected`).
* A version file may be empty after a command that reported success:
  `WriteTextFile` (`installer.cpp:94-104`) checks its stream before the buffer is
  flushed, so that a full disk is not noticed, and `docs/operations.md:377` promises
  that a switch records `previous-version`. `WorkingVersionKept` and
  `SuccessIsComplete` therefore leave out runs that lost a write; when it was that of
  `previous-version`, the version that worked is named nowhere.
* An accept that completed before `Stop` closed the acceptor starts its session after
  the list was swept (`control_server.cpp:1031-1074` does not look at `stopping_`):
  nobody stops that session, and no offline mark is written for its agent. It is one
  session at most (`CleanStop`).
* An archive with entries that its manifest does not name is accepted
  (`package_repository.cpp:131`); the packager makes none, so that the model has none.

Not disagreements, but limits the model shows. A crash between the two writes of
a switch leaves `previous-version` equal to `active-version` (a rollback is then
refused until another version is applied), a damaged release is never installed
again under its version, and rolling back an installer does not ask whether the
active agent needs the newer one.

## 6. Not modelled

Byte formats (ZIP fields, protobuf, JSON), the web UI, static files, install
scripts, configuration, logging, hashing and process start: pure input and output
without a protocol between actors. HTTP/2 settings, flow control and framing
(nghttp2). Creation and listing of registration tokens, inventory tasks and asset
snapshots: rows that nothing else reads or that one statement writes. The state
file and the backoff of the agent. Several io threads of the administration
server. Confidentiality and authentication are not the subject.

## 7. Plan

Done: all the modules above, and proofs of every safety property and every
refinement their runs check. To come:

1. UpgradeFlow over Installer instead of its switch: a kill between the writes of
   a switch, and an installer that outlives its agent.
2. Liveness of the agent: it reconnects, and an upgrade comes to an end.
3. Several io threads of the administration server.
