--------------------------- MODULE Installer_proofs ---------------------------
(***************************************************************************)
(* Theorems about Installer, for any versions and packages, any number of  *)
(* kills, losses of power, lost writes and damage.                        *)
(***************************************************************************)
EXTENDS Installer, TLAPS

(* The steps that write the version files.                                 *)
Writing == {"previous", "previous-retry", "active", "active-retry"}

(* The switch is behind the run: both version files are written.           *)
Switched ==
  \/ run.pc = "stubs"
  \/ run.pc = "resolve" /\ run.op = "rollback"

(* The active installer release was found, and found recent enough.        *)
Resolved == run.op = "apply" /\ run.pc \notin {"idle", "resolve"}

(* What the run read at its start still holds until it is overwritten.     *)
SeenIsCurrent ==
  /\ run.pc \notin {"idle", "active-retry"} /\ ~Switched
       => run.from = active[run.comp]
  /\ run.pc = "active-retry" => active[run.comp] \in {run.from, None}
  /\ run.healthy => run.from \in Versions

(* The release to switch to is there, and was there before the switch.     *)
TargetInstalled ==
  run.pc \in Writing \/ Switched => release[run.comp][run.ver] # "absent"

(* Once the second write may begin, the first was made if it was due and   *)
(* the run did not lose it.                                                *)
OldRecorded ==
  ~run.lost /\ (run.pc \in {"active", "active-retry"} \/ Switched)
    => (run.healthy /\ run.from # run.ver => previous[run.comp] = run.from)

(* Both writes behind it, a run that lost none has made its version active. *)
SwitchedToTarget == Switched /\ ~run.lost => active[run.comp] = run.ver

(* What ResolveInstallerVersionForPackage returned stays true: a run of    *)
(* another component does not touch the active installer.                  *)
InstallerResolved ==
  /\ Resolved /\ run.comp # "installer"
       => active["installer"] \in Versions /\ run.min <= active["installer"]
  /\ Resolved \/ run.pc = "stubs"
       => run.template = IF run.comp = "installer" THEN run.ver
                                                   ELSE active["installer"]

(* The stub of c is still to be refreshed.                                 *)
InTodo(c) == \E i \in 1..Len(run.todo) : run.todo[i] = c

(* Every stub the run answers for is refreshed or still to do.             *)
StubsAccounted ==
  run.pc # "idle" =>
    \A c \in Components :
      c = run.comp \/ run.comp = "installer"
        => InTodo(c) \/ (run.pc = "stubs" /\ stub[c] = run.template)

(* The inductive invariant, with the properties it implies first.          *)
RunInv ==
  /\ VersionFilesNameReleases /\ SuccessIsComplete
  /\ SeenIsCurrent /\ TargetInstalled /\ OldRecorded /\ SwitchedToTarget
  /\ InstallerResolved /\ StubsAccounted

IInv == TypeOK /\ RunInv

----------------------------------------------------------------------------
(* Going on to another step, whether or not a write was lost. *)
Onward(pc) == Goto(pc) \/ run' = [run EXCEPT !.pc = pc, !.lost = TRUE]

(* A run that throws is one that reports a failure. *)
LEMMA ThrowType ==
  ASSUME run \in Runs, Throw
  PROVE  run' \in Runs /\ run'.pc = "idle" /\ ~run'.ok
<1>1. <<>> \in Seq(Components)
  OBVIOUS
<1>2. run' = [run EXCEPT !.pc = "idle", !.ok = FALSE, !.todo = <<>>]
  BY DEF Throw
<1> QED
  BY <1>1, <1>2 DEF Runs

(* The beginning of a command makes a run of it. *)
LEMMA BeginType ==
  ASSUME TypeOK, NEW op \in {"apply", "rollback"}, NEW c \in Components,
         NEW v \in Versions, NEW min \in Nat,
         NEW first \in {"resolve", "previous"}, Begin(op, c, v, min, first)
  PROVE  run' \in Runs /\ run'.op = op /\ run'.ver = v
<1>1. StubsOf(c) \in Seq(Components)
  <2>1. {"installer", "agent", "server"} \subseteq Components
    BY DEF Components
  <2>2. CASE c = "installer"
    BY <2>1, <2>2 DEF StubsOf, kManagedComponents
  <2>3. CASE c # "installer"
    BY <2>3 DEF StubsOf
  <2> QED
    BY <2>2, <2>3
<1>2. ActiveHealthy(c) \in BOOLEAN
  BY DEF ActiveHealthy, Healthy
<1>3. active[c] \in Contents /\ v \in VersionOrNone /\ None \in VersionOrNone
  BY DEF TypeOK, VersionOrNone
<1> QED
  BY <1>1, <1>2, <1>3 DEF Begin, Runs

(* Every step leaves a run, and one that knows its command and version.    *)
LEMMA RunStep ==
  ASSUME TypeOK, [Next]_vars
  PROVE  run' \in Runs /\ (run'.pc # "idle" => run'.op # "none" /\ run'.ver \in Versions)
<1> USE DEF TypeOK
<1>1. CASE ApplyPackage
  BY <1>1, BeginType, ConstantsOK DEF ApplyPackage
<1>2. ASSUME NEW c \in Components, RollbackComponent(c)
      PROVE  run' \in Runs /\ (run'.pc # "idle" => run'.op # "none" /\ run'.ver \in Versions)
  <2>1. CASE CanRollBack(c)
    BY <1>2, <2>1, BeginType DEF RollbackComponent, CanRollBack, Healthy
  <2>2. CASE ~CanRollBack(c)
    <3>1. NoRun \in Runs
      BY DEF NoRun, Runs, Contents, VersionOrNone, Components
    <3>2. active[c] \in Contents
      OBVIOUS
    <3>3. run' = [NoRun EXCEPT !.op = "rollback", !.comp = c, !.from = active[c]]
      BY <1>2, <2>2 DEF RollbackComponent
    <3>4. run' \in Runs
      BY <3>1, <3>2, <3>3 DEF Runs
    <3>5. run'.pc = "idle"
      BY <3>3 DEF NoRun
    <3> QED
      BY <3>4, <3>5
  <2> QED
    BY <2>1, <2>2
<1>3. ASSUME Throw
      PROVE  run' \in Runs /\ (run'.pc # "idle" => run'.op # "none" /\ run'.ver \in Versions)
  BY <1>3, ThrowType
<1>4. ASSUME NEW pc \in {"check", "stage", "copy", "install", "resolve", "previous",
                         "previous-retry", "active", "active-retry", "stubs"},
             run.pc # "idle", Onward(pc)
      PROVE  run' \in Runs /\ (run'.pc # "idle" => run'.op # "none" /\ run'.ver \in Versions)
  BY <1>4 DEF Onward, Goto, Runs
<1>5. CASE ResolveInstallerVersionForPackage
  <2>1. CASE Throw
    BY <1>3, <2>1
  <2>2. CASE ~Throw
    BY <1>5, <2>2 DEF ResolveInstallerVersionForPackage, Runs, ActiveHealthy, Healthy,
       VersionOrNone
  <2> QED
    BY <2>1, <2>2
<1>6. CASE CheckRelease \/ BeginStaging \/ StageRelease \/ InstallRelease
  BY <1>3, <1>4, <1>6 DEF CheckRelease, BeginStaging, StageRelease, InstallRelease, Abort,
     FirstWrite, Onward
<1>7. CASE WritePreviousVersion \/ WriteActiveVersion
  BY <1>3, <1>4, <1>7 DEF WritePreviousVersion, WriteActiveVersion, WriteVersionFile, Abort,
     Onward
<1>8. CASE EnsureLauncherStub
  <2>1. run.todo \in Seq(Components) /\ run.pc # "idle" /\ run.todo # <<>>
    BY <1>8 DEF EnsureLauncherStub, Runs
  <2>2. Tail(run.todo) \in Seq(Components)
    BY <2>1
  <2>3. ASSUME run' = [run EXCEPT !.todo = Tail(@)]
        PROVE  run' \in Runs /\ (run'.pc # "idle" => run'.op # "none" /\ run'.ver \in Versions)
    BY <2>2, <2>3 DEF Runs
  <2> QED
    BY <1>3, <1>8, <2>3 DEF EnsureLauncherStub, Abort
<1>9. CASE Finish
  BY <1>9 DEF Finish, Runs
<1>10. CASE Environment \/ UNCHANGED vars
  <2>1. NoRun \in Runs /\ NoRun.pc = "idle"
    BY DEF NoRun, Runs, Contents, VersionOrNone, Components
  <2> QED
    BY <1>10, <2>1 DEF Environment, Crash, PowerLoss, Damage, vars
<1> QED
  BY <1>1, <1>2, <1>5, <1>6, <1>7, <1>8, <1>9, <1>10 DEF Next

(* Every step keeps the types. *)
LEMMA TypeStep ==
  ASSUME TypeOK, [Next]_vars
  PROVE  TypeOK'
<1>1. run' \in Runs /\ (run'.pc # "idle" => run'.op # "none" /\ run'.ver \in Versions)
  BY RunStep
<1>2. run.comp \in Components /\ run.from \in Contents
        /\ run.ver \in Contents /\ run.template \in Contents
        /\ {None, Torn} \subseteq Contents
  BY DEF TypeOK, Runs, VersionOrNone, Contents
<1>3. release' \in [Components -> [Versions -> {"absent", "healthy", "damaged"}]]
  <2>1. CASE InstallRelease
    <3>1. CASE UNCHANGED release
      BY <3>1 DEF TypeOK
    <3>2. CASE release' = [release EXCEPT ![run.comp][run.ver] = "healthy"]
      BY <1>2, <3>2 DEF TypeOK
    <3> QED
      BY <2>1, <3>1, <3>2 DEF InstallRelease
  <2>2. ASSUME NEW c \in Components, NEW v \in Versions, Damage(c, v)
        PROVE  release' \in [Components -> [Versions -> {"absent", "healthy", "damaged"}]]
    BY <2>2 DEF Damage, TypeOK
  <2>3. CASE UNCHANGED release
    BY <2>3 DEF TypeOK
  <2> QED
    BY <2>1, <2>2, <2>3 DEF Next, vars, Environment, Crash, PowerLoss, Finish,
       EnsureLauncherStub, WriteActiveVersion, WritePreviousVersion,
       StageRelease, BeginStaging, CheckRelease, ResolveInstallerVersionForPackage,
       RollbackComponent, ApplyPackage
<1>7. faults' \in 0..MaxFaults
  <2>1. UNCHANGED faults \/ (faults < MaxFaults /\ faults' = faults + 1)
    BY DEF Next, vars, Environment, Crash, PowerLoss, Damage, Finish,
       EnsureLauncherStub, WriteActiveVersion, WritePreviousVersion, WriteVersionFile,
       InstallRelease, StageRelease, BeginStaging, CheckRelease,
       ResolveInstallerVersionForPackage, RollbackComponent, ApplyPackage
  <2> QED
    BY <2>1, ConstantsOK DEF TypeOK
<1>4. staging' \in [Components -> [Versions -> {"absent", "partial", "complete"}]]
  <2>1. ASSUME NEW s \in {"absent", "partial", "complete"},
               staging' = [staging EXCEPT ![run.comp][run.ver] = s]
        PROVE  staging' \in [Components -> [Versions -> {"absent", "partial", "complete"}]]
    BY <1>2, <2>1 DEF TypeOK
  <2>2. CASE UNCHANGED staging
    BY <2>2 DEF TypeOK
  <2> QED
    BY <2>1, <2>2 DEF Next, vars, Environment, Damage, Crash, PowerLoss, Finish, Abort,
       EnsureLauncherStub, WriteActiveVersion, WritePreviousVersion, InstallRelease,
       StageRelease, BeginStaging, CheckRelease, ResolveInstallerVersionForPackage,
       RollbackComponent, ApplyPackage, WriteVersionFile
<1>5. active' \in [Components -> Contents] /\ previous' \in [Components -> Contents]
  <2>1. CASE PowerLoss
    BY <1>2, <2>1 DEF PowerLoss, TypeOK
  <2>2. CASE WritePreviousVersion \/ WriteActiveVersion
    <3>1. ASSUME NEW file \in [Components -> Contents], NEW newFile,
                 NEW v \in {run.from, run.ver},
                 newFile \in {file} \cup {[file EXCEPT ![run.comp] = w] : w \in {v, None, Torn}}
          PROVE  newFile \in [Components -> Contents]
      BY <1>2, <3>1
    <3>2. previous' \in {previous} \cup
            {[previous EXCEPT ![run.comp] = w] : w \in {run.from, None, Torn}}
      BY <2>2 DEF WritePreviousVersion, WriteActiveVersion, WriteVersionFile
    <3>3. active' \in {active} \cup
            {[active EXCEPT ![run.comp] = w] : w \in {run.ver, None, Torn}}
      BY <2>2 DEF WritePreviousVersion, WriteActiveVersion, WriteVersionFile
    <3> QED
      BY <3>1, <3>2, <3>3 DEF TypeOK
  <2>3. CASE UNCHANGED <<active, previous>>
    BY <2>3 DEF TypeOK
  <2> QED
    BY <2>1, <2>2, <2>3 DEF Next, vars, Environment, Damage, Crash, Finish,
       EnsureLauncherStub, InstallRelease, StageRelease, BeginStaging, CheckRelease,
       ResolveInstallerVersionForPackage, RollbackComponent, ApplyPackage
<1>6. stub' \in [Components -> Contents]
  <2>1. CASE PowerLoss
    BY <1>2, <2>1 DEF PowerLoss, TypeOK
  <2> QED
    BY <1>2, <2>1 DEF Next, TypeOK, vars, Environment, Damage, Crash, Finish,
     EnsureLauncherStub, WriteActiveVersion, WritePreviousVersion, InstallRelease,
     StageRelease, BeginStaging, CheckRelease, ResolveInstallerVersionForPackage,
     RollbackComponent, ApplyPackage
<1> QED
  BY <1>1, <1>3, <1>4, <1>5, <1>6, <1>7 DEF TypeOK

(* A run that ends with an exception leaves the files as they are. *)
LEMMA ThrowStep ==
  ASSUME IInv, TypeOK', Throw, UNCHANGED <<release, active, previous, stub>>
  PROVE  RunInv'
<1> USE DEF IInv, RunInv
<1>1. /\ run'.pc = "idle" /\ ~run'.ok /\ run'.healthy = run.healthy
      /\ run'.from = run.from
  BY DEF Throw, Runs, TypeOK
<1>2. VersionFilesNameReleases'
  BY DEF VersionFilesNameReleases, LaunchTargets
<1> QED
  BY <1>1, <1>2 DEF SuccessIsComplete, SwitchRecorded, SeenIsCurrent, TargetInstalled, OldRecorded,
     SwitchedToTarget, InstallerResolved, StubsAccounted, Switched, Resolved, Writing

(* Going on changes nothing of the run but its step, and what it lost. *)
LEMMA GotoFields ==
  ASSUME TypeOK, NEW pc, Onward(pc)
  PROVE  /\ run'.pc = pc /\ run'.op = run.op /\ run'.comp = run.comp
         /\ run'.ver = run.ver /\ run'.min = run.min /\ run'.healthy = run.healthy
         /\ run'.from = run.from /\ run'.template = run.template
         /\ run'.todo = run.todo /\ run'.ok = run.ok
         /\ (run'.lost = run.lost \/ run'.lost)
         /\ (Goto(pc) => run'.lost = run.lost)
BY DEF Onward, Goto, TypeOK, Runs

(* Before the stubs are refreshed, every one of them is still to do. *)
LEMMA GotoKeepsStubs ==
  ASSUME IInv, NEW pc, Onward(pc), run.pc \notin {"idle", "stubs"}
  PROVE  StubsAccounted'
<1> USE DEF IInv, RunInv
<1>1. run'.comp = run.comp /\ run'.todo = run.todo
  BY GotoFields
<1>2. \A c \in Components : c = run.comp \/ run.comp = "installer" => InTodo(c)
  BY DEF StubsAccounted
<1> QED
  BY <1>1, <1>2 DEF StubsAccounted, InTodo

(* The beginning of an apply keeps the invariant. *)
LEMMA ApplyStep ==
  ASSUME IInv, TypeOK', ApplyPackage
  PROVE  RunInv'
<1> USE DEF IInv, RunInv
<1>1. PICK p \in Packages : Begin("apply", p.comp, p.ver, p.min, "resolve")
  BY DEF ApplyPackage
<1>2. /\ run'.pc = "resolve" /\ run'.op = "apply" /\ run'.comp = p.comp
      /\ run'.from = active[p.comp] /\ run'.healthy = ActiveHealthy(p.comp)
      /\ run'.todo = StubsOf(p.comp)
  BY <1>1 DEF Begin
<1>3. UNCHANGED <<release, staging, active, previous, stub, faults>>
  BY DEF ApplyPackage
<1>4. run'.healthy => run'.from \in Versions
  BY <1>2 DEF ActiveHealthy, Healthy
<1>5. VersionFilesNameReleases' /\ SeenIsCurrent'
  BY <1>2, <1>3, <1>4 DEF VersionFilesNameReleases, LaunchTargets, SeenIsCurrent, Switched
<1>6. StubsAccounted'
  BY <1>2 DEF StubsAccounted, InTodo, StubsOf, kManagedComponents, Components
<1> QED
  BY <1>2, <1>5, <1>6 DEF SuccessIsComplete, SwitchRecorded, TargetInstalled, OldRecorded,
     SwitchedToTarget, InstallerResolved, Switched, Resolved, Writing

(* So does that of a rollback, whether it returns early or goes on. *)
LEMMA RollbackStep ==
  ASSUME IInv, TypeOK', NEW c \in Components, RollbackComponent(c)
  PROVE  RunInv'
<1> USE DEF IInv, RunInv
<1>1. UNCHANGED <<release, staging, active, previous, stub, faults>>
  BY DEF RollbackComponent
<1>2. VersionFilesNameReleases'
  BY <1>1 DEF VersionFilesNameReleases, LaunchTargets
<1>3. CASE CanRollBack(c)
  <2>1. Begin("rollback", c, previous[c], 0, "previous")
    BY <1>3 DEF RollbackComponent
  <2>2. /\ run'.pc = "previous" /\ run'.op = "rollback" /\ run'.comp = c
        /\ run'.ver = previous[c] /\ run'.from = active[c]
        /\ run'.healthy = ActiveHealthy(c) /\ run'.todo = StubsOf(c)
    BY <2>1 DEF Begin
  <2>3. active[c] \in Versions /\ release[c][previous[c]] # "absent"
    BY <1>3 DEF CanRollBack, ActiveHealthy, Healthy
  <2>4. StubsAccounted'
    BY <2>2 DEF StubsAccounted, InTodo, StubsOf, kManagedComponents, Components
  <2>5. SuccessIsComplete' /\ OldRecorded' /\ SwitchedToTarget' /\ InstallerResolved'
    BY <2>2 DEF SuccessIsComplete, SwitchRecorded, OldRecorded, SwitchedToTarget, InstallerResolved,
       Switched, Resolved
  <2>6. SeenIsCurrent' /\ TargetInstalled'
    BY <1>1, <2>2, <2>3 DEF SeenIsCurrent, TargetInstalled, Switched, Writing
  <2> QED
    BY <1>2, <2>4, <2>5, <2>6
<1>4. CASE ~CanRollBack(c)
  <2>1. run' = [NoRun EXCEPT !.op = "rollback", !.comp = c, !.from = active[c]]
    BY <1>4 DEF RollbackComponent
  <2>2. run'.pc = "idle" /\ ~run'.ok /\ ~run'.healthy
    BY <2>1 DEF NoRun
  <2> QED
    BY <1>2, <2>2 DEF SuccessIsComplete, SwitchRecorded, SeenIsCurrent, TargetInstalled, OldRecorded,
       SwitchedToTarget, InstallerResolved, StubsAccounted, Switched, Resolved, Writing
<1> QED
  BY <1>3, <1>4


(* An apply knows its installer from here on, a rollback may refresh stubs. *)
LEMMA ResolveStep ==
  ASSUME IInv, TypeOK', ResolveInstallerVersionForPackage
  PROVE  RunInv'
<1> USE DEF IInv, RunInv
<1>1. /\ UNCHANGED <<release, staging, active, previous, stub, faults>>
      /\ run.pc = "resolve" /\ run \in Runs
  BY DEF ResolveInstallerVersionForPackage, TypeOK
<1>2. VersionFilesNameReleases'
  BY <1>1 DEF VersionFilesNameReleases, LaunchTargets
<1>3. CASE Throw
  <2>1. /\ run'.pc = "idle" /\ ~run'.ok /\ run'.healthy = run.healthy
        /\ run'.from = run.from
    BY <1>1, <1>3 DEF Throw, Runs
  <2> QED
    BY <1>2, <2>1 DEF SuccessIsComplete, SwitchRecorded, SeenIsCurrent, TargetInstalled, OldRecorded,
       SwitchedToTarget, InstallerResolved, StubsAccounted, Switched, Resolved, Writing
<1>4. CASE ~Throw
  <2>1. run.comp # "installer" =>
          active["installer"] \in Versions /\ run.min <= active["installer"]
    BY <1>4 DEF ResolveInstallerVersionForPackage, ActiveHealthy, Healthy
  <2>2. run' = [run EXCEPT
          !.template = IF run.comp = "installer" THEN run.ver ELSE active["installer"],
          !.pc = IF run.op = "apply" THEN "check" ELSE "stubs"]
    BY <1>4 DEF ResolveInstallerVersionForPackage
  <2>3. /\ run'.pc = IF run.op = "apply" THEN "check" ELSE "stubs"
        /\ run'.template = IF run.comp = "installer" THEN run.ver ELSE active["installer"]
        /\ run'.op = run.op /\ run'.comp = run.comp /\ run'.ver = run.ver
        /\ run'.min = run.min /\ run'.healthy = run.healthy /\ run'.from = run.from
        /\ run'.todo = run.todo /\ run'.lost = run.lost
    BY <1>1, <2>2 DEF Runs
  <2>4. Switched' <=> Switched
    BY <1>1, <2>3 DEF Switched, Runs, TypeOK
  <2>5. SuccessIsComplete' /\ SeenIsCurrent' /\ TargetInstalled'
    BY <1>1, <2>3, <2>4 DEF SuccessIsComplete, SwitchRecorded, SeenIsCurrent, TargetInstalled, Writing
  <2>6. OldRecorded' /\ SwitchedToTarget'
    BY <1>1, <2>3, <2>4 DEF OldRecorded, SwitchedToTarget
  <2>7. InstallerResolved'
    BY <1>1, <2>1, <2>3 DEF InstallerResolved, Resolved
  <2>8. StubsAccounted'
    BY <1>1, <2>3 DEF StubsAccounted, InTodo
  <2> QED
    BY <1>2, <2>5, <2>6, <2>7, <2>8
<1> QED
  BY <1>3, <1>4


(* An installed release is the target only if it is healthy. *)
LEMMA CheckStep ==
  ASSUME IInv, TypeOK', CheckRelease
  PROVE  RunInv'
<1> USE DEF IInv, RunInv
<1>1. /\ UNCHANGED <<release, staging, active, previous, stub, faults>>
      /\ run.pc = "check"
  BY DEF CheckRelease
<1>2. CASE Throw
  BY <1>1, <1>2, ThrowStep
<1>3. ASSUME NEW pc, Goto(pc),
             \/ pc = "stage"
             \/ pc = FirstWrite /\ release[run.comp][run.ver] = "healthy"
      PROVE  RunInv'
  <2>1. StubsAccounted'
    BY <1>1, <1>3, GotoKeepsStubs DEF Onward
  <2>2. VersionFilesNameReleases' /\ SuccessIsComplete' /\ SeenIsCurrent' /\ TargetInstalled'
    BY <1>1, <1>3, GotoFields DEF Onward, VersionFilesNameReleases, LaunchTargets,
       SuccessIsComplete, SwitchRecorded, SeenIsCurrent, TargetInstalled, FirstWrite, Switched, Writing
  <2>3. OldRecorded' /\ SwitchedToTarget' /\ InstallerResolved'
    BY <1>1, <1>3, GotoFields DEF Onward, OldRecorded, SwitchedToTarget, InstallerResolved,
       FirstWrite, Switched, Resolved, TypeOK, Runs
  <2> QED
    BY <2>1, <2>2, <2>3
<1> QED
  BY <1>2, <1>3 DEF CheckRelease

(* Staging touches no release and no version file. *)
LEMMA StagingStep ==
  ASSUME IInv, TypeOK', BeginStaging \/ StageRelease
  PROVE  RunInv'
<1> USE DEF IInv, RunInv
<1>1. /\ UNCHANGED <<release, active, previous, stub, faults>>
      /\ run.pc \in {"stage", "copy"}
  BY DEF BeginStaging, StageRelease
<1>2. CASE Throw
  BY <1>1, <1>2, ThrowStep
<1>3. ASSUME NEW pc \in {"copy", "install"}, Goto(pc)
      PROVE  RunInv'
  <2>1. StubsAccounted'
    BY <1>1, <1>3, GotoKeepsStubs DEF Onward
  <2>2. VersionFilesNameReleases' /\ SuccessIsComplete' /\ SeenIsCurrent' /\ TargetInstalled'
    BY <1>1, <1>3, GotoFields DEF Onward, VersionFilesNameReleases, LaunchTargets,
       SuccessIsComplete, SwitchRecorded, SeenIsCurrent, TargetInstalled, Switched, Writing
  <2>3. OldRecorded' /\ SwitchedToTarget' /\ InstallerResolved'
    BY <1>1, <1>3, GotoFields DEF Onward, OldRecorded, SwitchedToTarget, InstallerResolved,
       Switched, Resolved
  <2> QED
    BY <2>1, <2>2, <2>3
<1> QED
  BY <1>2, <1>3 DEF BeginStaging, StageRelease, Abort


(* A version file that named a release names it still. *)
LEMMA InstallStep ==
  ASSUME IInv, TypeOK', InstallRelease
  PROVE  RunInv'
<1> USE DEF IInv, RunInv
<1>1. /\ UNCHANGED <<active, previous, stub, faults>>
      /\ run.pc = "install" /\ run.comp \in Components /\ run.ver \in Versions
  BY DEF InstallRelease, TypeOK, Runs
<1>2. CASE Throw /\ UNCHANGED release
  BY <1>1, <1>2, ThrowStep
<1>3. CASE /\ release' = [release EXCEPT ![run.comp][run.ver] = "healthy"]
           /\ Goto(FirstWrite)
  <2>1. \A c \in Components, v \in Versions :
          release'[c][v] = IF c = run.comp /\ v = run.ver THEN "healthy" ELSE release[c][v]
    BY <1>1, <1>3 DEF TypeOK
  <2>2. \A c \in Components : active[c] \in Contents /\ previous[c] \in Contents
    BY DEF TypeOK
  <2>3. VersionFilesNameReleases'
    BY <1>1, <2>1, <2>2 DEF VersionFilesNameReleases, LaunchTargets, Contents
  <2>4. StubsAccounted'
    BY <1>1, <1>3, GotoKeepsStubs DEF Onward
  <2>7. /\ run'.pc = FirstWrite /\ run'.op = run.op /\ run'.comp = run.comp
        /\ run'.ver = run.ver /\ run'.min = run.min /\ run'.healthy = run.healthy
        /\ run'.from = run.from /\ run'.template = run.template
        /\ run'.lost = run.lost
    BY <1>3, GotoFields DEF Onward
  <2>5. SuccessIsComplete' /\ SeenIsCurrent' /\ TargetInstalled'
    BY <1>1, <2>1, <2>7 DEF SuccessIsComplete, SeenIsCurrent, TargetInstalled,
       FirstWrite, Switched, Writing
  <2>6. OldRecorded' /\ SwitchedToTarget' /\ InstallerResolved'
    BY <1>1, <2>7 DEF OldRecorded, SwitchedToTarget, InstallerResolved,
       FirstWrite, Switched, Resolved, TypeOK, Runs
  <2> QED
    BY <2>3, <2>4, <2>5, <2>6
<1> QED
  BY <1>2, <1>3 DEF InstallRelease, Abort

(* The first write records the version that was active, or nothing. *)
LEMMA PreviousStep ==
  ASSUME IInv, TypeOK', WritePreviousVersion
  PROVE  RunInv'
<1> USE DEF IInv, RunInv
<1>1. /\ UNCHANGED <<release, active, stub>>
      /\ run.pc \in {"previous", "previous-retry"}
      /\ run.comp \in Components /\ run.from = active[run.comp]
  BY DEF WritePreviousVersion, WriteVersionFile, TypeOK, Runs, SeenIsCurrent, Switched
<1>2. CASE Throw /\ previous' = previous
  BY <1>1, <1>2, ThrowStep
<1>3. ASSUME NEW f \in Contents, NEW pc,
             previous' = previous \/ previous' = [previous EXCEPT ![run.comp] = f],
             Onward(pc),
             \/ /\ pc = "active" /\ previous' = [previous EXCEPT ![run.comp] = f]
                /\ f = run.from \/ (f = Torn /\ run'.lost)
             \/ pc = "previous-retry" /\ f = None
      PROVE  RunInv'
  <2>1. \A c \in Components : previous'[c] \in {previous[c], active[c], None, Torn}
    BY <1>1, <1>3 DEF TypeOK
  <2>2. VersionFilesNameReleases'
    BY <1>1, <2>1, ConstantsOK DEF VersionFilesNameReleases, LaunchTargets
  <2>3. StubsAccounted'
    BY <1>1, <1>3, GotoKeepsStubs
  <2>4. SuccessIsComplete' /\ SeenIsCurrent' /\ TargetInstalled'
    BY <1>1, <1>3, GotoFields DEF SuccessIsComplete, SwitchRecorded, SeenIsCurrent,
       TargetInstalled, Switched, Writing
  <2>5. pc = "active" /\ ~run'.lost => previous'[run.comp] = run.from
    BY <1>1, <1>3 DEF TypeOK
  <2>6. OldRecorded' /\ SwitchedToTarget' /\ InstallerResolved'
    BY <1>1, <1>3, <2>5, GotoFields DEF OldRecorded, SwitchedToTarget,
       InstallerResolved, Switched, Resolved, TypeOK
  <2> QED
    BY <2>2, <2>3, <2>4, <2>6
<1>4. run.from \in Contents /\ {None, Torn} \subseteq Contents
  BY DEF TypeOK, Runs, Contents
<1>5. run' = [run EXCEPT !.pc = "active", !.lost = TRUE] => run'.lost
  BY DEF TypeOK, Runs
<1> QED
  BY <1>2, <1>3, <1>4, <1>5 DEF WritePreviousVersion, WriteVersionFile, Abort, Onward

(* The second write names the release that is installed, or nothing. *)
LEMMA ActiveStep ==
  ASSUME IInv, TypeOK', WriteActiveVersion
  PROVE  RunInv'
<1> USE DEF IInv, RunInv
<1>1. /\ UNCHANGED <<release, previous, stub>>
      /\ run.pc \in {"active", "active-retry"}
      /\ run.comp \in Components /\ run.ver \in Versions
      /\ active[run.comp] \in {run.from, None}
      /\ release[run.comp][run.ver] # "absent"
  BY DEF WriteActiveVersion, WriteVersionFile, TypeOK, Runs, SeenIsCurrent, Switched,
     TargetInstalled, Writing
<1>2. CASE Throw /\ active' = active
  BY <1>1, <1>2, ThrowStep
<1>3. ASSUME NEW f \in Contents, NEW pc,
             active' = active \/ active' = [active EXCEPT ![run.comp] = f],
             Onward(pc),
             \/ /\ pc = IF run.op = "apply" THEN "stubs" ELSE "resolve"
                /\ f = run.ver \/ (f = Torn /\ run'.lost)
                /\ active' = [active EXCEPT ![run.comp] = f]
             \/ pc = "active-retry" /\ f = None
      PROVE  RunInv'
  <2>1. \A c \in Components :
          active'[c] = active[c] \/ (c = run.comp /\ active'[c] = f)
    BY <1>1, <1>3 DEF TypeOK
  <2>2. f \in {run.ver, None, Torn}
    BY <1>3
  <2>3. \A c \in Components : active[c] \in Contents
    BY DEF TypeOK
  <2>4. VersionFilesNameReleases'
    BY <1>1, <2>1, <2>2, <2>3, ConstantsOK DEF VersionFilesNameReleases, LaunchTargets, Contents
  <2>5. StubsAccounted'
    BY <1>1, <1>3, GotoKeepsStubs
  <2>6. run.op \in {"apply", "rollback"}
    BY <1>1 DEF TypeOK, Runs
  <2>7. SuccessIsComplete' /\ SeenIsCurrent' /\ TargetInstalled'
    BY <1>1, <1>3, <2>1, <2>6, GotoFields DEF SuccessIsComplete, SwitchRecorded, SeenIsCurrent,
       TargetInstalled, Switched, Writing
  <2>8. pc # "active-retry" => active'[run.comp] = run.ver \/ run'.lost
    BY <1>1, <1>3 DEF TypeOK
  <2>9. OldRecorded' /\ SwitchedToTarget'
    BY <1>1, <1>3, <2>8, GotoFields DEF OldRecorded, SwitchedToTarget, Switched
  <2>10. run.comp # "installer" => active'["installer"] = active["installer"]
    BY <2>1 DEF Components
  <2>11. InstallerResolved'
    BY <1>1, <1>3, <2>6, <2>8, <2>10, GotoFields DEF InstallerResolved, Resolved
  <2> QED
    BY <2>4, <2>5, <2>7, <2>9, <2>11
<1>4. run.ver \in Contents /\ {None, Torn} \subseteq Contents
  BY DEF TypeOK, Runs, VersionOrNone, Contents
<1>5. \A pc : run' = [run EXCEPT !.pc = pc, !.lost = TRUE] => run'.lost
  BY DEF TypeOK, Runs
<1> QED
  BY <1>2, <1>3, <1>4, <1>5 DEF WriteActiveVersion, WriteVersionFile, Abort, Onward

(* A stub leaves the list of those to do when it is whole. *)
LEMMA EnsureStep ==
  ASSUME IInv, TypeOK', EnsureLauncherStub
  PROVE  RunInv'
<1> USE DEF IInv, RunInv
<1> DEFINE d == Head(run.todo)
<1>1. /\ UNCHANGED <<release, active, previous, faults>>
      /\ run.pc = "stubs" /\ run.todo \in Seq(Components) /\ run.todo # <<>>
  BY DEF EnsureLauncherStub, TypeOK, Runs
<1>2. d \in Components /\ d = run.todo[1] /\ 1 \in 1..Len(run.todo)
  BY <1>1
<1>3. CASE Throw /\ UNCHANGED stub
  BY <1>1, <1>3, ThrowStep
<1>4. CASE stub' = [stub EXCEPT ![d] = Torn] /\ UNCHANGED run
  <2>1. \A c \in Components : c = d \/ stub'[c] = stub[c]
    BY <1>2, <1>4 DEF TypeOK
  <2>2. StubsAccounted'
    BY <1>1, <1>2, <1>4, <2>1 DEF StubsAccounted, InTodo
  <2> QED
    BY <1>1, <1>4, <2>2 DEF VersionFilesNameReleases, LaunchTargets,
       SuccessIsComplete, SwitchRecorded, SeenIsCurrent, TargetInstalled, Switched, Writing, OldRecorded,
       SwitchedToTarget, InstallerResolved, Resolved
<1>5. CASE stub' = [stub EXCEPT ![d] = run.template] /\ run' = [run EXCEPT !.todo = Tail(@)]
  <2>1. \A c \in Components : stub'[c] = IF c = d THEN run.template ELSE stub[c]
    BY <1>2, <1>5 DEF TypeOK
  <2>2. /\ run'.pc = run.pc /\ run'.op = run.op /\ run'.comp = run.comp
        /\ run'.ver = run.ver /\ run'.min = run.min /\ run'.healthy = run.healthy
        /\ run'.from = run.from /\ run'.template = run.template /\ run'.ok = run.ok
        /\ run'.lost = run.lost /\ run'.todo = Tail(run.todo)
    BY <1>5 DEF TypeOK, Runs
  <2>3. ASSUME NEW c \in Components, c = run'.comp \/ run'.comp = "installer"
        PROVE  InTodo(c)' \/ (run'.pc = "stubs" /\ stub'[c] = run'.template)
    <3>1. CASE c = d
      BY <1>1, <2>1, <2>2, <3>1
    <3>2. CASE c # d /\ stub[c] = run.template
      BY <1>1, <2>1, <2>2, <3>2
    <3>3. CASE c # d /\ InTodo(c)
      <4>1. PICK i \in 1..Len(run.todo) : run.todo[i] = c
        BY <3>3 DEF InTodo
      <4>2. i # 1
        BY <1>2, <3>3, <4>1
      <4>3. i - 1 \in 1..Len(Tail(run.todo)) /\ Tail(run.todo)[i - 1] = c
        BY <1>1, <4>1, <4>2
      <4> QED
        BY <2>2, <4>3 DEF InTodo
    <3> QED
      BY <1>1, <2>2, <2>3, <3>1, <3>2, <3>3 DEF StubsAccounted
  <2>4. StubsAccounted'
    BY <2>3 DEF StubsAccounted
  <2>5. VersionFilesNameReleases' /\ SuccessIsComplete' /\ SeenIsCurrent' /\ TargetInstalled'
    BY <1>1, <2>2 DEF VersionFilesNameReleases, LaunchTargets, SuccessIsComplete, SwitchRecorded,
       SeenIsCurrent, TargetInstalled, Switched, Writing
  <2>6. OldRecorded' /\ SwitchedToTarget' /\ InstallerResolved'
    BY <1>1, <2>2 DEF OldRecorded, SwitchedToTarget, InstallerResolved, Switched, Resolved
  <2> QED
    BY <2>4, <2>5, <2>6
<1> QED
  BY <1>3, <1>4, <1>5 DEF EnsureLauncherStub, Abort

(* With nothing left to do, all that success promises was done. *)
LEMMA FinishStep ==
  ASSUME IInv, TypeOK', Finish
  PROVE  RunInv'
<1> USE DEF IInv, RunInv
<1>1. /\ UNCHANGED <<release, staging, active, previous, stub, faults>>
      /\ run.pc = "stubs" /\ run.todo = <<>>
      /\ run'.pc = "idle" /\ run'.comp = run.comp /\ run'.ver = run.ver
      /\ run'.healthy = run.healthy /\ run'.from = run.from /\ run'.lost = run.lost
  BY DEF Finish, TypeOK, Runs
<1>2. ~InTodo(run.comp) /\ \A c \in Components : ~InTodo(c)
  BY <1>1 DEF InTodo
<1>3. run.comp \in Components
  BY DEF TypeOK, Runs
<1>4. SuccessIsComplete'
  BY <1>1, <1>2, <1>3 DEF SuccessIsComplete, SwitchRecorded, OldRecorded, SwitchedToTarget, Switched,
     InstallerResolved, StubsAccounted
<1>5. VersionFilesNameReleases' /\ SeenIsCurrent'
  BY <1>1 DEF VersionFilesNameReleases, LaunchTargets, SeenIsCurrent
<1> QED
  BY <1>1, <1>4, <1>5 DEF TargetInstalled, OldRecorded, SwitchedToTarget,
     InstallerResolved, StubsAccounted, Switched, Resolved, Writing

(* A crash forgets the run and keeps the files. *)
LEMMA CrashStep ==
  ASSUME IInv, TypeOK', Crash
  PROVE  RunInv'
<1> USE DEF IInv, RunInv
<1>1. VersionFilesNameReleases'
  BY DEF Crash, VersionFilesNameReleases, LaunchTargets
<1> QED
  BY <1>1 DEF Crash, NoRun, SuccessIsComplete, SwitchRecorded, SeenIsCurrent, TargetInstalled, OldRecorded,
     SwitchedToTarget, InstallerResolved, StubsAccounted, Switched, Resolved, Writing

(* A loss of power forgets the run, and what a file named at most. *)
LEMMA PowerLossStep ==
  ASSUME IInv, TypeOK', PowerLoss
  PROVE  RunInv'
<1> USE DEF IInv, RunInv
<1>1. /\ run' = NoRun /\ UNCHANGED release
      /\ \A c \in Components :
           active'[c] \in {active[c], Torn} /\ previous'[c] \in {previous[c], Torn}
  BY DEF PowerLoss
<1>2. VersionFilesNameReleases'
  BY <1>1, ConstantsOK DEF VersionFilesNameReleases, LaunchTargets
<1> QED
  BY <1>1, <1>2 DEF NoRun, SuccessIsComplete, SwitchRecorded, SeenIsCurrent, TargetInstalled, OldRecorded,
     SwitchedToTarget, InstallerResolved, StubsAccounted, Switched, Resolved, Writing

(* A damaged release is still there. *)
LEMMA DamageStep ==
  ASSUME IInv, TypeOK', NEW c \in Components, NEW v \in Versions, Damage(c, v)
  PROVE  RunInv'
<1> USE DEF IInv, RunInv
<1>1. UNCHANGED <<staging, active, previous, stub, run>>
  BY DEF Damage
<1>2. \A d \in Components, w \in Versions :
        release'[d][w] = "absent" <=> release[d][w] = "absent"
  BY DEF Damage, TypeOK
<1>3. /\ \A d \in Components : active[d] \in Contents /\ previous[d] \in Contents
      /\ run.comp \in Components /\ (run.pc # "idle" => run.ver \in Versions)
  BY DEF TypeOK, Runs
<1>4. VersionFilesNameReleases'
  BY <1>1, <1>2, <1>3 DEF VersionFilesNameReleases, LaunchTargets, Contents
<1>5. TargetInstalled'
  BY <1>1, <1>2, <1>3 DEF TargetInstalled, Writing, Switched
<1> QED
  BY <1>1, <1>4, <1>5 DEF SuccessIsComplete, SwitchRecorded, SeenIsCurrent, OldRecorded,
     SwitchedToTarget, InstallerResolved, StubsAccounted, Switched, Resolved, InTodo

(* Every step keeps the invariant. *)
LEMMA InvStep ==
  ASSUME IInv, [Next]_vars
  PROVE  IInv'
<1>1. TypeOK'
  BY TypeStep DEF IInv
<1>2. CASE UNCHANGED vars
  BY <1>1, <1>2 DEF vars, IInv, RunInv, VersionFilesNameReleases, LaunchTargets,
     SuccessIsComplete, SwitchRecorded, SeenIsCurrent, TargetInstalled, OldRecorded, SwitchedToTarget,
     InstallerResolved, StubsAccounted, Switched, Resolved, Writing, InTodo
<1>3. CASE Next
  <2>1. RunInv'
    BY <1>1, <1>3, ApplyStep, RollbackStep, ResolveStep, CheckStep, StagingStep,
       InstallStep, PreviousStep, ActiveStep, EnsureStep, FinishStep, CrashStep, PowerLossStep,
       DamageStep
       DEF Next, Environment
  <2> QED
    BY <1>1, <2>1 DEF IInv
<1> QED
  BY <1>2, <1>3

(* An empty root satisfies it. *)
LEMMA InitInv == Init => IInv
<1> SUFFICES ASSUME Init
             PROVE  IInv
  OBVIOUS
<1>1. NoRun \in Runs /\ NoRun.pc = "idle" /\ ~NoRun.ok /\ ~NoRun.healthy
  BY DEF NoRun, Runs, Contents, VersionOrNone, Components
<1>2. TypeOK
  BY <1>1, ConstantsOK DEF Init, TypeOK, Contents
<1>3. RunInv
  BY <1>1, ConstantsOK DEF Init, RunInv, VersionFilesNameReleases, SuccessIsComplete,
     SeenIsCurrent, TargetInstalled, OldRecorded, SwitchedToTarget, InstallerResolved,
     StubsAccounted, Switched, Resolved, Writing
<1> QED
  BY <1>2, <1>3 DEF IInv

(* The invariant of the installer holds always. *)
LEMMA Invariance == Spec => []IInv
BY InitInv, InvStep, PTL DEF Spec

(* The types of the installer and of what it leaves on disk; the bound on   *)
(* the faults is one of the model's.                                       *)
THEOREM TypesHold == Spec => []TypeOK
<1>1. IInv => TypeOK
  BY DEF IInv
<1> QED
  BY <1>1, Invariance, PTL

(* Wherever the installer is killed or throws, and whatever writes are lost, *)
(* the versions that active-version and previous-version name are releases   *)
(* that were installed as a whole. *)
THEOREM VersionFilesAreSafe == Spec => []VersionFilesNameReleases
<1>1. IInv => VersionFilesNameReleases
  BY DEF IInv, RunInv
<1> QED
  BY <1>1, Invariance, PTL

(* A command of the installer that reports success, and lost none of its    *)
(* writes, has done all of it. *)
THEOREM SuccessIsTruthful == Spec => []SuccessIsComplete
<1>1. IInv => SuccessIsComplete
  BY DEF IInv, RunInv
<1> QED
  BY <1>1, Invariance, PTL

(* Only the second write of a switch takes a version out of active-version, *)
(* or a loss of power. *)
LEMMA OnlySwitchChangesActive ==
  ASSUME [Next]_vars, active' # active
  PROVE  PowerLoss \/ WriteActiveVersion
BY DEF Next, vars, Environment, Damage, Crash, Finish, EnsureLauncherStub,
   WritePreviousVersion, InstallRelease, StageRelease, BeginStaging, CheckRelease,
   ResolveInstallerVersionForPackage, RollbackComponent, ApplyPackage

(* When the installer takes a healthy version out of active-version,        *)
(* previous-version names it, unless the run lost that write. *)
THEOREM WorkingVersionIsKept == Spec => WorkingVersionKept
<1>1. ASSUME IInv, [Next]_vars, NEW c \in Components,
             active[c] \in Versions, active'[c] # active[c], run.healthy,
             ~run.lost, run' # NoRun
      PROVE  active[c] \in {previous[c], run.ver}
  <2>1. WriteActiveVersion
    BY <1>1, OnlySwitchChangesActive DEF PowerLoss
  <2>2. run.pc \in {"active", "active-retry"} /\ c = run.comp
    BY <1>1, <2>1 DEF WriteActiveVersion, WriteVersionFile, IInv, TypeOK
  <2>3. active[c] = run.from
    BY <1>1, <2>2, ConstantsOK DEF IInv, RunInv, SeenIsCurrent, Switched
  <2> QED
    BY <1>1, <2>2, <2>3 DEF IInv, RunInv, OldRecorded
<1>2. IInv /\ [Next]_vars =>
        [\A c \in Components :
           (/\ active[c] \in Versions /\ active'[c] # active[c]
            /\ run.healthy /\ ~run.lost /\ run' # NoRun)
             => active[c] \in {previous[c], run.ver}]_vars
  BY <1>1
<1> QED
  BY <1>2, Invariance, PTL DEF Spec, WorkingVersionKept

(* An apply switches agent and server only under a recent enough installer. *)
THEOREM MinInstallerIsRespected == Spec => MinInstallerRespected
<1>1. ASSUME IInv, [Next]_vars, NEW c \in {"agent", "server"},
             run.op = "apply", active'[c] \in Versions \ {active[c]}
      PROVE  active["installer"] \in Versions /\ run.min <= active["installer"]
  <2>1. c \in Components
    BY DEF Components
  <2>2. ~PowerLoss
    BY <1>1, <2>1, ConstantsOK DEF PowerLoss
  <2>3. WriteActiveVersion
    BY <1>1, <2>2, OnlySwitchChangesActive
  <2>4. run.pc \in {"active", "active-retry"} /\ c = run.comp
    BY <1>1, <2>1, <2>3 DEF WriteActiveVersion, WriteVersionFile, IInv, TypeOK
  <2> QED
    BY <1>1, <2>4 DEF IInv, RunInv, InstallerResolved, Resolved
<1>2. IInv /\ [Next]_vars =>
        [\A c \in {"agent", "server"} :
           (run.op = "apply" /\ active'[c] \in Versions \ {active[c]})
             => (active["installer"] \in Versions /\ run.min <= active["installer"])]_vars
  BY <1>1
<1> QED
  BY <1>2, Invariance, PTL DEF Spec, MinInstallerRespected

(* What CheckRelease found is still so when the directory is renamed.      *)
NothingToReplace ==
  run.pc \in {"stage", "copy", "install"} => release[run.comp][run.ver] = "absent"

(* From the check to the rename nothing puts a release there. *)
LEMMA NothingToReplaceStep ==
  ASSUME TypeOK, NothingToReplace, [Next]_vars
  PROVE  NothingToReplace'
<1>1. CASE Next /\ UNCHANGED release
  <2>1. \A pc : Goto(pc) \/ run' = [run EXCEPT !.pc = pc, !.lost = TRUE]
                 => run'.pc = pc /\ run'.comp = run.comp /\ run'.ver = run.ver
    BY GotoFields DEF Onward
  <2>2. CASE CheckRelease \/ BeginStaging \/ StageRelease
    <3>1. \/ run'.pc = "idle"
          \/ /\ run'.comp = run.comp /\ run'.ver = run.ver
             /\ \/ run.pc \in {"stage", "copy"}
                \/ run'.pc = "stage" /\ release[run.comp][run.ver] = "absent"
                \/ run'.pc \in {"previous", "active"}
      BY <2>1, <2>2, ThrowType DEF CheckRelease, BeginStaging, StageRelease, Abort,
         FirstWrite, TypeOK
    <3> QED
      BY <1>1, <3>1 DEF NothingToReplace
  <2>3. CASE InstallRelease \/ WritePreviousVersion \/ WriteActiveVersion
    <3>1. run'.pc \in {"idle", "previous", "previous-retry", "active", "active-retry",
                      "stubs", "resolve"}
      BY <2>1, <2>3, ThrowType DEF InstallRelease, WritePreviousVersion,
         WriteActiveVersion, WriteVersionFile, Abort, FirstWrite, TypeOK
    <3> QED
      BY <3>1 DEF NothingToReplace
  <2>4. CASE ResolveInstallerVersionForPackage \/ Finish \/ EnsureLauncherStub
    BY <2>4, ThrowType DEF ResolveInstallerVersionForPackage, Finish, EnsureLauncherStub,
       Abort, NothingToReplace, TypeOK, Runs
  <2>5. CASE ApplyPackage \/ \E c \in Components : RollbackComponent(c)
    <3>1. ASSUME NEW op, NEW c, NEW v, NEW min, NEW first, Begin(op, c, v, min, first)
          PROVE  run'.pc = first
      BY <3>1 DEF Begin
    <3>2. ASSUME NEW c, run' = [NoRun EXCEPT !.op = "rollback", !.comp = c, !.from = active[c]]
          PROVE  run'.pc = "idle"
      BY <3>2 DEF NoRun
    <3>3. run'.pc \in {"resolve", "previous", "idle"}
      BY <2>5, <3>1, <3>2 DEF ApplyPackage, RollbackComponent
    <3> QED
      BY <3>3 DEF NothingToReplace
  <2>6. CASE Environment
    BY <1>1, <2>6 DEF Environment, Crash, PowerLoss, Damage, NoRun, NothingToReplace
  <2> QED
    BY <1>1, <2>2, <2>3, <2>4, <2>5, <2>6 DEF Next
<1>2. CASE InstallRelease
  <2>1. CASE Throw
    BY <2>1, ThrowType DEF TypeOK, NothingToReplace
  <2>2. CASE Goto(FirstWrite)
    <3>1. run'.pc = FirstWrite
      BY <2>2, GotoFields DEF Onward
    <3> QED
      BY <3>1 DEF FirstWrite, NothingToReplace
  <2> QED
    BY <1>2, <2>1, <2>2 DEF InstallRelease, Abort
<1>3. ASSUME NEW c \in Components, NEW v \in Versions, Damage(c, v)
      PROVE  NothingToReplace'
  BY <1>3 DEF Damage, NothingToReplace, TypeOK
<1>4. CASE UNCHANGED vars
  BY <1>4 DEF vars, NothingToReplace
<1>5. Next => \/ UNCHANGED release \/ InstallRelease
              \/ \E c \in Components, v \in Versions : Damage(c, v)
  BY DEF Next, Environment, Crash, PowerLoss, Finish, EnsureLauncherStub, WritePreviousVersion,
     WriteActiveVersion, StageRelease, BeginStaging, CheckRelease,
     ResolveInstallerVersionForPackage, RollbackComponent, ApplyPackage
<1> QED
  BY <1>1, <1>2, <1>3, <1>4, <1>5

(* No command of the installer replaces or removes a release. *)
THEOREM NoReleaseReplaced == Spec => ReleasesAreKept
<1>1. Init => NothingToReplace
  BY DEF Init, NoRun, NothingToReplace
<1>2. ASSUME TypeOK, NothingToReplace, Next, NEW c \in Components, NEW v \in Versions,
             release[c][v] # "absent", release'[c][v] # release[c][v]
      PROVE  faults' # faults /\ release'[c][v] = "damaged"
  <2>1. CASE InstallRelease
    <3>1. run.comp \in Components /\ run.pc = "install" /\ run.ver \in Versions
      BY <1>2, <2>1 DEF InstallRelease, TypeOK, Runs
    <3>2. release' = [release EXCEPT ![run.comp][run.ver] = "healthy"]
      BY <1>2, <2>1 DEF InstallRelease
    <3>3. c = run.comp /\ v = run.ver
      BY <1>2, <3>1, <3>2 DEF TypeOK
    <3> QED
      BY <1>2, <3>1, <3>3 DEF NothingToReplace
  <2>2. ASSUME NEW d \in Components, NEW w \in Versions, Damage(d, w)
        PROVE  faults' # faults /\ release'[c][v] = "damaged"
    <3>1. faults' # faults
      BY <1>2, <2>2, ConstantsOK DEF Damage, TypeOK
    <3>2. release'[c][v] = "damaged"
      BY <1>2, <2>2 DEF Damage, TypeOK
    <3> QED
      BY <3>1, <3>2
  <2>3. CASE UNCHANGED release
    BY <1>2, <2>3
  <2> QED
    BY <1>2, <2>1, <2>2, <2>3 DEF Next, Environment, Crash, PowerLoss, Finish, EnsureLauncherStub,
       WritePreviousVersion, WriteActiveVersion, StageRelease, BeginStaging, CheckRelease,
       ResolveInstallerVersionForPackage, RollbackComponent, ApplyPackage
<1>3. TypeOK /\ NothingToReplace /\ [Next]_vars =>
        [\A c \in Components, v \in Versions :
           release[c][v] # "absent" /\ release'[c][v] # release[c][v]
             => faults' # faults /\ release'[c][v] = "damaged"]_vars
  BY <1>2
<1>4. IInv => TypeOK
  BY DEF IInv
<1> QED
  BY <1>1, <1>3, <1>4, NothingToReplaceStep, Invariance, PTL DEF Spec, ReleasesAreKept
=============================================================================
