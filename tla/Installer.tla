------------------------------ MODULE Installer ------------------------------
(***************************************************************************)
(* One install root: the releases, version files and launcher stubs of its *)
(* components, the installer that applies packages and rolls back, and the *)
(* launcher that starts what active-version names.                         *)
(*                                                                         *)
(* A step is one change of the file system that a crash can separate from  *)
(* the next. One installer runs on a root at a time; it may be killed at   *)
(* any step and any file operation may throw. What is written is neither   *)
(* flushed with a check nor synced: a write may be lost unnoticed, when it *)
(* is made or when the host loses power.                                   *)
(***************************************************************************)
EXTENDS Naturals, Sequences

CONSTANTS
  Versions,    \* semantic versions, as numbers in their order
  Packages,    \* packages at hand
  MaxFaults,   \* bound: releases damaged, flushes lost, losses of power
  None,        \* no version, file missing
  Torn         \* a file that is there without its content

kManagedComponents == <<"installer", "agent", "server">>
Components == {"installer", "agent", "server"}

ASSUME ConstantsOK ==
  /\ Versions \subseteq Nat
  /\ Packages \subseteq [comp : Components, ver : Versions, min : Nat]
  /\ MaxFaults \in Nat
  /\ None \notin Versions /\ Torn \notin Versions /\ None # Torn

VARIABLES
  release,   \* release[c][v]: directory releases/<v>
  staging,   \* staging[c][v]: directory .staging/<v>
  active,    \* var/active-version
  previous,  \* var/previous-version
  stub,      \* bin/zfleet_<c>: the installer release it was copied from
  run,       \* the installer process, or what its last run reported
  faults     \* how many of what MaxFaults bounds there were

vars == <<release, staging, active, previous, stub, run, faults>>

VersionOrNone == Versions \cup {None}
Contents == Versions \cup {None, Torn}   \* of a version file or a stub

Runs == [pc : {"idle", "resolve", "check", "stage", "copy", "install",
               "previous", "previous-retry", "active", "active-retry", "stubs"},
         op : {"none", "apply", "rollback"},
         comp : Components,
         ver : VersionOrNone,       \* the version to switch to
         min : Nat,                 \* min_installer_version
         healthy : BOOLEAN,         \* what InspectActiveRelease found,
         from : Contents,           \*   and active-version then
         template : VersionOrNone,  \* installer release to copy stubs from
         todo : Seq(Components),    \* stubs still to refresh
         lost : BOOLEAN,            \* a flush of this run was lost
         ok : BOOLEAN]

TypeOK ==
  /\ release \in [Components -> [Versions -> {"absent", "healthy", "damaged"}]]
  /\ staging \in [Components -> [Versions -> {"absent", "partial", "complete"}]]
  /\ active \in [Components -> Contents]
  /\ previous \in [Components -> Contents]
  /\ stub \in [Components -> Contents]
  /\ run \in Runs /\ (run.pc # "idle" => run.op # "none" /\ run.ver \in Versions)
  /\ faults \in 0..MaxFaults

NoRun == [pc |-> "idle", op |-> "none", comp |-> "installer", ver |-> None,
          min |-> 0, healthy |-> FALSE, from |-> None, template |-> None,
          todo |-> <<>>, lost |-> FALSE, ok |-> FALSE]

Init ==
  /\ release = [c \in Components |-> [v \in Versions |-> "absent"]]
  /\ staging = [c \in Components |-> [v \in Versions |-> "absent"]]
  /\ active = [c \in Components |-> None]
  /\ previous = [c \in Components |-> None]
  /\ stub = [c \in Components |-> None]
  /\ run = NoRun
  /\ faults = 0

Healthy(c, v) == v \in Versions /\ release[c][v] = "healthy"

(* InspectActiveRelease, as far as its callers tell its results apart. *)
ActiveHealthy(c) == Healthy(c, active[c])

StubsOfMutant(c) == <<c>>   \* an installer forgets the other components

StubsOf(c) == IF c = "installer" THEN kManagedComponents ELSE <<c>>

(* An exception: the run ends and reports a failure. *)
Throw == run' = [run EXCEPT !.pc = "idle", !.ok = FALSE, !.todo = <<>>]

(* The same once staging began; apply then removes the staging directory.  *)
Abort ==
  /\ Throw
  /\ staging' = IF run.op = "apply"
                THEN [staging EXCEPT ![run.comp][run.ver] = "absent"]
                ELSE staging

Goto(pc) == run' = [run EXCEPT !.pc = pc]

(* ShouldRecordPreviousVersion: where SwitchActiveVersion begins. *)
FirstWrite ==
  IF run.healthy /\ run.from # run.ver THEN "previous" ELSE "active"

----------------------------------------------------------------------------
(* The beginning of each command, up to the first call that can throw.     *)

Begin(op, c, v, min, first) ==
  run' = [pc |-> first, op |-> op, comp |-> c, ver |-> v, min |-> min,
          healthy |-> ActiveHealthy(c), from |-> active[c],
          template |-> None, todo |-> StubsOf(c), lost |-> FALSE, ok |-> FALSE]

ApplyPackage ==
  /\ run.pc = "idle"
  /\ \E p \in Packages : Begin("apply", p.comp, p.ver, p.min, "resolve")
  /\ UNCHANGED <<release, staging, active, previous, stub, faults>>

CanRollBackMutant(c) ==   \* takes whatever previous-version says
  /\ ActiveHealthy(c)
  /\ previous[c] # active[c]

(* Every early return of the rollback of c, in one condition. *)
CanRollBack(c) ==
  /\ ActiveHealthy(c)
  /\ previous[c] # active[c]
  /\ Healthy(c, previous[c])

RollbackComponent(c) ==
  /\ run.pc = "idle"
  /\ IF CanRollBack(c)
     THEN Begin("rollback", c, previous[c], 0, "previous")
     ELSE run' = [NoRun EXCEPT !.op = "rollback", !.comp = c, !.from = active[c]]
  /\ UNCHANGED <<release, staging, active, previous, stub, faults>>

ResolveMutant ==   \* takes any installer for new enough
  /\ run.pc = "resolve"
  /\ \/ /\ run.comp = "installer" \/ ActiveHealthy("installer")
        /\ run' = [run EXCEPT
             !.template = IF run.comp = "installer" THEN run.ver ELSE active["installer"],
             !.pc = IF run.op = "apply" THEN "check" ELSE "stubs"]
     \/ run.comp # "installer" /\ ~ActiveHealthy("installer") /\ Throw
  /\ UNCHANGED <<release, staging, active, previous, stub, faults>>

(* An apply needs a healthy and recent enough active installer before it   *)
(* touches anything; a rollback asks only after the switch.                *)
ResolveInstallerVersionForPackage ==
  /\ run.pc = "resolve"
  /\ LET enough == \/ run.comp = "installer"
                   \/ ActiveHealthy("installer") /\ run.min <= active["installer"]
     IN  \/ /\ enough
            /\ run' = [run EXCEPT
                 !.template = IF run.comp = "installer" THEN run.ver
                                                        ELSE active["installer"],
                 !.pc = IF run.op = "apply" THEN "check" ELSE "stubs"]
         \/ ~enough /\ Throw
  /\ UNCHANGED <<release, staging, active, previous, stub, faults>>

----------------------------------------------------------------------------
(* A release that is there is checked and used; it is never replaced.      *)

CheckReleaseMutant ==   \* clears the way and installs again
  /\ run.pc = "check"
  /\ release' = [release EXCEPT ![run.comp][run.ver] = "absent"]
  /\ Goto("stage")
  /\ UNCHANGED <<staging, active, previous, stub, faults>>

CheckRelease ==
  /\ run.pc = "check"
  /\ \/ release[run.comp][run.ver] = "absent" /\ Goto("stage")
     \/ release[run.comp][run.ver] = "healthy" /\ Goto(FirstWrite)
     \/ release[run.comp][run.ver] = "damaged" /\ Throw
  /\ UNCHANGED <<release, staging, active, previous, stub, faults>>

(* StageRelease clears the directory, and then copies and verifies file by *)
(* file; the package may turn out to be bad at any of them.                *)
BeginStaging ==
  /\ run.pc = "stage"
  /\ staging' = [staging EXCEPT ![run.comp][run.ver] = "partial"]
  /\ Goto("copy")
  /\ UNCHANGED <<release, active, previous, stub, faults>>

StageRelease ==
  /\ run.pc = "copy"
  /\ \/ /\ staging' = [staging EXCEPT ![run.comp][run.ver] = "complete"]
        /\ Goto("install")
     \/ Abort
  /\ UNCHANGED <<release, active, previous, stub, faults>>

InstallReleaseMutant ==   \* switches without having moved the directory
  /\ run.pc = "install"
  /\ Goto(FirstWrite)
  /\ UNCHANGED <<release, staging, active, previous, stub, faults>>

InstallRelease ==
  /\ run.pc = "install"
  /\ \/ /\ release' = [release EXCEPT ![run.comp][run.ver] = "healthy"]
        /\ staging' = [staging EXCEPT ![run.comp][run.ver] = "absent"]
        /\ Goto(FirstWrite)
     \/ Abort /\ UNCHANGED release
  /\ UNCHANGED <<active, previous, stub, faults>>

----------------------------------------------------------------------------
(* WriteVersionFile: written aside and renamed. When the rename fails, the *)
(* file is removed (that may fail unnoticed), and the rename tried again.  *)
(* WriteTextFile looks at its stream before the buffer is flushed: when    *)
(* only the flush fails, an empty file is renamed and the run goes on.     *)
WriteVersionFile(file, newFile, version, first, retry, next) ==
  \/ /\ run.pc \in {first, retry}
     /\ newFile = [file EXCEPT ![run.comp] = version]
     /\ Goto(next)
     /\ UNCHANGED <<staging, faults>>
  \/ /\ run.pc \in {first, retry}
     /\ faults < MaxFaults /\ faults' = faults + 1
     /\ newFile = [file EXCEPT ![run.comp] = Torn]
     /\ run' = [run EXCEPT !.pc = next, !.lost = TRUE]
     /\ UNCHANGED staging
  \/ /\ run.pc = first
     /\ newFile \in {file, [file EXCEPT ![run.comp] = None]}
     /\ Goto(retry)
     /\ UNCHANGED <<staging, faults>>
  \/ /\ run.pc \in {first, retry}
     /\ newFile = file
     /\ Abort
     /\ UNCHANGED faults

WritePreviousMutant ==   \* remembers the new version, not the old one
  /\ WriteVersionFile(previous, previous', run.ver,
                      "previous", "previous-retry", "active")
  /\ UNCHANGED <<release, active, stub>>

(* The first write of a switch, in apply and in rollback. *)
WritePreviousVersion ==
  /\ WriteVersionFile(previous, previous', run.from,
                      "previous", "previous-retry", "active")
  /\ UNCHANGED <<release, active, stub>>

(* The second. *)
WriteActiveVersion ==
  /\ WriteVersionFile(active, active', run.ver, "active", "active-retry",
                      IF run.op = "apply" THEN "stubs" ELSE "resolve")
  /\ UNCHANGED <<release, previous, stub>>

(* EnsureLauncherStub overwrites the stub in place: it is torn until the   *)
(* copy ends. It throws if the launcher asset is gone or the stub is busy. *)
EnsureLauncherStub ==
  /\ run.pc = "stubs" /\ run.todo # <<>>
  /\ LET c == Head(run.todo)
     IN  \/ stub[c] # Torn /\ stub' = [stub EXCEPT ![c] = Torn]
            /\ UNCHANGED <<staging, run>>
         \/ stub[c] = Torn /\ stub' = [stub EXCEPT ![c] = run.template]
            /\ run' = [run EXCEPT !.todo = Tail(@)] /\ UNCHANGED staging
         \/ Abort /\ UNCHANGED stub
  /\ UNCHANGED <<release, active, previous, faults>>

Finish ==
  /\ run.pc = "stubs" /\ run.todo = <<>>
  /\ run' = [run EXCEPT !.pc = "idle", !.ok = TRUE]
  /\ UNCHANGED <<release, staging, active, previous, stub, faults>>

----------------------------------------------------------------------------
(* The launcher, and what happens to the root from outside.                *)

(* ResolveLaunchTarget: what the launcher of c would start. It looks at    *)
(* the program only, so a damaged release may start or not.                *)
LaunchTargets(c) ==
  IF active[c] \notin Versions \/ release[c][active[c]] = "absent" THEN {}
  ELSE IF release[c][active[c]] = "damaged" THEN {active[c], None}
  ELSE {active[c]}

(* The installer is killed: nothing is cleaned up. *)
Crash ==
  /\ run.pc # "idle"
  /\ run' = NoRun
  /\ UNCHANGED <<release, staging, active, previous, stub, faults>>

(* The host loses power. The renames that reached the disk are a prefix of *)
(* those made, as after a Crash, but a file may have lost its content.     *)
PowerLoss ==
  LET Kept(file) == {[c \in Components |-> IF c \in gone THEN Torn ELSE file[c]] :
                       gone \in SUBSET {c \in Components : file[c] # None}}
  IN  /\ faults < MaxFaults /\ faults' = faults + 1
      /\ run' = NoRun
      /\ active' \in Kept(active) /\ previous' \in Kept(previous)
      /\ stub' \in Kept(stub)
      /\ UNCHANGED <<release, staging>>

(* A file of a release is lost or altered on disk.                         *)
Damage(c, v) ==
  /\ faults < MaxFaults
  /\ release[c][v] = "healthy"
  /\ release' = [release EXCEPT ![c][v] = "damaged"]
  /\ faults' = faults + 1
  /\ UNCHANGED <<staging, active, previous, stub, run>>

Environment ==
  \/ Crash \/ PowerLoss
  \/ \E c \in Components, v \in Versions : Damage(c, v)

Next ==
  \/ ApplyPackage
  \/ \E c \in Components : RollbackComponent(c)
  \/ ResolveInstallerVersionForPackage
  \/ CheckRelease \/ BeginStaging \/ StageRelease \/ InstallRelease
  \/ WritePreviousVersion \/ WriteActiveVersion
  \/ EnsureLauncherStub \/ Finish
  \/ Environment

Spec == Init /\ [][Next]_vars

----------------------------------------------------------------------------
(* A version a version file names is a release that is there, wherever the *)
(* installer stops and whatever writes are lost: what active-version tells *)
(* the launcher to start was installed as a whole, and so was what a       *)
(* rollback would go back to. (A file whose write was lost names none.)    *)
VersionFilesNameReleases ==
  \A c \in Components :
    /\ active[c] \in Versions => active[c] \in LaunchTargets(c)
    /\ previous[c] \in Versions => release[c][previous[c]] # "absent"

(* Before the installer takes a healthy version out of active-version, or  *)
(* removes that file to rewrite it, previous-version names that version: a *)
(* kill at any step leaves the version that worked named on disk, and so   *)
(* does a lost write of active-version itself. (Unless it is the version   *)
(* being applied again: then it is not recorded.) The premises left out    *)
(* are a run that lost its write of previous-version and a loss of power,  *)
(* the only step besides a kill that ends in NoRun. *)
WorkingVersionKept ==
  [][\A c \in Components :
       (/\ active[c] \in Versions /\ active'[c] # active[c]
        /\ run.healthy /\ ~run.lost /\ run' # NoRun)
         => active[c] \in {previous[c], run.ver}]_vars

(* No run replaces or removes a release, so none disturbs the programs that *)
(* were started from it (docs/adr/0006, decision 4). *)
ReleasesAreKept ==
  [][\A c \in Components, v \in Versions :
       release[c][v] # "absent" /\ release'[c][v] # release[c][v]
         => faults' # faults /\ release'[c][v] = "damaged"]_vars

(* Apply switches agent or server to a package only while an installer     *)
(* release that satisfies its min_installer_version is active. *)
MinInstallerRespected ==
  [][\A c \in {"agent", "server"} :
       (run.op = "apply" /\ active'[c] \in Versions \ {active[c]})
         => (active["installer"] \in Versions /\ run.min <= active["installer"])]_vars

(* The switch a command reports is on disk: its version is active, and the *)
(* healthy version it replaced is the previous one. *)
SwitchRecorded ==
  /\ active[run.comp] = run.ver
  /\ run.healthy /\ run.from # run.ver => previous[run.comp] = run.from

(* A command that reports success, and lost none of its writes, has done   *)
(* all it promises: its switch is recorded, and every stub it answers for  *)
(* is whole and comes from the active installer. *)
SuccessIsComplete ==
  run.pc = "idle" /\ run.ok /\ ~run.lost =>
    /\ SwitchRecorded
    /\ \A c \in Components :
         c = run.comp \/ run.comp = "installer" => stub[c] = active["installer"]
=============================================================================
