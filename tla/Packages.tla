------------------------------ MODULE Packages ------------------------------
(***************************************************************************)
(* The way of a package: the packager builds an archive of a payload, an   *)
(* administrator uploads it to the management server, which validates it   *)
(* and keeps it in its repository, publishes it in a channel and retires   *)
(* it; a machine asks for the packages to install, downloads what it was   *)
(* offered and unpacks it.                                                 *)
(*                                                                         *)
(* The handlers of the management server run on one thread (io_threads of  *)
(* AdminHttpServerOptions, which main.cpp leaves at 1); what happens in    *)
(* between is the end of the process, a failed write of the database, and  *)
(* a file of the repository that is lost or damaged.                       *)
(***************************************************************************)
EXTENDS Integers, Sequences, FiniteSets, SequencesExt

CONSTANTS
  Uploads,      \* uploads, numbered; the package gets the same number
  Targets,      \* what the packager is asked to pack: component, version, min
  Contents, Built,   \* what the payload's file may hold, and held when hashed
  Channels,
  Cuts,         \* blocks that may be written of an archive when it is read
  MaxPacks, MaxCrashes, MaxDamages,   \* bounds on what may happen
  Unreadable, Nil

ASSUME PackageConstants ==
  /\ Uploads \subseteq Nat \ {0} /\ Nil \notin Uploads
  /\ Contents \subseteq Nat /\ Built \in Contents
  /\ \A t \in Targets : t.version \in Nat /\ t.min \in Nat
  /\ Cuts \subseteq 0..5   \* of the five blocks of an archive of two files
  /\ MaxPacks \in Nat /\ MaxCrashes \in Nat /\ MaxDamages \in Nat

INSTANCE Archive

VARIABLES
  \* packager
  dist,      \* the archive under its final name, and whether it is complete
  packs,
  \* management sessions and the thread they share
  upload,    \* upload[u]: the session of an upload
  response,  \* response[u]: status of its answer, 0 for none
  thread,    \* the upload that is being committed, or Nil
  crashes,
  \* files
  staged,    \* uploads with a file in .staging
  stored,    \* stored[p]: the file of p in the repository, or Nil
  damaged,   \* packages whose file was lost or damaged in the repository
  \* database
  rows,      \* agent_packages
  pubs,      \* package_publications
  \* a machine
  offers,    \* the packages it was offered last, with their SHA-256
  installed  \* what it made of its last download, or Nil

packVars == <<dist, packs>>
sessionVars == <<upload, response, thread>>
fileVars == <<staged, stored, damaged>>
dbVars == <<rows, pubs>>
clientVars == <<offers, installed>>
vars == <<packVars, sessionVars, crashes, fileVars, dbVars, clientVars>>

PayloadPath == 1

(* The file name of an archive (ArchivePath); platform, architecture and    *)
(* build type are the same for all.                                        *)
NameOf(m) == [component |-> m.component, version |-> m.version]

Names == {NameOf(t) : t \in Targets}

NoRow == [status |-> "none", name |-> Nil, min |-> 0, sha |-> <<>>]

NoUpload == [at |-> "new", name |-> Nil, file |-> <<>>]

TypeOK ==
  /\ dist.name \in Names \cup {Nil}
  /\ packs \in 0..MaxPacks /\ crashes \in 0..MaxCrashes
  /\ damaged \subseteq Uploads /\ Cardinality(damaged) <= MaxDamages
  /\ \A u \in Uploads :
       /\ upload[u].at \in {"new", "receiving", "moved", "uploaded",
                            "responding", "closed"}
       /\ thread = u <=> upload[u].at \in {"moved", "uploaded"}
       /\ response[u] \in {0, 201, 400, 408}
       /\ rows[u].status \in
            {"none", "uploaded", "validated", "published", "retired", "rejected"}
       /\ stored[u] = Nil \/ \A b \in ToSet(stored[u]) :
                                b.kind \in {"file", "entry", "end", "torn"}
  /\ thread \in Uploads \cup {Nil}
  /\ staged \subseteq Uploads
  /\ \A pub \in pubs :
       pub.package \in Uploads /\ pub.channel \in Channels /\ pub.isDefault \in BOOLEAN
  /\ \A o \in offers : o.package \in Uploads
  /\ installed = Nil \/ installed.package \in Uploads

Init ==
  /\ dist = [name |-> Nil, dir |-> <<>>, done |-> FALSE]
  /\ packs = 0 /\ crashes = 0 /\ damaged = {}
  /\ upload = [u \in Uploads |-> NoUpload]
  /\ response = [u \in Uploads |-> 0]
  /\ thread = Nil
  /\ staged = {} /\ stored = [u \in Uploads |-> Nil]
  /\ rows = [u \in Uploads |-> NoRow] /\ pubs = {}
  /\ offers = {} /\ installed = Nil

----------------------------------------------------------------------------
(* CollectPayloadFiles hashes the files of the payload where they are. *)
CollectPayloadFiles(content) == [path \in {PayloadPath} |-> content]

BuildManifestJson(target, files) ==
  [component |-> target.component, version |-> target.version, min |-> target.min,
   files |-> files]

(* CopyPayloadFiles copies them later, when a build may have changed them, *)
(* and BuildManifestJson gives the hashes from before.                     *)
PackToDirectory(target, hashed, copied) ==
  [path \in {ManifestPath, PayloadPath} |->
     IF path = ManifestPath
     THEN BuildManifestJson(target, CollectPayloadFiles(hashed)) ELSE copied]

(* The packager has the directory and opens the archive.  One before it    *)
(* may have been killed while it wrote.  Nothing is packed that nobody     *)
(* will upload.                                                            *)
Pack(target, copied) ==
  /\ packs < MaxPacks /\ \E u \in Uploads : upload[u].at = "new"
  /\ packs' = packs + 1
  /\ dist' = [name |-> NameOf(target), dir |-> PackToDirectory(target, Built, copied),
              done |-> FALSE]
  /\ UNCHANGED <<sessionVars, crashes, fileVars, dbVars, clientVars>>

(* CreateArchive has written the last block. *)
CreateArchive ==
  /\ dist.name # Nil /\ ~dist.done /\ \E u \in Uploads : upload[u].at = "new"
  /\ dist' = [dist EXCEPT !.done = TRUE]
  /\ UNCHANGED <<packs, sessionVars, crashes, fileVars, dbVars, clientVars>>

(* What one who reads the archive finds. *)
ArchiveNow ==
  IF dist.done THEN {Blocks(dist.dir)} ELSE {Written(dist.dir, n) : n \in Cuts}

PackagerStep ==
  \/ \E target \in Targets, copied \in Contents : Pack(target, copied)
  \/ CreateArchive

----------------------------------------------------------------------------
(* ValidateAgentPackageUpload: the metadata of a package file that passes. *)
ManifestOf(file) == ReadArchiveFile(file, ManifestPath)

ValidateManifestFileMutant(file, manifest, path) ==   \* the hash is not compared
  ReadArchiveFile(file, path) # Unreadable

ValidateManifestFile(file, manifest, path) ==
  ReadArchiveFile(file, path) = manifest.files[path]

IsSupportedPackageComponent(component) == component \in {"agent", "installer"}

ValidateAgentPackageUpload(file) ==
  LET manifest == ManifestOf(file)
  IN  IF /\ manifest # Unreadable
         /\ IsSupportedPackageComponent(manifest.component)
         /\ \A path \in DOMAIN manifest.files : ValidateManifestFile(file, manifest, path)
      THEN [name |-> NameOf(manifest), min |-> manifest.min, sha |-> file]
      ELSE Unreadable

Changed(file, content) ==
  [i \in DOMAIN file |->
     IF file[i].kind = "file" /\ file[i].path = PayloadPath
     THEN [file[i] EXCEPT !.data = content] ELSE file[i]]

(* Every file there may be: an archive, what there is of one that is being *)
(* written, and one in which the data of the payload was changed.          *)
Files ==
  LET dirs == {PackToDirectory(t, Built, c) : t \in Targets, c \in Contents}
  IN  {<<Torn>>}
        \cup {Changed(Blocks(dir), c) : dir \in dirs, c \in Contents}
        \cup {Written(dir, n) : dir \in dirs, n \in Cuts}

(* What the server and a machine make of each of them. *)
Metadata == [file \in Files |-> ValidateAgentPackageUpload(file)]
Unpacked == [file \in Files |-> ExtractArchive(file)]

(* What a reader throws is none of the values it returns. *)
ASSUME UnreadableIsNoValue ==
  /\ Unreadable \notin Contents
  /\ Unreadable # {ManifestPath, PayloadPath}
  /\ \A t \in Targets, c \in Contents : Unreadable # PackToDirectory(t, Built, c)

(* A file in the repository passes under a name. *)
Passes(file, name) ==
  file # Nil /\ Metadata[file] # Unreadable /\ name = Metadata[file].name

----------------------------------------------------------------------------
(* An upload.  The client reads the archive that is in dist when it starts *)
(* and may give it a name that is not its own (Nil).                       *)
OpenStagingFile(u, name) ==
  /\ thread = Nil
  /\ upload[u].at = "new" /\ \A v \in Uploads : v < u => upload[v].at # "new"
  /\ dist.name # Nil
  /\ name \in {dist.name, Nil}
  /\ \E file \in ArchiveNow :
       upload' = [upload EXCEPT ![u] = [at |-> "receiving", name |-> name,
                                        file |-> file]]
  /\ staged' = staged \cup {u}
  /\ UNCHANGED <<packVars, response, thread, crashes, stored, damaged, dbVars,
                 clientVars>>

(* Only the first answer counts; the session then writes it and closes. *)
Respond(u, status, file) ==
  /\ upload' = [upload EXCEPT ![u] = [at |-> "responding", name |-> Nil,
                                      file |-> file]]
  /\ response' = [response EXCEPT ![u] = IF @ = 0 THEN status ELSE @]
  /\ thread' = Nil

(* The body stops short of its end: the connection breaks (400), or the    *)
(* timer of the request fires (408), which stands for the limit of the     *)
(* body (413) and a staging file that cannot be written (500) too.         *)
Refuse(u) ==
  /\ thread = Nil /\ upload[u].at = "receiving"
  /\ \E status \in {400, 408} : Respond(u, status, upload[u].file)
  /\ UNCHANGED <<packVars, crashes, fileVars, dbVars, clientVars>>

SafePackageStoragePathMutant(u) == 1   \* a name that is not the package's own

SafePackageStoragePath(u) == u

CommitOn(u) ==
  IF upload[u].file = <<>>
  THEN /\ staged' = staged \ {u}
       /\ Respond(u, 400, <<>>)
       /\ UNCHANGED stored
  ELSE /\ \E file \in {upload[u].file, <<Torn>>} :
            stored' = [stored EXCEPT ![SafePackageStoragePath(u)] = file]
       /\ staged' = staged \ {u}
       /\ upload' = [upload EXCEPT ![u] = [at |-> "moved", name |-> @.name,
                                           file |-> <<>>]]
       /\ thread' = u
       /\ UNCHANGED response

CommitMutant(u) ==   \* on another thread, while an upload is being committed
  CommitOn(u) /\ UNCHANGED <<packVars, crashes, damaged, dbVars, clientVars>>

(* The body is complete, the commit begins and puts the file into the      *)
(* repository.  Closing the staging file is not checked, so what is in it  *)
(* may be less than what was received.                                     *)
Commit(u) ==
  /\ thread = Nil /\ CommitOn(u)
  /\ UNCHANGED <<packVars, crashes, damaged, dbVars, clientVars>>

OnBodyChunkMutant(u) ==   \* goes on when the answer is already on its way
  /\ upload[u].at \in {"receiving", "responding"} /\ u \in staged
  /\ Commit(u)

(* The last chunk of the body. *)
OnBodyChunk(u) == upload[u].at = "receiving" /\ Commit(u)

(* UpsertAgentPackage, which replaces the row. *)
UpsertAgentPackage(p, row) == rows' = [rows EXCEPT ![p] = row]

Row(status, metadata) ==
  [status |-> status, name |-> metadata.name, min |-> metadata.min,
   sha |-> metadata.sha]

(* An exception of the commit; the staging file is no longer there. *)
CommitFails(u) == Respond(u, 400, <<>>) /\ UNCHANGED <<rows, stored>>

(* The moved file is validated and its row written. *)
CommitUploaded(u) ==
  LET file == stored[SafePackageStoragePath(u)]
      ok == Passes(file, upload[u].name)
  IN  /\ thread = u /\ upload[u].at = "moved"
      /\ \/ /\ ok
            /\ UpsertAgentPackage(u, Row("uploaded", Metadata[file]))
            /\ upload' = [upload EXCEPT ![u].at = "uploaded"]
            /\ UNCHANGED <<response, thread, stored>>
         \/ CommitFails(u)   \* not ok, or the write failed
      /\ UNCHANGED <<packVars, crashes, staged, damaged, pubs, clientVars>>

(* The row once more, as validated, then the audit event.  A failed write  *)
(* of either is answered with 400.                                         *)
CommitValidated(u) ==
  /\ thread = u /\ upload[u].at = "uploaded"
  /\ \/ \E status \in {201, 400} :
          /\ UpsertAgentPackage(u, [rows[u] EXCEPT !.status = "validated"])
          /\ Respond(u, status, <<>>)
          /\ UNCHANGED stored
     \/ CommitFails(u)
  /\ UNCHANGED <<packVars, crashes, staged, damaged, pubs, clientVars>>

CloseMutant(u) ==   \* the staging file is left
  /\ thread = Nil /\ upload[u].at = "responding"
  /\ upload' = [upload EXCEPT ![u] = [at |-> "closed", name |-> Nil, file |-> <<>>]]
  /\ UNCHANGED <<packVars, response, thread, crashes, fileVars, dbVars, clientVars>>

(* The answer is written, or cannot be: the session ends. *)
Close(u) ==
  /\ thread = Nil /\ upload[u].at = "responding"
  /\ upload' = [upload EXCEPT ![u] = [at |-> "closed", name |-> Nil, file |-> <<>>]]
  /\ staged' = staged \ {u}
  /\ UNCHANGED <<packVars, response, thread, crashes, stored, damaged, dbVars,
                 clientVars>>

SessionStep(u) ==
  OnBodyChunk(u) \/ Refuse(u) \/ CommitUploaded(u) \/ CommitValidated(u) \/ Close(u)

(* The server is killed and started again: sessions are gone, files and    *)
(* rows stay as they are.                                                  *)
Crash ==
  /\ crashes < MaxCrashes
  /\ crashes' = crashes + 1
  /\ upload' = [u \in Uploads |->
                  IF upload[u].at = "new" THEN upload[u]
                  ELSE [at |-> "closed", name |-> Nil, file |-> <<>>]]
  /\ thread' = Nil
  /\ UNCHANGED <<packVars, response, fileVars, dbVars, clientVars>>

----------------------------------------------------------------------------
(* The administrator's requests; each is one handler on the thread. *)
ValidateMutant(p) ==   \* a retired package is validated again
  LET file == stored[SafePackageStoragePath(p)]
  IN  /\ thread = Nil /\ rows[p].status # "none"
      /\ \/ /\ Passes(file, rows[p].name)
            /\ UpsertAgentPackage(p, Row("validated", Metadata[file]))
         \/ UpsertAgentPackage(p, [rows[p] EXCEPT !.status = "rejected"])
      /\ UNCHANGED <<packVars, sessionVars, crashes, fileVars, pubs, clientVars>>

(* Any package that is not retired is validated again, a published one     *)
(* too; a file that does not pass, or a failed write, rejects it.          *)
Validate(p) ==
  LET file == stored[SafePackageStoragePath(p)]
  IN  /\ thread = Nil /\ rows[p].status \notin {"none", "retired"}
      /\ \/ /\ Passes(file, rows[p].name)
            /\ UpsertAgentPackage(p, Row("validated", Metadata[file]))
         \/ UpsertAgentPackage(p, [rows[p] EXCEPT !.status = "rejected"])
      /\ UNCHANGED <<packVars, sessionVars, crashes, fileVars, pubs, clientVars>>

(* The publications of a slot, a component in a channel. *)
InSlot(pub, component, channel) ==
  pub.component = component /\ pub.channel = channel

Publication(p, component, channel, isDefault) ==
  [package |-> p, component |-> component, channel |-> channel,
   isDefault |-> isDefault]

(* One transaction: the default of the slot moves. *)
PublishAgentPackage(p, component, channel) ==
  LET cleared == {IF InSlot(pub, component, channel)
                  THEN [pub EXCEPT !.isDefault = FALSE] ELSE pub : pub \in pubs}
      others == {pub \in cleared : pub.package # p \/ pub.channel # channel}
  IN  pubs' = others \cup {Publication(p, component, channel, TRUE)}

Publish(p, channel) ==
  /\ thread = Nil /\ rows[p].status \in {"validated", "published"}
  /\ PublishAgentPackage(p, rows[p].name.component, channel)
  /\ rows' = [rows EXCEPT ![p].status = "published"]
  /\ UNCHANGED <<packVars, sessionVars, crashes, fileVars, clientVars>>

RetireMutant(p) ==   \* its publications are left as they are
  /\ thread = Nil /\ rows[p].status # "none"
  /\ rows' = [rows EXCEPT ![p].status = "retired"]
  /\ UNCHANGED <<packVars, sessionVars, crashes, fileVars, pubs, clientVars>>

(* One transaction: the package is retired in whatever state it is, and    *)
(* is the default of no slot any more.                                     *)
Retire(p) ==
  /\ thread = Nil /\ rows[p].status # "none"
  /\ rows' = [rows EXCEPT ![p].status = "retired"]
  /\ pubs' = {IF pub.package = p THEN [pub EXCEPT !.isDefault = FALSE] ELSE pub :
                pub \in pubs}
  /\ UNCHANGED <<packVars, sessionVars, crashes, fileVars, clientVars>>

FindDefaultPublishedAgentPackage(component, channel) ==
  {p \in Uploads : /\ rows[p].status = "published"
                   /\ Publication(p, component, channel, TRUE) \in pubs}

----------------------------------------------------------------------------
(* A machine is offered packages, and begins a new installation. *)
Offer(packages) ==
  /\ offers' = {[package |-> p, sha |-> rows[p].sha] : p \in packages}
  /\ installed' = Nil

(* GET /api/v1/install/options; any other answer than 200 leaves the       *)
(* machine with what it has.                                               *)
InstallOptions(channel) ==
  /\ thread = Nil
  /\ \E agent \in FindDefaultPublishedAgentPackage("agent", channel),
        installer \in FindDefaultPublishedAgentPackage("installer", channel) :
       /\ rows[installer].name.version >= rows[agent].min
       /\ Offer({agent, installer})
  /\ UNCHANGED <<packVars, sessionVars, crashes, fileVars, dbVars>>

(* The order of ListAgentPackages, which gives the newest upload first;    *)
(* uploads are numbered as they start, which may differ for two under way  *)
(* at once.                                                                *)
ListedBefore(p, q) == p > q

Candidate(p, min) ==
  /\ rows[p].status = "published" /\ rows[p].name.component = "installer"
  /\ rows[p].name.version >= min

(* The highest version, the last in the list of equal ones. *)
FindCompatibleInstallerPackage(min) ==
  LET found == {p \in Uploads : Candidate(p, min)}
  IN  {p \in found : \A q \in found \ {p} :
         \/ rows[p].name.version > rows[q].name.version
         \/ rows[p].name.version = rows[q].name.version /\ ListedBefore(q, p)}

(* POST /api/v1/agents/<id>/upgrade: the tasks of the upgrade carry the    *)
(* packages' SHA-256.  An agent package that is not retired will do.       *)
ScheduleUpgrade(p) ==
  /\ thread = Nil
  /\ rows[p].status \notin {"none", "retired"} /\ rows[p].name.component = "agent"
  /\ \E installer \in FindCompatibleInstallerPackage(rows[p].min) : Offer({p, installer})
  /\ UNCHANGED <<packVars, sessionVars, crashes, fileVars, dbVars>>

DownloadMutant(o) ==   \* what was downloaded is not compared with the offer
  /\ thread = Nil
  /\ LET file == stored[SafePackageStoragePath(o.package)]
     IN  /\ file # Nil /\ Unpacked[file] # Unreadable
         /\ installed' = [package |-> o.package, dir |-> Unpacked[file]]
  /\ UNCHANGED <<packVars, sessionVars, crashes, fileVars, dbVars, offers>>

(* GET /api/v1/packages/<component>/<id>/download, whatever the status of  *)
(* the package, and the client: it compares the SHA-256 with the offer's   *)
(* and unpacks.  A download that fails leaves what there is.               *)
Download(o) ==
  /\ thread = Nil
  /\ LET file == stored[SafePackageStoragePath(o.package)]
     IN  /\ file # Nil /\ file = o.sha
         /\ Unpacked[file] # Unreadable
         /\ installed' = [package |-> o.package, dir |-> Unpacked[file]]
  /\ UNCHANGED <<packVars, sessionVars, crashes, fileVars, dbVars, offers>>

AdminStep ==
  \/ \E p \in Uploads : Validate(p) \/ Retire(p) \/ ScheduleUpgrade(p)
  \/ \E p \in Uploads, channel \in Channels : Publish(p, channel)
  \/ \E channel \in Channels : InstallOptions(channel)
  \/ \E o \in offers : Download(o)

(* A package's file in the repository is lost, or the data of its payload  *)
(* is changed.                                                             *)
Damage(p) ==
  /\ rows[p].status # "none" /\ stored[p] # Nil
  /\ Cardinality(damaged) < MaxDamages
  /\ \/ stored' = [stored EXCEPT ![p] = Nil]
     \/ \E content \in Contents :
          /\ Unpacked[stored[p]] # Unreadable
          /\ Unpacked[stored[p]][PayloadPath] # content
          /\ stored' = [stored EXCEPT ![p] = Changed(stored[p], content)]
  /\ damaged' = damaged \cup {p}
  /\ UNCHANGED <<packVars, sessionVars, crashes, staged, dbVars, clientVars>>

Next ==
  \/ PackagerStep
  \/ \E u \in Uploads, name \in Names \cup {Nil} : OpenStagingFile(u, name)
  \/ \E u \in Uploads : SessionStep(u)
  \/ AdminStep
  \/ Crash
  \/ \E p \in Uploads : Damage(p)

(* The server's thread runs, and the timer of a request ends one that does *)
(* not come to its end; nobody has to pack, upload or ask.                 *)
Spec == Init /\ [][Next]_vars /\ \A u \in Uploads : WF_vars(SessionStep(u))

----------------------------------------------------------------------------
(* What an unpacked package must have: its manifest, and the files that    *)
(* names with the hashes it gives. ValidateAgentPackageUpload looks at     *)
(* these only; an entry the manifest does not name would pass, and it is   *)
(* the packager that writes none.                                          *)
Whole(dir, name) ==
  LET manifest == dir[ManifestPath]
  IN  /\ {ManifestPath} \cup DOMAIN manifest.files \subseteq DOMAIN dir
      /\ NameOf(manifest) = name
      /\ \A path \in DOMAIN manifest.files : dir[path] = manifest.files[path]

(* A row of agent_packages stands for a whole package, under its own name: *)
(* not for an archive the packager was still writing, for a payload that   *)
(* was built anew while it was packed, or for another file's name.         *)
RowsAreWhole ==
  \A p \in Uploads : rows[p].status # "none" =>
    LET dir == Unpacked[rows[p].sha]
    IN  dir # Unreadable /\ Whole(dir, rows[p].name)

(* An upload that was answered with 201 has its row, whatever happened     *)
(* since; one that was answered before its body was complete left neither  *)
(* a row nor a file in the repository, though the rest of the body may     *)
(* have come after the answer.                                             *)
UploadAnswered ==
  \A u \in Uploads :
    /\ response[u] = 201 => rows[u].status # "none"
    /\ response[u] = 408 => rows[u].status = "none" /\ stored[u] = Nil

(* The file of every row, and the file every machine was offered, is in    *)
(* the repository with the SHA-256 that was recorded, unless it was        *)
(* damaged there: no upload, validation, retirement or crash touches it.   *)
FilesKept ==
  \A p \in Uploads \ damaged :
    /\ rows[p].status # "none" => stored[p] = rows[p].sha
    /\ \A o \in offers : o.package = p => stored[p] = o.sha

(* A machine that was offered a package unpacks a whole one of that name,  *)
(* or nothing.                                                             *)
InstalledWhole ==
  installed # Nil => Whole(installed.dir, rows[installed.package].name)

(* A slot has one default at most, and no retired package is a default.    *)
DefaultsSound ==
  \A pub \in pubs : pub.isDefault =>
    /\ rows[pub.package].status # "retired"
    /\ \A other \in pubs \ {pub} :
         other.isDefault => ~InSlot(other, pub.component, pub.channel)

(* A retired package never comes back: neither a validation nor a          *)
(* publication nor an upload that is still being committed revives it.     *)
RetiredStaysRetired ==
  [][\A p \in Uploads : rows[p].status = "retired" => rows'[p] = rows[p]]_rows

(* The staging file of an upload is removed, unless the server is killed.  *)
StagingCleared ==
  \A u \in Uploads : u \in staged ~> (u \notin staged \/ crashes > 0)
=============================================================================
