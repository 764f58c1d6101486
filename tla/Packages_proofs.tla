-------------------------- MODULE Packages_proofs --------------------------
(* What the run of Packages checks, but for its liveness, for any set of   *)
(* uploads, targets, channels and contents: the defaults and the retired   *)
(* packages from Inv, the files and answers from Facts, which is inductive *)
(* relative to Inv, and the types from both.                               *)
EXTENDS Packages, FiniteSetTheorems, SequenceTheorems, TLAPS

(* The sessions, rows and publications are tables of records. *)
Tables ==
  /\ upload = [u \in Uploads |-> upload[u]]
  /\ \A u \in Uploads :
       upload[u] = [at |-> upload[u].at, name |-> upload[u].name,
                    file |-> upload[u].file]
  /\ rows = [p \in Uploads |-> rows[p]]
  /\ \A p \in Uploads :
       rows[p] = [status |-> rows[p].status, name |-> rows[p].name,
                  min |-> rows[p].min, sha |-> rows[p].sha]
  /\ \A pub \in pubs :
       /\ pub.package \in Uploads
       /\ pub = Publication(pub.package, pub.component, pub.channel, pub.isDefault)

(* An upload that has not come to its rows has none, and its row is as the *)
(* upload wrote it while the upload is being committed: the thread is with *)
(* it all the time.                                                        *)
CommitAlone ==
  \A u \in Uploads :
    /\ upload[u].at \in {"new", "receiving", "moved"} => rows[u].status = "none"
    /\ upload[u].at = "uploaded" => rows[u].status = "uploaded"
    /\ upload[u].at \in {"moved", "uploaded"} => thread = u

RetiredNoDefault ==
  \A pub \in pubs : pub.isDefault => rows[pub.package].status # "retired"

OneDefault ==
  \A pub, other \in pubs :
    pub.isDefault /\ other.isDefault /\ InSlot(other, pub.component, pub.channel)
      => pub = other

Inv == Tables /\ CommitAlone /\ RetiredNoDefault /\ OneDefault

LEMMA InitInv == Init => Inv
<1> SUFFICES ASSUME Init PROVE Inv
  OBVIOUS
<1>1. \A u \in Uploads : upload[u] = NoUpload /\ rows[u] = NoRow
  BY DEF Init
<1>2. Tables
  BY <1>1 DEF Init, Tables, NoUpload, NoRow
<1>3. CommitAlone
  BY <1>1 DEF CommitAlone, NoUpload, NoRow
<1>4. RetiredNoDefault /\ OneDefault
  BY DEF Init, RetiredNoDefault, OneDefault
<1> QED BY <1>2, <1>3, <1>4 DEF Inv

(* With the thread free, no upload is being committed. *)
LEMMA NoneCommitting ==
  ASSUME Inv, thread = Nil, NEW u \in Uploads
  PROVE  upload[u].at \notin {"moved", "uploaded"}
  BY PackageConstants DEF Inv, CommitAlone

(* A step that leaves sessions, rows and publications alone. *)
LEMMA FrameInv ==
  ASSUME Inv, UNCHANGED <<upload, thread, rows, pubs>>
  PROVE  Inv'
<1>1. Tables'
  BY DEF Inv, Tables, Publication
<1>2. CommitAlone'
  BY DEF Inv, CommitAlone
<1>3. RetiredNoDefault' /\ OneDefault'
  BY DEF Inv, RetiredNoDefault, OneDefault, InSlot
<1> QED BY <1>1, <1>2, <1>3 DEF Inv

Moves(u, at, name, file) ==
  upload' = [upload EXCEPT ![u] = [at |-> at, name |-> name, file |-> file]]

(* A step of the session of u that writes no row. *)
LEMMA SessionInv ==
  ASSUME Inv, NEW u \in Uploads, NEW a, NEW n, NEW f,
         Moves(u, a, n, f), UNCHANGED <<rows, pubs>>,
         a \in {"receiving", "moved"} => rows[u].status = "none",
         a \notin {"new", "uploaded"},
         a = "moved" => thread' = u,
         \A v \in Uploads \ {u} : upload[v].at \notin {"moved", "uploaded"}
  PROVE  Inv'
<1>1. \A v \in Uploads :
        upload'[v] = IF v = u THEN [at |-> a, name |-> n, file |-> f] ELSE upload[v]
  BY DEF Inv, Tables, Moves
<1>2. upload' = [v \in Uploads |-> upload'[v]]
  BY DEF Inv, Tables, Moves
<1>3. Tables'
  BY <1>1, <1>2 DEF Inv, Tables, Publication
<1>4. CommitAlone'
  BY <1>1 DEF Inv, CommitAlone
<1>5. RetiredNoDefault' /\ OneDefault'
  BY DEF Inv, RetiredNoDefault, OneDefault, InSlot
<1> QED BY <1>3, <1>4, <1>5 DEF Inv

(* The row of p gets a status that is not "retired", and it was not        *)
(* retired before.                                                         *)
LEMMA RowInv ==
  ASSUME Inv, NEW p \in Uploads, NEW r,
         r = [status |-> r.status, name |-> r.name, min |-> r.min, sha |-> r.sha],
         rows' = [rows EXCEPT ![p] = r], r.status # "retired", pubs' = pubs
  PROVE  /\ rows' = [q \in Uploads |-> rows'[q]]
         /\ \A q \in Uploads : rows'[q] = IF q = p THEN r ELSE rows[q]
         /\ \A q \in Uploads :
              rows'[q] = [status |-> rows'[q].status, name |-> rows'[q].name,
                          min |-> rows'[q].min, sha |-> rows'[q].sha]
         /\ RetiredNoDefault' /\ OneDefault'
<1>1. rows = [q \in Uploads |-> rows[q]]
  BY DEF Inv, Tables
<1>2. /\ rows' = [q \in Uploads |-> rows'[q]]
      /\ \A q \in Uploads : rows'[q] = IF q = p THEN r ELSE rows[q]
  BY <1>1
<1>3. RetiredNoDefault'
  BY <1>2 DEF Inv, Tables, RetiredNoDefault
<1>4. OneDefault'
  BY DEF Inv, OneDefault, InSlot
<1> QED BY <1>2, <1>3, <1>4 DEF Inv, Tables

LEMMA SessionStepInv ==
  ASSUME Inv, NEW u \in Uploads, SessionStep(u)
  PROVE  Inv'
<1>0. upload = [v \in Uploads |-> upload[v]]
  BY DEF Inv, Tables
<1>1. CASE Refuse(u)
  <2>1. PICK status \in {400, 408} : Respond(u, status, upload[u].file)
    BY <1>1 DEF Refuse
  <2>2. thread = Nil /\ UNCHANGED <<rows, pubs>>
    BY <1>1 DEF Refuse, dbVars
  <2>3. \A v \in Uploads : upload[v].at \notin {"moved", "uploaded"}
    BY <2>2, NoneCommitting
  <2>4. Moves(u, "responding", Nil, upload[u].file)
    BY <2>1 DEF Respond, Moves
  <2> QED BY <2>2, <2>3, <2>4, SessionInv
<1>2. CASE Close(u)
  <2>1. thread = Nil /\ UNCHANGED <<rows, pubs>>
    BY <1>2 DEF Close, dbVars
  <2>2. \A v \in Uploads : upload[v].at \notin {"moved", "uploaded"}
    BY <2>1, NoneCommitting
  <2>3. Moves(u, "closed", Nil, <<>>)
    BY <1>2 DEF Close, Moves
  <2> QED BY <2>1, <2>2, <2>3, SessionInv
<1>3. CASE OnBodyChunk(u)
  <2>1. thread = Nil /\ upload[u].at = "receiving" /\ CommitOn(u)
        /\ UNCHANGED <<rows, pubs>>
    BY <1>3 DEF OnBodyChunk, Commit, dbVars
  <2>2. \A v \in Uploads : upload[v].at \notin {"moved", "uploaded"}
    BY <2>1, NoneCommitting
  <2>3. rows[u].status = "none"
    BY <2>1 DEF Inv, CommitAlone
  <2>4. CASE upload[u].file = <<>>
    <3>1. Moves(u, "responding", Nil, <<>>)
      BY <2>1, <2>4 DEF CommitOn, Respond, Moves
    <3> QED BY <2>1, <2>2, <3>1, SessionInv
  <2>5. CASE upload[u].file # <<>>
    <3>1. thread' = u /\ Moves(u, "moved", upload[u].name, <<>>)
      BY <1>0, <2>1, <2>5 DEF CommitOn, Moves
    <3> QED BY <2>1, <2>2, <2>3, <3>1, SessionInv
  <2> QED BY <2>4, <2>5
<1>4. ASSUME NEW status, Respond(u, status, <<>>), UNCHANGED <<rows, pubs>>,
             thread = u
      PROVE  Inv'
  <2>1. \A v \in Uploads \ {u} : upload[v].at \notin {"moved", "uploaded"}
    BY <1>4 DEF Inv, CommitAlone
  <2>2. Moves(u, "responding", Nil, <<>>)
    BY <1>4 DEF Respond, Moves
  <2> QED BY <1>4, <2>1, <2>2, SessionInv
<1>5. CASE CommitUploaded(u)
  <2>1. thread = u /\ upload[u].at = "moved" /\ pubs' = pubs
    BY <1>5 DEF CommitUploaded
  <2>2. CASE CommitFails(u)
    BY <1>4, <2>1, <2>2 DEF CommitFails
  <2>3. CASE ~CommitFails(u)
    <3> DEFINE file == stored[SafePackageStoragePath(u)]
               r == Row("uploaded", Metadata[file])
    <3>1. /\ rows' = [rows EXCEPT ![u] = r] /\ thread' = thread
          /\ upload' = [upload EXCEPT ![u].at = "uploaded"]
      BY <1>5, <2>3 DEF CommitUploaded, UpsertAgentPackage
    <3>2. /\ r = [status |-> r.status, name |-> r.name, min |-> r.min, sha |-> r.sha]
          /\ r.status = "uploaded"
      BY DEF Row
    <3> HIDE DEF r
    <3>3. /\ rows' = [q \in Uploads |-> rows'[q]]
          /\ \A q \in Uploads : rows'[q] = IF q = u THEN r ELSE rows[q]
          /\ \A q \in Uploads :
               rows'[q] = [status |-> rows'[q].status, name |-> rows'[q].name,
                           min |-> rows'[q].min, sha |-> rows'[q].sha]
          /\ RetiredNoDefault' /\ OneDefault'
      BY <2>1, <3>1, <3>2, RowInv
    <3>4. /\ upload' = [v \in Uploads |-> upload'[v]]
          /\ upload'[u] = [at |-> "uploaded", name |-> upload[u].name,
                           file |-> upload[u].file]
          /\ \A v \in Uploads \ {u} : upload'[v] = upload[v]
      BY <3>1 DEF Inv, Tables
    <3>5. Tables'
      BY <2>1, <3>3, <3>4 DEF Inv, Tables, Publication
    <3>6. CommitAlone'
      BY <2>1, <3>1, <3>2, <3>3, <3>4 DEF Inv, CommitAlone
    <3> QED BY <3>3, <3>5, <3>6 DEF Inv
  <2> QED BY <2>2, <2>3
<1>6. CASE CommitValidated(u)
  <2>1. thread = u /\ upload[u].at = "uploaded" /\ pubs' = pubs
    BY <1>6 DEF CommitValidated
  <2>2. CASE CommitFails(u)
    BY <1>4, <2>1, <2>2 DEF CommitFails
  <2>3. CASE ~CommitFails(u)
    <3> DEFINE r == [rows[u] EXCEPT !.status = "validated"]
    <3>1. PICK status : rows' = [rows EXCEPT ![u] = r] /\ Respond(u, status, <<>>)
      BY <1>6, <2>3 DEF CommitValidated, UpsertAgentPackage
    <3>2. /\ r = [status |-> r.status, name |-> r.name, min |-> r.min, sha |-> r.sha]
          /\ r.status = "validated"
      BY DEF Inv, Tables
    <3> HIDE DEF r
    <3>3. /\ rows' = [q \in Uploads |-> rows'[q]]
          /\ \A q \in Uploads : rows'[q] = IF q = u THEN r ELSE rows[q]
          /\ \A q \in Uploads :
               rows'[q] = [status |-> rows'[q].status, name |-> rows'[q].name,
                           min |-> rows'[q].min, sha |-> rows'[q].sha]
          /\ RetiredNoDefault' /\ OneDefault'
      BY <2>1, <3>1, <3>2, RowInv
    <3>4. /\ upload' = [v \in Uploads |-> upload'[v]]
          /\ upload'[u] = [at |-> "responding", name |-> Nil, file |-> <<>>]
          /\ \A v \in Uploads \ {u} : upload'[v] = upload[v]
      BY <3>1 DEF Inv, Tables, Respond
    <3>5. Tables'
      BY <2>1, <3>3, <3>4 DEF Inv, Tables, Publication
    <3>6. CommitAlone'
      BY <2>1, <3>3, <3>4 DEF Inv, CommitAlone
    <3> QED BY <3>3, <3>5, <3>6 DEF Inv
  <2> QED BY <2>2, <2>3
<1> QED BY <1>1, <1>2, <1>3, <1>5, <1>6 DEF SessionStep

LEMMA OpenInv ==
  ASSUME Inv, NEW u \in Uploads, NEW name, OpenStagingFile(u, name)
  PROVE  Inv'
<1>1. thread = Nil /\ upload[u].at = "new" /\ UNCHANGED <<rows, pubs>>
  BY DEF OpenStagingFile, dbVars
<1>2. PICK file : Moves(u, "receiving", name, file)
  BY DEF OpenStagingFile, Moves
<1>3. \A v \in Uploads : upload[v].at \notin {"moved", "uploaded"}
  BY <1>1, NoneCommitting
<1>4. rows[u].status = "none"
  BY <1>1 DEF Inv, CommitAlone
<1> QED BY <1>1, <1>2, <1>3, <1>4, SessionInv

LEMMA CrashInv ==
  ASSUME Inv, Crash
  PROVE  Inv'
<1>1. /\ UNCHANGED <<rows, pubs>>
      /\ upload' = [u \in Uploads |->
                      IF upload[u].at = "new" THEN upload[u]
                      ELSE [at |-> "closed", name |-> Nil, file |-> <<>>]]
  BY DEF Crash, dbVars
<1>2. Tables'
  BY <1>1 DEF Inv, Tables, Publication
<1>3. CommitAlone'
  BY <1>1 DEF Inv, CommitAlone
<1>4. RetiredNoDefault' /\ OneDefault'
  BY <1>1 DEF Inv, RetiredNoDefault, OneDefault, InSlot
<1> QED BY <1>2, <1>3, <1>4 DEF Inv

(* The row of p keeps its shape and is not revived: for a step of the      *)
(* administrator that writes it and leaves the sessions alone.             *)
LEMMA AdminRow ==
  ASSUME Inv, NEW p \in Uploads, NEW r, thread = Nil, UNCHANGED <<upload, thread>>,
         rows[p].status # "none",
         r = [status |-> r.status, name |-> r.name, min |-> r.min, sha |-> r.sha],
         rows' = [rows EXCEPT ![p] = r]
  PROVE  /\ rows' = [q \in Uploads |-> rows'[q]]
         /\ \A q \in Uploads : rows'[q] = IF q = p THEN r ELSE rows[q]
         /\ \A q \in Uploads :
              rows'[q] = [status |-> rows'[q].status, name |-> rows'[q].name,
                          min |-> rows'[q].min, sha |-> rows'[q].sha]
         /\ CommitAlone'
<1>1. rows = [q \in Uploads |-> rows[q]]
  BY DEF Inv, Tables
<1>2. /\ rows' = [q \in Uploads |-> rows'[q]]
      /\ \A q \in Uploads : rows'[q] = IF q = p THEN r ELSE rows[q]
  BY <1>1
<1>3. \A u \in Uploads : upload[u].at \notin {"moved", "uploaded"}
  BY NoneCommitting
<1>4. CommitAlone'
  BY <1>2, <1>3 DEF Inv, CommitAlone
<1> QED BY <1>2, <1>4 DEF Inv, Tables

LEMMA ValidateInv ==
  ASSUME Inv, NEW p \in Uploads, Validate(p)
  PROVE  Inv'
<1>1. /\ thread = Nil /\ UNCHANGED <<upload, thread, pubs>>
      /\ rows[p].status \notin {"none", "retired"}
  BY DEF Validate, sessionVars
<1>2. PICK r :
        /\ rows' = [rows EXCEPT ![p] = r] /\ r.status # "retired"
        /\ r = [status |-> r.status, name |-> r.name, min |-> r.min, sha |-> r.sha]
  <2> DEFINE v == Row("validated", Metadata[stored[SafePackageStoragePath(p)]])
             j == [rows[p] EXCEPT !.status = "rejected"]
  <2>1. rows' = [rows EXCEPT ![p] = v] \/ rows' = [rows EXCEPT ![p] = j]
    BY DEF Validate, UpsertAgentPackage
  <2>2. /\ v = [status |-> v.status, name |-> v.name, min |-> v.min, sha |-> v.sha]
        /\ v.status # "retired"
    BY DEF Row
  <2>3. /\ j = [status |-> j.status, name |-> j.name, min |-> j.min, sha |-> j.sha]
        /\ j.status # "retired"
    BY DEF Inv, Tables
  <2> HIDE DEF v, j
  <2> QED BY <2>1, <2>2, <2>3
<1>3. /\ rows' = [q \in Uploads |-> rows'[q]] /\ CommitAlone'
      /\ \A q \in Uploads :
           rows'[q] = [status |-> rows'[q].status, name |-> rows'[q].name,
                       min |-> rows'[q].min, sha |-> rows'[q].sha]
  BY <1>1, <1>2, AdminRow
<1>4. RetiredNoDefault' /\ OneDefault'
  BY <1>1, <1>2, RowInv
<1>5. Tables'
  BY <1>1, <1>3 DEF Inv, Tables, Publication
<1> QED BY <1>3, <1>4, <1>5 DEF Inv

LEMMA PublishInv ==
  ASSUME Inv, NEW p \in Uploads, NEW channel, Publish(p, channel)
  PROVE  Inv'
<1> DEFINE component == rows[p].name.component
           Clear(pub) == IF InSlot(pub, component, channel)
                         THEN [pub EXCEPT !.isDefault = FALSE] ELSE pub
           new == Publication(p, component, channel, TRUE)
           r == [rows[p] EXCEPT !.status = "published"]
<1>1. /\ thread = Nil /\ UNCHANGED <<upload, thread>>
      /\ rows[p].status \in {"validated", "published"}
      /\ rows' = [rows EXCEPT ![p] = r]
      /\ pubs' = {pub \in {Clear(pub) : pub \in pubs} :
                    pub.package # p \/ pub.channel # channel} \cup {new}
  BY DEF Publish, PublishAgentPackage, sessionVars, Inv, Tables
<1>2. /\ r = [status |-> r.status, name |-> r.name, min |-> r.min, sha |-> r.sha]
      /\ r.status = "published"
  BY DEF Inv, Tables
<1> HIDE DEF r
<1>3. /\ rows' = [q \in Uploads |-> rows'[q]] /\ CommitAlone'
      /\ \A q \in Uploads : rows'[q] = IF q = p THEN r ELSE rows[q]
      /\ \A q \in Uploads :
           rows'[q] = [status |-> rows'[q].status, name |-> rows'[q].name,
                       min |-> rows'[q].min, sha |-> rows'[q].sha]
  BY <1>1, <1>2, AdminRow
<1>4. \A pub \in pubs' :
        pub = new \/ \E old \in pubs : pub = Clear(old)
  BY <1>1
<1>5. ASSUME NEW old \in pubs
      PROVE  /\ Clear(old).package = old.package /\ Clear(old).channel = old.channel
             /\ Clear(old).component = old.component
             /\ Clear(old) = Publication(old.package, old.component, old.channel,
                                         Clear(old).isDefault)
             /\ Clear(old).isDefault =>
                  /\ Clear(old) = old /\ old.isDefault
                  /\ ~InSlot(old, component, channel)
  <2>1. old = [package |-> old.package, component |-> old.component,
               channel |-> old.channel, isDefault |-> old.isDefault]
    BY DEF Inv, Tables, Publication
  <2>2. CASE InSlot(old, component, channel)
    BY <2>1, <2>2 DEF Publication
  <2>3. CASE ~InSlot(old, component, channel)
    BY <2>1, <2>3 DEF Publication
  <2> QED BY <2>2, <2>3
<1>6. /\ new.package = p /\ new.component = component /\ new.channel = channel
      /\ new = Publication(new.package, new.component, new.channel, new.isDefault)
  BY DEF Publication
<1> HIDE DEF Clear, new
<1>7. Tables'
  <2>1. \A pub \in pubs' :
          /\ pub.package \in Uploads
          /\ pub = Publication(pub.package, pub.component, pub.channel, pub.isDefault)
    BY <1>4, <1>5, <1>6 DEF Inv, Tables
  <2> QED BY <1>1, <1>3, <2>1 DEF Inv, Tables
<1>8. RetiredNoDefault'
  <2> SUFFICES ASSUME NEW pub \in pubs', pub.isDefault
               PROVE  rows'[pub.package].status # "retired"
    BY DEF RetiredNoDefault
  <2>1. CASE pub = new
    BY <1>2, <1>3, <1>6, <2>1
  <2>2. ASSUME NEW old \in pubs, pub = Clear(old)
        PROVE  rows'[pub.package].status # "retired"
    <3>1. pub.package = old.package /\ old.isDefault
      BY <1>5, <2>2
    <3>2. old.package \in Uploads /\ rows[old.package].status # "retired"
      BY <3>1 DEF Inv, Tables, RetiredNoDefault
    <3> QED BY <1>2, <1>3, <3>1, <3>2
  <2> QED BY <1>4, <2>1, <2>2
<1>9. OneDefault'
  BY <1>4, <1>5, <1>6 DEF Inv, OneDefault, InSlot
<1> QED BY <1>3, <1>7, <1>8, <1>9 DEF Inv

LEMMA RetireInv ==
  ASSUME Inv, NEW p \in Uploads, Retire(p)
  PROVE  Inv'
<1> DEFINE Clear(pub) == IF pub.package = p
                         THEN [pub EXCEPT !.isDefault = FALSE] ELSE pub
           r == [rows[p] EXCEPT !.status = "retired"]
<1>1. /\ thread = Nil /\ UNCHANGED <<upload, thread>> /\ rows[p].status # "none"
      /\ rows' = [rows EXCEPT ![p] = r]
      /\ pubs' = {Clear(pub) : pub \in pubs}
  BY DEF Retire, sessionVars, Inv, Tables
<1>2. r = [status |-> r.status, name |-> r.name, min |-> r.min, sha |-> r.sha]
  BY DEF Inv, Tables
<1> HIDE DEF r
<1>3. /\ rows' = [q \in Uploads |-> rows'[q]] /\ CommitAlone'
      /\ \A q \in Uploads : rows'[q] = IF q = p THEN r ELSE rows[q]
      /\ \A q \in Uploads :
           rows'[q] = [status |-> rows'[q].status, name |-> rows'[q].name,
                       min |-> rows'[q].min, sha |-> rows'[q].sha]
  BY <1>1, <1>2, AdminRow
<1>4. \A pub \in pubs' : \E old \in pubs : pub = Clear(old)
  BY <1>1
<1>5. ASSUME NEW old \in pubs
      PROVE  /\ Clear(old).package = old.package /\ Clear(old).channel = old.channel
             /\ Clear(old).component = old.component
             /\ Clear(old) = Publication(old.package, old.component, old.channel,
                                         Clear(old).isDefault)
             /\ Clear(old).isDefault =>
                  Clear(old) = old /\ old.isDefault /\ old.package # p
  <2>1. old = [package |-> old.package, component |-> old.component,
               channel |-> old.channel, isDefault |-> old.isDefault]
    BY DEF Inv, Tables, Publication
  <2>2. CASE old.package = p
    BY <2>1, <2>2 DEF Publication
  <2>3. CASE old.package # p
    BY <2>1, <2>3 DEF Publication
  <2> QED BY <2>2, <2>3
<1> HIDE DEF Clear
<1>6. Tables'
  <2>1. \A pub \in pubs' :
          /\ pub.package \in Uploads
          /\ pub = Publication(pub.package, pub.component, pub.channel, pub.isDefault)
    BY <1>4, <1>5 DEF Inv, Tables
  <2> QED BY <1>1, <1>3, <2>1 DEF Inv, Tables
<1>7. RetiredNoDefault'
  BY <1>3, <1>4, <1>5 DEF Inv, Tables, RetiredNoDefault
<1>8. OneDefault'
  BY <1>4, <1>5 DEF Inv, OneDefault, InSlot
<1> QED BY <1>3, <1>6, <1>7, <1>8 DEF Inv

LEMMA NextInv == Inv /\ [Next]_vars => Inv'
<1> SUFFICES ASSUME Inv, [Next]_vars PROVE Inv'
  OBVIOUS
<1>1. CASE PackagerStep
  <2>1. UNCHANGED <<upload, thread, rows, pubs>>
    BY <1>1 DEF PackagerStep, Pack, CreateArchive, sessionVars, dbVars
  <2> QED BY <2>1, FrameInv
<1>2. CASE \E u \in Uploads, name \in Names \cup {Nil} : OpenStagingFile(u, name)
  BY <1>2, OpenInv
<1>3. CASE \E u \in Uploads : SessionStep(u)
  BY <1>3, SessionStepInv
<1>4. CASE AdminStep
  <2>1. ASSUME NEW p \in Uploads, ScheduleUpgrade(p) PROVE Inv'
    <3>1. UNCHANGED <<upload, thread, rows, pubs>>
      BY <2>1 DEF ScheduleUpgrade, sessionVars, dbVars
    <3> QED BY <3>1, FrameInv
  <2>2. ASSUME NEW channel \in Channels, InstallOptions(channel) PROVE Inv'
    <3>1. UNCHANGED <<upload, thread, rows, pubs>>
      BY <2>2 DEF InstallOptions, sessionVars, dbVars
    <3> QED BY <3>1, FrameInv
  <2>3. ASSUME NEW o \in offers, Download(o) PROVE Inv'
    <3>1. UNCHANGED <<upload, thread, rows, pubs>>
      BY <2>3 DEF Download, sessionVars, dbVars
    <3> QED BY <3>1, FrameInv
  <2> QED BY <1>4, <2>1, <2>2, <2>3, ValidateInv, PublishInv, RetireInv DEF AdminStep
<1>5. CASE Crash
  BY <1>5, CrashInv
<1>6. CASE \E p \in Uploads : Damage(p)
  <2>1. UNCHANGED <<upload, thread, rows, pubs>>
    BY <1>6 DEF Damage, sessionVars, dbVars
  <2> QED BY <2>1, FrameInv
<1>7. CASE UNCHANGED vars
  <2>1. UNCHANGED <<upload, thread, rows, pubs>>
    BY <1>7 DEF vars, sessionVars, dbVars
  <2> QED BY <2>1, FrameInv
<1> QED BY <1>1, <1>2, <1>3, <1>4, <1>5, <1>6, <1>7 DEF Next

LEMMA InvAlways == Spec => []Inv
<1> QED BY InitInv, NextInv, PTL DEF Spec

(* A slot has one default at most and no retired package is one, in        *)
(* whatever order packages are published, retired, validated again and     *)
(* uploaded.                                                               *)
THEOREM DefaultsSoundHolds == Spec => []DefaultsSound
<1>1. Inv => DefaultsSound
  BY DEF Inv, RetiredNoDefault, OneDefault, DefaultsSound
<1> QED BY <1>1, InvAlways, PTL

(* No step writes the row of a retired package. *)
LEMMA RetiredStep ==
  ASSUME Inv, Next, NEW p \in Uploads, rows[p].status = "retired"
  PROVE  rows'[p] = rows[p]
<1>0. rows = [q \in Uploads |-> rows[q]]
  BY DEF Inv, Tables
<1>1. ASSUME UNCHANGED rows PROVE rows'[p] = rows[p]
  BY <1>1
<1>2. CASE PackagerStep
  BY <1>1, <1>2 DEF PackagerStep, Pack, CreateArchive, dbVars
<1>3. CASE \E u \in Uploads, name \in Names \cup {Nil} : OpenStagingFile(u, name)
  BY <1>1, <1>3 DEF OpenStagingFile, dbVars
<1>4. ASSUME NEW u \in Uploads, SessionStep(u) PROVE rows'[p] = rows[p]
  <2>1. CASE OnBodyChunk(u)
    BY <1>1, <2>1 DEF OnBodyChunk, Commit, dbVars
  <2>2. CASE Refuse(u)
    BY <1>1, <2>2 DEF Refuse, dbVars
  <2>3. CASE Close(u)
    BY <1>1, <2>3 DEF Close, dbVars
  <2>4. CASE CommitUploaded(u)
    <3>1. u # p
      BY <2>4 DEF CommitUploaded, Inv, CommitAlone
    <3>2. UNCHANGED rows
            \/ \E r : rows' = [rows EXCEPT ![u] = r]
      BY <2>4 DEF CommitUploaded, CommitFails, UpsertAgentPackage
    <3> QED BY <1>0, <3>1, <3>2
  <2>5. CASE CommitValidated(u)
    <3>1. u # p
      BY <2>5 DEF CommitValidated, Inv, CommitAlone
    <3>2. UNCHANGED rows
            \/ \E r : rows' = [rows EXCEPT ![u] = r]
      BY <2>5 DEF CommitValidated, CommitFails, UpsertAgentPackage
    <3> QED BY <1>0, <3>1, <3>2
  <2> QED BY <1>4, <2>1, <2>2, <2>3, <2>4, <2>5 DEF SessionStep
<1>5. CASE AdminStep
  <2>1. ASSUME NEW q \in Uploads, Validate(q) PROVE rows'[p] = rows[p]
    <3>1. q # p /\ \E r : rows' = [rows EXCEPT ![q] = r]
      BY <2>1 DEF Validate, UpsertAgentPackage
    <3> QED BY <1>0, <3>1
  <2>2. ASSUME NEW q \in Uploads, NEW channel, Publish(q, channel)
        PROVE  rows'[p] = rows[p]
    <3>1. q # p /\ rows' = [rows EXCEPT ![q].status = "published"]
      BY <2>2 DEF Publish
    <3> QED BY <1>0, <3>1
  <2>3. ASSUME NEW q \in Uploads, Retire(q) PROVE rows'[p] = rows[p]
    <3>1. rows' = [rows EXCEPT ![q].status = "retired"]
      BY <2>3 DEF Retire
    <3>2. [rows[p] EXCEPT !.status = "retired"] = rows[p]
      BY DEF Inv, Tables
    <3> QED BY <1>0, <3>1, <3>2
  <2>4. ASSUME \/ \E q \in Uploads : ScheduleUpgrade(q)
               \/ \E channel \in Channels : InstallOptions(channel)
               \/ \E o \in offers : Download(o)
        PROVE  rows'[p] = rows[p]
    BY <1>1, <2>4 DEF ScheduleUpgrade, InstallOptions, Download, dbVars
  <2> QED BY <1>5, <2>1, <2>2, <2>3, <2>4 DEF AdminStep
<1>6. CASE Crash
  BY <1>1, <1>6 DEF Crash, dbVars
<1>7. CASE \E q \in Uploads : Damage(q)
  BY <1>1, <1>7 DEF Damage, dbVars
<1> QED BY <1>2, <1>3, <1>4, <1>5, <1>6, <1>7 DEF Next

(* A retired package never comes back, whatever is uploaded, validated or  *)
(* published while or after it is retired.                                 *)
THEOREM RetiredStaysRetiredHolds == Spec => RetiredStaysRetired
<1>1. ASSUME Inv, [Next]_vars
      PROVE  [\A p \in Uploads : rows[p].status = "retired" => rows'[p] = rows[p]]_rows
  <2>1. CASE Next
    BY <1>1, <2>1, RetiredStep
  <2>2. CASE UNCHANGED vars
    BY <2>2 DEF vars, dbVars
  <2> QED BY <1>1, <2>1, <2>2
<1> QED BY <1>1, InvAlways, PTL DEF Spec, RetiredStaysRetired

----------------------------------------------------------------------------
(* What the server and a machine make of the files there may be. *)

(* An archive of a package whose payload's file held c when it was packed  *)
(* and holds d now.                                                        *)
Manifest(t) == BuildManifestJson(t, CollectPayloadFiles(Built))

Blocks5(t, c, d) ==
  <<LocalFile(ManifestPath, Manifest(t)),
    [LocalFile(PayloadPath, c) EXCEPT !.data = d],
    DirectoryEntry(ManifestPath, Manifest(t), 1),
    DirectoryEntry(PayloadPath, c, 2),
    EndRecord(3, 2, 2)>>

(* The two files of a package come in the order of their paths. *)
LEMMA SourceEntries ==
  ASSUME NEW dir, DOMAIN dir = {ManifestPath, PayloadPath}
  PROVE  CollectSourceEntries(dir) = <<ManifestPath, PayloadPath>>
<1> DEFINE InOrder(paths) ==
             \A i, k \in DOMAIN paths : i < k => paths[i] < paths[k]
           S == [1..2 -> {ManifestPath, PayloadPath}]
<1>1. Cardinality({ManifestPath, PayloadPath}) = 2
  <2>1. IsFiniteSet({ManifestPath}) /\ Cardinality({ManifestPath}) = 1
    BY FS_Singleton
  <2>2. /\ {ManifestPath, PayloadPath} = {ManifestPath} \cup {PayloadPath}
        /\ PayloadPath \notin {ManifestPath}
    BY DEF ManifestPath, PayloadPath
  <2> QED BY <2>1, <2>2, FS_AddElement
<1>2. <<ManifestPath, PayloadPath>> \in S /\ InOrder(<<ManifestPath, PayloadPath>>)
  BY DEF ManifestPath, PayloadPath
<1>3. ASSUME NEW paths \in S, InOrder(paths)
      PROVE  paths = <<ManifestPath, PayloadPath>>
  <2>1. paths[1] < paths[2] /\ paths[1] \in {0, 1} /\ paths[2] \in {0, 1}
    BY <1>3 DEF ManifestPath, PayloadPath
  <2>2. paths[1] = 0 /\ paths[2] = 1
    BY <2>1
  <2> QED BY <2>2 DEF ManifestPath, PayloadPath
<1>4. CollectSourceEntries(dir) = CHOOSE paths \in S : InOrder(paths)
  BY <1>1 DEF CollectSourceEntries
<1> HIDE DEF InOrder, S
<1> QED BY <1>2, <1>3, <1>4

(* The three parts of an archive, one behind the other. *)
LEMMA FiveBlocks ==
  ASSUME NEW v, NEW w, NEW x, NEW y, NEW z
  PROVE  (<<v, w>> \o <<x, y>>) \o <<z>> = <<v, w, x, y, z>>
<1> DEFINE S == {v, w, x, y, z}
           a == <<v, w>> \o <<x, y>>
           r == a \o <<z>>
<1>1. <<v, w>> \in Seq(S) /\ <<x, y>> \in Seq(S) /\ <<z>> \in Seq(S)
  OBVIOUS
<1>2. a \in Seq(S) /\ Len(a) = 4
  BY <1>1
<1>3. a[1] = v /\ a[2] = w /\ a[3] = x /\ a[4] = y
  OBVIOUS
<1> HIDE DEF a, S
<1>4. Len(<<z>>) = 1 /\ <<z>>[1] = z
  OBVIOUS
<1> DEFINE last == <<z>>
<1>5. last \in Seq(S) /\ Len(last) = 1 /\ last[1] = z
  BY <1>1, <1>4
<1> HIDE DEF last
<1>6. /\ r \in Seq(S) /\ Len(r) = Len(a) + Len(last)
      /\ \A i \in 1..(Len(a) + Len(last)) :
           r[i] = IF i <= Len(a) THEN a[i] ELSE last[i - Len(a)]
  <2>1. r = a \o last
    BY DEF last
  <2> HIDE DEF r
  <2> QED BY <1>2, <1>5, <2>1, ConcatProperties
<1>7. Len(r) = 5 /\ r[1] = v /\ r[2] = w /\ r[3] = x /\ r[4] = y /\ r[5] = z
  <2> HIDE DEF r
  <2> QED BY <1>2, <1>3, <1>5, <1>6
<1> HIDE DEF r
<1> DEFINE five == <<v, w, x, y, z>>
<1>8. /\ five \in Seq(S) /\ Len(five) = 5
      /\ five[1] = v /\ five[2] = w /\ five[3] = x /\ five[4] = y /\ five[5] = z
  BY DEF S
<1>9. r = five
  <2> HIDE DEF r, five
  <2>1. \A i \in 1..5 : i = 1 \/ i = 2 \/ i = 3 \/ i = 4 \/ i = 5
    OBVIOUS
  <2>2. \A i \in 1..Len(r) : r[i] = five[i]
    BY <1>7, <1>8, <2>1
  <2> QED BY <1>6, <1>7, <1>8, <2>2, SeqEqual
<1> QED BY <1>9 DEF r, a

(* The blocks of a package's archive. *)
LEMMA BlocksOf ==
  ASSUME NEW t, NEW c
  PROVE  Blocks(PackToDirectory(t, Built, c)) = Blocks5(t, c, c)
<1> DEFINE dir == PackToDirectory(t, Built, c)
           two == <<ManifestPath, PayloadPath>>
           local == [i \in 1..2 |-> LocalFile(two[i], dir[two[i]])]
           entries == [i \in 1..2 |-> DirectoryEntry(two[i], dir[two[i]], i)]
<1>1. /\ DOMAIN dir = {ManifestPath, PayloadPath}
      /\ dir[ManifestPath] = Manifest(t) /\ dir[PayloadPath] = c
  BY DEF PackToDirectory, Manifest, ManifestPath, PayloadPath
<1>2. Blocks(dir) = (local \o entries) \o <<EndRecord(3, 2, 2)>>
  <2>1. CollectSourceEntries(dir) = two
    BY <1>1, SourceEntries
  <2>2. Len(two) = 2 /\ 2 + 1 = 3
    OBVIOUS
  <2> HIDE DEF dir, two
  <2> QED BY <2>1, <2>2 DEF Blocks
<1>3. local = <<LocalFile(ManifestPath, Manifest(t)), LocalFile(PayloadPath, c)>>
  BY <1>1
<1>4. entries = <<DirectoryEntry(ManifestPath, Manifest(t), 1),
                  DirectoryEntry(PayloadPath, c, 2)>>
  BY <1>1
<1>5. [LocalFile(PayloadPath, c) EXCEPT !.data = c] = LocalFile(PayloadPath, c)
  BY DEF LocalFile
<1> HIDE DEF dir, local, entries
<1>6. Blocks(dir) =
        <<LocalFile(ManifestPath, Manifest(t)), LocalFile(PayloadPath, c),
          DirectoryEntry(ManifestPath, Manifest(t), 1),
          DirectoryEntry(PayloadPath, c, 2), EndRecord(3, 2, 2)>>
  BY <1>2, <1>3, <1>4, FiveBlocks
<1> QED BY <1>5, <1>6 DEF Blocks5, dir

(* The data of its payload changed. *)
LEMMA ChangedBlocks ==
  ASSUME NEW t, NEW c, NEW d, NEW e
  PROVE  Changed(Blocks5(t, c, d), e) = Blocks5(t, c, e)
<1> DEFINE f == Blocks5(t, c, d)
           g == Blocks5(t, c, e)
<1>1. /\ DOMAIN f = 1..5 /\ DOMAIN g = 1..5
      /\ f[1] = g[1] /\ f[3] = g[3] /\ f[4] = g[4] /\ f[5] = g[5]
      /\ f[2] = [LocalFile(PayloadPath, c) EXCEPT !.data = d]
      /\ g[2] = [LocalFile(PayloadPath, c) EXCEPT !.data = e]
  BY DEF Blocks5
<1>2. f[1].kind = "file" /\ f[1].path # PayloadPath
  BY DEF Blocks5, LocalFile, ManifestPath, PayloadPath
<1>3. f[3].kind # "file" /\ f[4].kind # "file" /\ f[5].kind # "file"
  BY DEF Blocks5, DirectoryEntry, EndRecord
<1>4. f[2].kind = "file" /\ f[2].path = PayloadPath /\ [f[2] EXCEPT !.data = e] = g[2]
  BY <1>1 DEF LocalFile
<1>5. g = [i \in 1..5 |-> g[i]]
  BY DEF Blocks5
<1> HIDE DEF f, g
<1>6. ASSUME NEW i \in 1..5
      PROVE  g[i] = IF f[i].kind = "file" /\ f[i].path = PayloadPath
                    THEN [f[i] EXCEPT !.data = e] ELSE f[i]
  <2>1. i = 1 \/ i = 2 \/ i = 3 \/ i = 4 \/ i = 5
    OBVIOUS
  <2> QED BY <2>1, <1>1, <1>2, <1>3, <1>4
<1>7. Changed(f, e) = [i \in 1..5 |-> g[i]]
  BY <1>1, <1>6 DEF Changed
<1> QED BY <1>5, <1>7 DEF f, g

Full(file) ==
  \E t \in Targets, c, d \in Contents : file = Blocks5(t, c, d)

(* A file without an end record at its end cannot be read. *)
LEMMA NoEnd ==
  ASSUME NEW file, file = <<>> \/ Last(file).kind # "end"
  PROVE  ParseCentralDirectory(file) = Unreadable
  BY DEF ParseCentralDirectory, LocateEndOfCentralDirectory

(* Nothing is read of what there is of an archive before its last block. *)
LEMMA WrittenOf ==
  ASSUME NEW t \in Targets, NEW c \in Contents, NEW n \in Cuts
  PROVE  LET file == Written(PackToDirectory(t, Built, c), n)
         IN  Full(file) \/ ParseCentralDirectory(file) = Unreadable
<1> DEFINE B == Blocks5(t, c, c)
           S == {B[i] : i \in 1..5}
           file == Written(PackToDirectory(t, Built, c), n)
<1>1. B \in Seq(S) /\ Len(B) = 5 /\ \A i \in 1..5 : B[i] \in S
  BY DEF Blocks5
<1>2. Blocks(PackToDirectory(t, Built, c)) = B
  BY BlocksOf
<1>3. n \in 0..5
  BY PackageConstants
<1> HIDE DEF B, S
<1>4. CASE n = 0
  <2>1. file = <<>>
    BY <1>1, <1>2, <1>4 DEF Written
  <2> QED BY <2>1, NoEnd
<1>5. CASE n = 5
  <2>1. file = B
    BY <1>1, <1>2, <1>5 DEF Written
  <2> QED BY <2>1 DEF Full, B
<1>6. CASE n \in 1..4
  <2> DEFINE part == SubSeq(B, 1, n)
  <2>1. file = part \o <<Torn>>
    BY <1>1, <1>2, <1>6 DEF Written
  <2>2. part \in Seq(S)
    <3>1. n \in Int /\ \A i \in 1..n : B[i] \in S
      BY <1>1, <1>6
    <3> QED BY <3>1, SubSeqProperties
  <2> HIDE DEF part
  <2>3. Last(part \o <<Torn>>) = Torn
    BY <2>2 DEF Last
  <2>4. Last(file).kind = "torn"
    BY <2>1, <2>3 DEF Torn
  <2> HIDE DEF file
  <2>5. ParseCentralDirectory(file) = Unreadable
    BY <2>4, NoEnd
  <2> QED BY <2>5 DEF file
<1> QED BY <1>3, <1>4, <1>5, <1>6

(* A file is an archive with all its blocks, or nothing can be read of it. *)
LEMMA FilesAre ==
  ASSUME NEW file \in Files
  PROVE  Full(file) \/ ParseCentralDirectory(file) = Unreadable
<1>1. CASE file = <<Torn>>
  <2>1. Last(file).kind = "torn"
    BY <1>1 DEF Last, Torn
  <2> QED BY <2>1, NoEnd
<1>2. ASSUME NEW t \in Targets, NEW c \in Contents, NEW d \in Contents,
             file = Changed(Blocks(PackToDirectory(t, Built, c)), d)
      PROVE  Full(file)
  BY <1>2, BlocksOf, ChangedBlocks DEF Full
<1>3. ASSUME NEW t \in Targets, NEW c \in Contents, NEW n \in Cuts,
             file = Written(PackToDirectory(t, Built, c), n)
      PROVE  Full(file) \/ ParseCentralDirectory(file) = Unreadable
  BY <1>3, WrittenOf
<1> QED BY <1>1, <1>2, <1>3 DEF Files

(* Whoever reads the archive in dist finds one of the files. *)
LEMMA PackedIsFile ==
  ASSUME NEW t \in Targets, NEW c \in Contents, NEW file,
         \/ file = Blocks(PackToDirectory(t, Built, c))
         \/ \E n \in Cuts : file = Written(PackToDirectory(t, Built, c), n)
  PROVE  file \in Files
<1>1. CASE file = Blocks(PackToDirectory(t, Built, c))
  <2>1. file = Changed(Blocks(PackToDirectory(t, Built, c)), c)
    BY <1>1, BlocksOf, ChangedBlocks
  <2> QED BY <2>1 DEF Files
<1>2. CASE \E n \in Cuts : file = Written(PackToDirectory(t, Built, c), n)
  BY <1>2 DEF Files
<1> QED BY <1>1, <1>2

(* An archive with other data in its payload is one of the files too. *)
LEMMA ChangedIsFile ==
  ASSUME NEW file \in Files, Unpacked[file] # Unreadable, NEW content \in Contents
  PROVE  Changed(file, content) \in Files
<1>1. Full(file)
  <2>1. ParseCentralDirectory(file) # Unreadable
    BY DEF Unpacked, ExtractArchive, ListArchiveEntries
  <2> QED BY <2>1, FilesAre
<1>2. PICK t \in Targets, c \in Contents, d \in Contents : file = Blocks5(t, c, d)
  BY <1>1 DEF Full
<1>3. Changed(file, content) = Changed(Blocks(PackToDirectory(t, Built, c)), content)
  BY <1>2, BlocksOf, ChangedBlocks
<1> QED BY <1>3 DEF Files

(* What was read of a file that passed: its manifest, which is that of a   *)
(* target, and the data of its payload, which is what was hashed.          *)
LEMMA PassedRead ==
  ASSUME NEW file \in Files, ValidateAgentPackageUpload(file) # Unreadable
  PROVE  \E t \in Targets :
           /\ ReadArchiveFile(file, ManifestPath) = Manifest(t)
           /\ ReadArchiveFile(file, PayloadPath) = Built
           /\ ListArchiveEntries(file) = {ManifestPath, PayloadPath}
           /\ Manifest(t) # Unreadable
<1> DEFINE entries == ParseCentralDirectory(file)
           Named(path) == {e \in ToSet(entries) : e.path = path}
<1>1. ReadArchiveFile(file, ManifestPath) # Unreadable
  BY DEF ValidateAgentPackageUpload, ManifestOf
<1>2. entries # Unreadable
  BY <1>1 DEF ReadArchiveFile
<1>3. PICK t \in Targets, c \in Contents, d \in Contents : file = Blocks5(t, c, d)
  BY <1>2, FilesAre DEF Full
<1>4. /\ file[1] = LocalFile(ManifestPath, Manifest(t))
      /\ file[2] = [LocalFile(PayloadPath, c) EXCEPT !.data = d]
      /\ file[3] = DirectoryEntry(ManifestPath, Manifest(t), 1)
      /\ file[4] = DirectoryEntry(PayloadPath, c, 2)
      /\ file[5] = EndRecord(3, 2, 2)
      /\ Len(file) = 5
  BY <1>3 DEF Blocks5
<1>5. LocateEndOfCentralDirectory(file) = EndRecord(3, 2, 2)
  <2>1. Last(file) = EndRecord(3, 2, 2)
    BY <1>4 DEF Last
  <2>2. entries = Unreadable \/ LocateEndOfCentralDirectory(file) # Unreadable
    BY DEF ParseCentralDirectory
  <2> QED BY <1>2, <2>1, <2>2 DEF LocateEndOfCentralDirectory
<1>6. entries = SubSeq(file, 3, 4)
  <2>1. /\ EndRecord(3, 2, 2).at = 3 /\ EndRecord(3, 2, 2).size = 2
        /\ 3 + 2 - 1 = 4
    BY DEF EndRecord
  <2> QED BY <1>2, <1>5, <2>1 DEF ParseCentralDirectory
<1>7. entries = <<file[3], file[4]>>
  <2> DEFINE S == {file[3], file[4]}
  <2>1. \A i \in 3..4 : file[i] \in S
    OBVIOUS
  <2>2. /\ SubSeq(file, 3, 4) \in Seq(S)
        /\ Len(SubSeq(file, 3, 4)) = IF 3 <= 4 THEN 4 - 3 + 1 ELSE 0
        /\ \A i \in 1..(4 - 3 + 1) : SubSeq(file, 3, 4)[i] = file[3 + i - 1]
    <3> HIDE DEF S
    <3> QED BY <2>1, SubSeqProperties
  <2>3. entries \in Seq(S) /\ Len(entries) = 2
    BY <1>6, <2>2
  <2>4. entries[1] = file[3] /\ entries[2] = file[4]
    BY <1>6, <2>2
  <2> HIDE DEF entries
  <2> QED BY <2>3, <2>4
<1> HIDE DEF entries
<1>8. ToSet(entries) = {file[3], file[4]}
  BY <1>7 DEF ToSet
<1>9. file[3].path = ManifestPath /\ file[4].path = PayloadPath
  BY <1>4 DEF DirectoryEntry
<1>10. Named(ManifestPath) = {file[3]} /\ Named(PayloadPath) = {file[4]}
  BY <1>8, <1>9 DEF ManifestPath, PayloadPath
<1> HIDE DEF Named
<1>11. ASSUME NEW path, NEW e, Named(path) = {e}
       PROVE  ReadArchiveFile(file, path) = ReadArchiveEntryBytes(file, e)
  <2>1. (CHOOSE x \in Named(path) : TRUE) = e
    BY <1>11
  <2>2. Named(path) # {}
    BY <1>11
  <2> QED BY <1>2, <2>1, <2>2 DEF ReadArchiveFile, Named, entries
<1>12. ReadArchiveFile(file, ManifestPath) = Manifest(t)
  <2>1. ReadArchiveFile(file, ManifestPath) = ReadArchiveEntryBytes(file, file[3])
    BY <1>10, <1>11
  <2>2. ReadLocalFileInfo(file, file[3]) # Unreadable
    BY <1>1, <2>1 DEF ReadArchiveEntryBytes
  <2>3. file[3].at = 1
    BY <1>4 DEF DirectoryEntry
  <2>4. ReadLocalFileInfo(file, file[3]) = file[1]
    BY <2>2, <2>3 DEF ReadLocalFileInfo
  <2>5. file[1].data = Manifest(t)
    BY <1>4 DEF LocalFile
  <2> QED BY <2>1, <2>2, <2>4, <2>5 DEF ReadArchiveEntryBytes
<1>13. ReadArchiveFile(file, PayloadPath) = Built
  <2>1. /\ Manifest(t).files = [path \in {PayloadPath} |-> Built]
        /\ PayloadPath \in DOMAIN Manifest(t).files
        /\ Manifest(t).files[PayloadPath] = Built
    BY DEF Manifest, BuildManifestJson, CollectPayloadFiles
  <2>2. ValidateManifestFile(file, Manifest(t), PayloadPath)
    BY <1>12, <2>1 DEF ValidateAgentPackageUpload, ManifestOf
  <2> QED BY <2>1, <2>2 DEF ValidateManifestFile
<1>14. ListArchiveEntries(file) = {ManifestPath, PayloadPath}
  BY <1>2, <1>8, <1>9 DEF ListArchiveEntries, entries
<1> QED BY <1>1, <1>12, <1>13, <1>14

(* A file that passes is unpacked, and what is unpacked is a whole package *)
(* of the name that was read of it.                                        *)
LEMMA PassedIsWhole ==
  ASSUME NEW file \in Files, Metadata[file] # Unreadable
  PROVE  /\ Metadata[file].sha = file
         /\ Metadata[file].name \in Names
         /\ Unpacked[file] # Unreadable
         /\ Whole(Unpacked[file], Metadata[file].name)
<1>1. Metadata[file] = ValidateAgentPackageUpload(file)
  BY DEF Metadata
<1>2. PICK t \in Targets :
        /\ ReadArchiveFile(file, ManifestPath) = Manifest(t)
        /\ ReadArchiveFile(file, PayloadPath) = Built
        /\ ListArchiveEntries(file) = {ManifestPath, PayloadPath}
        /\ Manifest(t) # Unreadable
  BY <1>1, PassedRead
<1>3. Metadata[file] = [name |-> NameOf(Manifest(t)), min |-> Manifest(t).min,
                        sha |-> file]
  BY <1>1, <1>2 DEF ValidateAgentPackageUpload, ManifestOf
<1>4. NameOf(Manifest(t)) = NameOf(t)
  BY DEF NameOf, Manifest, BuildManifestJson
<1>5. Built # Unreadable /\ {ManifestPath, PayloadPath} # Unreadable
  BY PackageConstants, UnreadableIsNoValue
<1> DEFINE dir == [p \in {ManifestPath, PayloadPath} |-> ReadArchiveFile(file, p)]
<1>6. Unpacked[file] = dir
  BY <1>2, <1>5 DEF Unpacked, ExtractArchive
<1>7. dir[ManifestPath] = Manifest(t) /\ dir[PayloadPath] = Built
  BY <1>2 DEF ManifestPath, PayloadPath
<1>8. dir = PackToDirectory(t, Built, Built)
  BY <1>2 DEF PackToDirectory, Manifest, ManifestPath, PayloadPath
<1>9. dir # Unreadable
  BY <1>8, PackageConstants, UnreadableIsNoValue
<1>10. DOMAIN dir = {ManifestPath} \cup {PayloadPath}
  OBVIOUS
<1> HIDE DEF dir
<1>11. Manifest(t).files = [path \in {PayloadPath} |-> Built]
  BY DEF Manifest, BuildManifestJson, CollectPayloadFiles
<1>12. Whole(dir, NameOf(Manifest(t)))
  BY <1>7, <1>10, <1>11 DEF Whole
<1> QED BY <1>3, <1>4, <1>6, <1>9, <1>12 DEF Names

----------------------------------------------------------------------------
(* What the files, rows, offers and installations are, for any set of      *)
(* uploads, targets and contents.                                          *)

(* A file that passes, under this name. *)
Good(file, name) ==
  file \in Files /\ Metadata[file] # Unreadable /\ Metadata[file].name = name

(* The directory the packager archives is one it made. *)
Packed ==
  dist.name # Nil =>
    \E t \in Targets, c \in Contents : dist.dir = PackToDirectory(t, Built, c)

(* What a session has received is what somebody packed; it has written no  *)
(* file before the commit, and its answer tells what became of the row.    *)
Answered ==
  /\ response = [u \in Uploads |-> response[u]]
  /\ \A u \in Uploads :
       /\ upload[u].at = "receiving" => upload[u].file \in Files
       /\ upload[u].at \in {"new", "receiving"} => stored[u] = Nil
       /\ upload[u].at \in {"new", "receiving", "moved", "uploaded"} => response[u] = 0
       /\ response[u] = 201 => rows[u].status # "none"
       /\ response[u] = 408 =>
            /\ upload[u].at \in {"responding", "closed"}
            /\ rows[u].status = "none" /\ stored[u] = Nil

StoredFiles ==
  /\ stored = [u \in Uploads |-> stored[u]]
  /\ \A u \in Uploads : stored[u] = Nil \/ stored[u] \in Files

(* A row, and an offer, is of a file that passes and is in the repository; *)
(* what a machine installed was unpacked from one.                         *)
KeptRow(p) ==
  rows[p].status # "none" =>
    /\ Good(rows[p].sha, rows[p].name)
    /\ p \notin damaged => stored[p] = rows[p].sha

KeptOffer(o) ==
  /\ o.package \in Uploads /\ rows[o.package].status # "none"
  /\ Good(o.sha, rows[o.package].name)
  /\ o.package \notin damaged => stored[o.package] = o.sha

KeptInstallation ==
  installed # Nil =>
    /\ installed.package \in Uploads /\ rows[installed.package].status # "none"
    /\ \E file \in Files :
         Good(file, rows[installed.package].name) /\ installed.dir = Unpacked[file]

Kept ==
  /\ StoredFiles
  /\ \A p \in Uploads : KeptRow(p)
  /\ \A o \in offers : KeptOffer(o)
  /\ KeptInstallation

Facts == Packed /\ Answered /\ Kept

LEMMA InitFacts == Init => Facts
<1> SUFFICES ASSUME Init PROVE Facts
  OBVIOUS
<1>1. \A u \in Uploads : /\ upload[u] = NoUpload /\ rows[u] = NoRow
                         /\ response[u] = 0 /\ stored[u] = Nil
  BY DEF Init
<1>2. Packed
  BY DEF Init, Packed
<1>3. Answered
  BY <1>1 DEF Init, Answered, NoUpload, NoRow
<1>4. StoredFiles
  BY <1>1 DEF Init, StoredFiles
<1>5. \A p \in Uploads : KeptRow(p)
  BY <1>1 DEF KeptRow, NoRow
<1>6. offers = {} /\ KeptInstallation
  BY DEF Init, KeptInstallation
<1> QED BY <1>2, <1>3, <1>4, <1>5, <1>6 DEF Facts, Kept

(* A step that leaves rows, files, offers and installation alone. *)
LEMMA KeptFrame ==
  ASSUME Kept, UNCHANGED <<rows, stored, damaged, offers, installed>>
  PROVE  Kept'
  BY DEF Kept, StoredFiles, KeptRow, KeptOffer, KeptInstallation

(* The row of p is written, for a file that passes under the name that the *)
(* row had.                                                                *)
LEMMA KeptWrite ==
  ASSUME Kept, NEW p \in Uploads, NEW r,
         \A q \in Uploads : rows'[q] = IF q = p THEN r ELSE rows[q],
         rows[p].status # "none" => r.name = rows[p].name,
         r.status # "none", Good(r.sha, r.name),
         p \notin damaged => stored[p] = r.sha,
         UNCHANGED <<stored, damaged, offers, installed>>
  PROVE  Kept'
<1>1. StoredFiles'
  BY DEF Kept, StoredFiles
<1>2. ASSUME NEW q \in Uploads PROVE KeptRow(q)'
  <2>1. CASE q = p
    BY <2>1 DEF KeptRow, Good
  <2>2. CASE q # p
    BY <2>2 DEF Kept, KeptRow, Good
  <2> QED BY <2>1, <2>2
<1>3. ASSUME NEW o \in offers' PROVE KeptOffer(o)'
  <2>1. KeptOffer(o)
    BY DEF Kept
  <2>2. CASE o.package = p
    <3>1. p \notin damaged => o.sha = stored[p]
      BY <2>1, <2>2 DEF KeptOffer
    <3> QED BY <2>1, <2>2, <3>1 DEF KeptOffer, Good
  <2>3. CASE o.package # p
    BY <2>1, <2>3 DEF KeptOffer, Good
  <2> QED BY <2>2, <2>3
<1>4. KeptInstallation'
  <2>1. KeptInstallation
    BY DEF Kept
  <2>2. installed # Nil =>
          /\ installed.package \in Uploads
          /\ rows'[installed.package].name = rows[installed.package].name
          /\ rows'[installed.package].status # "none"
    BY <2>1 DEF KeptInstallation
  <2> QED BY <2>1, <2>2 DEF KeptInstallation, Good
<1> QED BY <1>1, <1>2, <1>3, <1>4 DEF Kept

(* The file of u is put into the repository while u has no row. *)
LEMMA KeptStore ==
  ASSUME Kept, NEW u \in Uploads, rows[u].status = "none", NEW file \in Files,
         stored' = [stored EXCEPT ![u] = file],
         UNCHANGED <<rows, damaged, offers, installed>>
  PROVE  Kept'
<1>1. \A v \in Uploads : stored'[v] = IF v = u THEN file ELSE stored[v]
  BY DEF Kept, StoredFiles
<1>2. StoredFiles'
  <2>1. stored' = [v \in Uploads |-> stored'[v]]
    BY DEF Kept, StoredFiles
  <2>2. \A v \in Uploads : stored'[v] = Nil \/ stored'[v] \in Files
    BY <1>1 DEF Kept, StoredFiles
  <2> QED BY <2>1, <2>2 DEF StoredFiles
<1>3. \A p \in Uploads : KeptRow(p)'
  BY <1>1 DEF Kept, KeptRow, Good
<1>4. \A o \in offers' : KeptOffer(o)'
  BY <1>1 DEF Kept, KeptOffer, Good
<1>5. KeptInstallation'
  BY DEF Kept, KeptInstallation, Good
<1> QED BY <1>2, <1>3, <1>4, <1>5 DEF Kept

(* A step that leaves sessions, answers, rows and files alone, or whose    *)
(* sessions end.                                                           *)
LEMMA AnsweredFrame ==
  ASSUME Answered, UNCHANGED <<response, rows, stored>>,
         \A u \in Uploads : \/ upload'[u] = upload[u]
                            \/ upload'[u].at = "closed"
  PROVE  Answered'
  BY DEF Answered

(* The session of u answers, without a row or a file. *)
LEMMA AnsweredRespond ==
  ASSUME Inv, Answered, NEW u \in Uploads, NEW status, NEW file,
         Respond(u, status, file), UNCHANGED <<rows, stored>>,
         upload[u].at \in {"receiving", "moved", "uploaded"},
         status # 201, status = 408 => upload[u].at = "receiving"
  PROVE  Answered'
<1>1. /\ \A v \in Uploads :
           upload'[v] = IF v = u THEN [at |-> "responding", name |-> Nil, file |-> file]
                        ELSE upload[v]
      /\ response' = [v \in Uploads |-> response'[v]]
      /\ \A v \in Uploads \ {u} : response'[v] = response[v]
      /\ response'[u] = status
  BY DEF Inv, Tables, Answered, Respond
<1>2. upload[u].at = "receiving" => rows[u].status = "none" /\ stored[u] = Nil
  BY DEF Inv, CommitAlone, Answered
<1> SUFFICES ASSUME NEW v \in Uploads
             PROVE  /\ upload'[v].at = "receiving" => upload'[v].file \in Files
                    /\ upload'[v].at \in {"new", "receiving"} => stored[v] = Nil
                    /\ upload'[v].at \in {"new", "receiving", "moved", "uploaded"} =>
                         response'[v] = 0
                    /\ response'[v] = 201 => rows[v].status # "none"
                    /\ response'[v] = 408 =>
                         /\ upload'[v].at \in {"responding", "closed"}
                         /\ rows[v].status = "none" /\ stored[v] = Nil
  BY <1>1 DEF Answered
<1>3. CASE v = u
  BY <1>1, <1>2, <1>3
<1>4. CASE v # u
  BY <1>1, <1>4 DEF Answered
<1> QED BY <1>3, <1>4

LEMMA OpenFacts ==
  ASSUME Inv, Facts, NEW u \in Uploads, NEW name, OpenStagingFile(u, name)
  PROVE  Facts'
<1>1. /\ upload[u].at = "new" /\ dist.name # Nil
      /\ UNCHANGED <<dist, response, rows, stored, damaged, offers, installed>>
  BY DEF OpenStagingFile, packVars, dbVars, clientVars
<1>2. PICK file \in ArchiveNow :
        upload' = [upload EXCEPT ![u] = [at |-> "receiving", name |-> name,
                                         file |-> file]]
  BY DEF OpenStagingFile
<1>3. file \in Files
  <2>1. PICK t \in Targets, c \in Contents : dist.dir = PackToDirectory(t, Built, c)
    BY <1>1 DEF Facts, Packed
  <2>2. \/ file = Blocks(dist.dir)
        \/ \E n \in Cuts : file = Written(dist.dir, n)
    BY DEF ArchiveNow
  <2> QED BY <2>1, <2>2, PackedIsFile
<1>4. \A v \in Uploads :
        upload'[v] = IF v = u THEN [at |-> "receiving", name |-> name, file |-> file]
                     ELSE upload[v]
  BY <1>2 DEF Inv, Tables
<1>5. Packed'
  BY <1>1 DEF Facts, Packed
<1>6. Answered'
  BY <1>1, <1>3, <1>4 DEF Facts, Answered
<1> QED BY <1>1, <1>5, <1>6, KeptFrame DEF Facts

LEMMA CommitFacts ==
  ASSUME Inv, Facts, NEW u \in Uploads, OnBodyChunk(u)
  PROVE  Facts'
<1>1. /\ upload[u].at = "receiving" /\ CommitOn(u)
      /\ UNCHANGED <<dist, rows, damaged, offers, installed>>
  BY DEF OnBodyChunk, Commit, packVars, dbVars, clientVars
<1>2. /\ rows[u].status = "none" /\ stored[u] = Nil /\ response[u] = 0
      /\ upload[u].file \in Files
  BY <1>1 DEF Inv, CommitAlone, Facts, Answered
<1>3. Packed'
  BY <1>1 DEF Facts, Packed
<1>4. CASE upload[u].file = <<>>
  <2>1. Respond(u, 400, <<>>) /\ UNCHANGED stored
    BY <1>1, <1>4 DEF CommitOn
  <2>2. Answered'
    BY <1>1, <2>1, AnsweredRespond DEF Facts
  <2> QED BY <1>1, <1>3, <2>1, <2>2, KeptFrame DEF Facts
<1>5. CASE upload[u].file # <<>>
  <2>1. PICK file \in {upload[u].file, <<Torn>>} :
          stored' = [stored EXCEPT ![u] = file]
    BY <1>1, <1>5 DEF CommitOn, SafePackageStoragePath
  <2>2. file \in Files
    BY <1>2 DEF Files
  <2>3. Kept'
    BY <1>1, <1>2, <2>1, <2>2, KeptStore DEF Facts
  <2>4. /\ \A v \in Uploads \ {u} : stored'[v] = stored[v]
        /\ \A v \in Uploads :
             upload'[v] = IF v = u THEN [at |-> "moved", name |-> upload[u].name,
                                         file |-> <<>>]
                          ELSE upload[v]
        /\ UNCHANGED response
    BY <1>1, <1>5, <2>1 DEF CommitOn, Inv, Tables, Facts, Kept, StoredFiles
  <2>5. Answered'
    BY <1>1, <1>2, <2>4 DEF Facts, Answered
  <2> QED BY <1>3, <2>3, <2>5 DEF Facts
<1> QED BY <1>4, <1>5

(* A commit that fails leaves everything but its session. *)
LEMMA FailFacts ==
  ASSUME Inv, Facts, NEW u \in Uploads, CommitFails(u),
         upload[u].at \in {"moved", "uploaded"},
         UNCHANGED <<dist, damaged, offers, installed>>
  PROVE  Facts'
<1>1. Respond(u, 400, <<>>) /\ UNCHANGED <<rows, stored>>
  BY DEF CommitFails
<1>2. Answered'
  BY <1>1, AnsweredRespond DEF Facts
<1>3. Packed'
  BY DEF Facts, Packed
<1> QED BY <1>1, <1>2, <1>3, KeptFrame DEF Facts

(* What passes in the repository is a file, and it is its own SHA-256. *)
LEMMA PassesGood ==
  ASSUME Kept, NEW p \in Uploads, NEW name, NEW status, Passes(stored[p], name)
  PROVE  LET r == Row(status, Metadata[stored[p]])
         IN  /\ r.status = status /\ r.name = name /\ r.sha = stored[p]
             /\ Good(r.sha, r.name)
<1>1. stored[p] \in Files /\ Metadata[stored[p]] # Unreadable
      /\ name = Metadata[stored[p]].name
  BY DEF Passes, Kept, StoredFiles
<1>2. Metadata[stored[p]].sha = stored[p]
  BY <1>1, PassedIsWhole
<1> QED BY <1>1, <1>2 DEF Row, Good

LEMMA UploadedFacts ==
  ASSUME Inv, Facts, NEW u \in Uploads, CommitUploaded(u)
  PROVE  Facts'
<1>1. /\ upload[u].at = "moved"
      /\ UNCHANGED <<dist, damaged, offers, installed>>
  BY DEF CommitUploaded, packVars, clientVars
<1>2. CASE CommitFails(u)
  BY <1>1, <1>2, FailFacts
<1>3. CASE ~CommitFails(u)
  <2> DEFINE r == Row("uploaded", Metadata[stored[u]])
  <2>1. /\ Passes(stored[u], upload[u].name)
        /\ rows' = [rows EXCEPT ![u] = r]
        /\ upload' = [upload EXCEPT ![u].at = "uploaded"]
        /\ UNCHANGED <<response, stored>>
    BY <1>3 DEF CommitUploaded, UpsertAgentPackage, SafePackageStoragePath
  <2>2. /\ r.status = "uploaded" /\ r.sha = stored[u] /\ Good(r.sha, r.name)
    BY <2>1, PassesGood DEF Facts
  <2> HIDE DEF r
  <2>3. \A q \in Uploads : rows'[q] = IF q = u THEN r ELSE rows[q]
    BY <2>1 DEF Inv, Tables
  <2>4. rows[u].status = "none"
    BY <1>1 DEF Inv, CommitAlone
  <2>5. Kept'
    BY <1>1, <2>1, <2>2, <2>3, <2>4, KeptWrite DEF Facts
  <2>6. /\ upload'[u].at = "uploaded"
        /\ \A v \in Uploads \ {u} : upload'[v] = upload[v]
    BY <2>1 DEF Inv, Tables
  <2>7. Answered'
    BY <1>1, <2>1, <2>2, <2>3, <2>6 DEF Facts, Answered
  <2>8. Packed'
    BY <1>1 DEF Facts, Packed
  <2> QED BY <2>5, <2>7, <2>8 DEF Facts
<1> QED BY <1>2, <1>3

(* The row of p keeps its file and its name and gets another status. *)
LEMMA StatusFacts ==
  ASSUME Inv, Facts, NEW p \in Uploads, NEW r, rows[p].status # "none",
         r.status # "none", r.name = rows[p].name, r.sha = rows[p].sha,
         rows' = [rows EXCEPT ![p] = r],
         UNCHANGED <<stored, damaged, offers, installed>>
  PROVE  /\ Kept'
         /\ \A q \in Uploads : rows'[q].status = "none" <=> rows[q].status = "none"
<1>1. \A q \in Uploads : rows'[q] = IF q = p THEN r ELSE rows[q]
  BY DEF Inv, Tables
<1>2. /\ Good(r.sha, r.name)
      /\ p \notin damaged => stored[p] = r.sha
  BY DEF Facts, Kept, KeptRow, Good
<1>3. Kept'
  BY <1>1, <1>2, KeptWrite DEF Facts
<1> QED BY <1>1, <1>3

LEMMA ValidatedFacts ==
  ASSUME Inv, Facts, NEW u \in Uploads, CommitValidated(u)
  PROVE  Facts'
<1>1. /\ upload[u].at = "uploaded"
      /\ UNCHANGED <<dist, damaged, offers, installed>>
  BY DEF CommitValidated, packVars, clientVars
<1>2. CASE CommitFails(u)
  BY <1>1, <1>2, FailFacts
<1>3. CASE ~CommitFails(u)
  <2>1. PICK status \in {201, 400} :
          /\ rows' = [rows EXCEPT ![u] = [rows[u] EXCEPT !.status = "validated"]]
          /\ Respond(u, status, <<>>) /\ UNCHANGED stored
    BY <1>3 DEF CommitValidated, UpsertAgentPackage
  <2>2. rows[u].status = "uploaded" /\ response[u] = 0
    BY <1>1 DEF Inv, CommitAlone, Facts, Answered
  <2>4. /\ Kept'
        /\ \A q \in Uploads : rows'[q].status = "none" <=> rows[q].status = "none"
    <3> DEFINE r == [rows[u] EXCEPT !.status = "validated"]
    <3>1. /\ rows[u].status # "none" /\ r.status # "none"
          /\ r.name = rows[u].name /\ r.sha = rows[u].sha
      BY <2>2 DEF Inv, Tables
    <3>2. UNCHANGED <<stored, damaged, offers, installed>>
      BY <1>1, <2>1
    <3>3. rows' = [rows EXCEPT ![u] = r]
      BY <2>1
    <3> HIDE DEF r
    <3> QED BY <3>1, <3>2, <3>3, StatusFacts
  <2>5. /\ \A v \in Uploads :
             upload'[v] = IF v = u THEN [at |-> "responding", name |-> Nil, file |-> <<>>]
                          ELSE upload[v]
        /\ response' = [v \in Uploads |-> response'[v]]
        /\ \A v \in Uploads \ {u} : response'[v] = response[v]
        /\ response'[u] = status
    <3>1. /\ upload = [v \in Uploads |-> upload[v]]
          /\ response = [v \in Uploads |-> response[v]]
      BY DEF Inv, Tables, Facts, Answered
    <3>2. /\ upload' = [upload EXCEPT ![u] = [at |-> "responding", name |-> Nil,
                                              file |-> <<>>]]
          /\ response' = [response EXCEPT ![u] = status]
      BY <2>1, <2>2 DEF Respond
    <3> QED BY <3>1, <3>2
  <2>6. Answered'
    BY <2>1, <2>2, <2>4, <2>5 DEF Facts, Answered
  <2>7. Packed'
    BY <1>1 DEF Facts, Packed
  <2> QED BY <2>4, <2>6, <2>7 DEF Facts
<1> QED BY <1>2, <1>3

(* An administrator's request that writes the row of p and leaves sessions *)
(* and files alone.                                                        *)
LEMMA AdminFacts ==
  ASSUME Facts, Kept', UNCHANGED <<dist, upload, response, stored>>,
         \A q \in Uploads : rows'[q].status = "none" <=> rows[q].status = "none"
  PROVE  Facts'
<1>1. Packed'
  BY DEF Facts, Packed
<1>2. Answered'
  BY DEF Facts, Answered
<1> QED BY <1>1, <1>2 DEF Facts

LEMMA ValidateFacts ==
  ASSUME Inv, Facts, NEW p \in Uploads, Validate(p)
  PROVE  Facts'
<1> DEFINE v == Row("validated", Metadata[stored[p]])
           j == [rows[p] EXCEPT !.status = "rejected"]
<1>1. /\ UNCHANGED <<dist, upload, response, stored, damaged, offers, installed>>
      /\ rows[p].status # "none"
      /\ \/ Passes(stored[p], rows[p].name) /\ rows' = [rows EXCEPT ![p] = v]
         \/ rows' = [rows EXCEPT ![p] = j]
  BY DEF Validate, UpsertAgentPackage, SafePackageStoragePath, packVars,
         sessionVars, fileVars, clientVars
<1>2. CASE Passes(stored[p], rows[p].name) /\ rows' = [rows EXCEPT ![p] = v]
  <2>1. /\ v.status = "validated" /\ v.name = rows[p].name /\ v.sha = stored[p]
        /\ Good(v.sha, v.name)
    BY <1>2, PassesGood DEF Facts
  <2> HIDE DEF v
  <2>2. \A q \in Uploads : rows'[q] = IF q = p THEN v ELSE rows[q]
    BY <1>2 DEF Inv, Tables
  <2>3. Kept'
    BY <1>1, <2>1, <2>2, KeptWrite DEF Facts
  <2>4. \A q \in Uploads : rows'[q].status = "none" <=> rows[q].status = "none"
    BY <1>1, <2>1, <2>2
  <2> QED BY <1>1, <2>3, <2>4, AdminFacts
<1>3. CASE rows' = [rows EXCEPT ![p] = j]
  <2>1. j.status # "none" /\ j.name = rows[p].name /\ j.sha = rows[p].sha
    BY DEF Inv, Tables
  <2> HIDE DEF j
  <2>2. /\ Kept'
        /\ \A q \in Uploads : rows'[q].status = "none" <=> rows[q].status = "none"
    BY <1>1, <1>3, <2>1, StatusFacts
  <2> QED BY <1>1, <2>2, AdminFacts
<1> QED BY <1>1, <1>2, <1>3

(* A publication, or a retirement. *)
LEMMA PublishFacts ==
  ASSUME Inv, Facts, NEW p \in Uploads,
         Retire(p) \/ \E channel \in Channels : Publish(p, channel)
  PROVE  Facts'
<1>1. PICK s \in {"retired", "published"} :
        /\ rows' = [rows EXCEPT ![p].status = s] /\ rows[p].status # "none"
        /\ UNCHANGED <<dist, upload, response, stored, damaged, offers, installed>>
  BY DEF Retire, Publish, packVars, sessionVars, fileVars, clientVars
<1> DEFINE r == [rows[p] EXCEPT !.status = s]
<1>2. /\ rows' = [rows EXCEPT ![p] = r]
      /\ r.status # "none" /\ r.name = rows[p].name /\ r.sha = rows[p].sha
  BY <1>1 DEF Inv, Tables
<1> HIDE DEF r
<1>3. /\ Kept'
      /\ \A q \in Uploads : rows'[q].status = "none" <=> rows[q].status = "none"
  BY <1>1, <1>2, StatusFacts
<1> QED BY <1>1, <1>3, AdminFacts

(* Packages with rows are offered. *)
LEMMA OfferFacts ==
  ASSUME Facts, NEW packages, \A p \in packages : p \in Uploads /\ rows[p].status # "none",
         Offer(packages), UNCHANGED <<dist, upload, response, rows, stored, damaged>>
  PROVE  Facts'
<1>1. \A p \in Uploads : KeptRow(p)
  BY DEF Facts, Kept
<1>2. ASSUME NEW o \in offers' PROVE KeptOffer(o)'
  <2>1. PICK p \in packages : o = [package |-> p, sha |-> rows[p].sha]
    BY DEF Offer
  <2> QED BY <1>1, <2>1 DEF KeptRow, KeptOffer, Good
<1>3. KeptInstallation'
  BY DEF Offer, KeptInstallation
<1>4. StoredFiles' /\ \A p \in Uploads : KeptRow(p)'
  BY <1>1 DEF Facts, Kept, StoredFiles, KeptRow, Good
<1>5. Kept'
  BY <1>2, <1>3, <1>4 DEF Kept
<1> QED BY <1>5, AdminFacts

LEMMA OptionsFacts ==
  ASSUME Facts, \/ \E channel \in Channels : InstallOptions(channel)
                \/ \E p \in Uploads : ScheduleUpgrade(p)
  PROVE  Facts'
<1>1. CASE \E channel \in Channels : InstallOptions(channel)
  <2>1. PICK channel \in Channels : InstallOptions(channel)
    BY <1>1
  <2>2. UNCHANGED <<dist, upload, response, rows, stored, damaged>>
    BY <2>1 DEF InstallOptions, packVars, sessionVars, fileVars, dbVars
  <2>3. PICK agent \in Uploads, installer \in Uploads :
          /\ rows[agent].status = "published" /\ rows[installer].status = "published"
          /\ Offer({agent, installer})
    BY <2>1 DEF InstallOptions, FindDefaultPublishedAgentPackage
  <2> QED BY <2>2, <2>3, OfferFacts
<1>2. CASE \E p \in Uploads : ScheduleUpgrade(p)
  <2>1. PICK p \in Uploads : ScheduleUpgrade(p)
    BY <1>2
  <2>2. UNCHANGED <<dist, upload, response, rows, stored, damaged>>
    BY <2>1 DEF ScheduleUpgrade, packVars, sessionVars, fileVars, dbVars
  <2>3. PICK installer \in Uploads :
          /\ rows[p].status # "none" /\ rows[installer].status = "published"
          /\ Offer({p, installer})
    BY <2>1 DEF ScheduleUpgrade, FindCompatibleInstallerPackage, Candidate
  <2> QED BY <2>2, <2>3, OfferFacts
<1> QED BY <1>1, <1>2

LEMMA DownloadFacts ==
  ASSUME Facts, NEW o \in offers, Download(o)
  PROVE  Facts'
<1>1. /\ stored[o.package] = o.sha
      /\ installed' = [package |-> o.package, dir |-> Unpacked[o.sha]]
      /\ UNCHANGED <<dist, upload, response, rows, stored, damaged, offers>>
  BY DEF Download, SafePackageStoragePath, packVars, sessionVars, fileVars, dbVars
<1>2. KeptOffer(o)
  BY DEF Facts, Kept
<1>3. KeptInstallation'
  BY <1>1, <1>2 DEF KeptOffer, KeptInstallation, Good
<1>4. Kept'
  BY <1>1, <1>3 DEF Facts, Kept, StoredFiles, KeptRow, KeptOffer, Good
<1> QED BY <1>1, <1>4, AdminFacts

LEMMA DamageFacts ==
  ASSUME Facts, NEW p \in Uploads, Damage(p)
  PROVE  Facts'
<1>1. /\ rows[p].status # "none" /\ damaged' = damaged \cup {p}
      /\ UNCHANGED <<dist, upload, response, rows, offers, installed>>
  BY DEF Damage, packVars, sessionVars, dbVars, clientVars
<1>2. PICK file :
        /\ stored' = [stored EXCEPT ![p] = file]
        /\ file = Nil \/ file \in Files
  <2>1. ASSUME NEW content \in Contents, stored[p] # Nil,
               Unpacked[stored[p]] # Unreadable
        PROVE  Changed(stored[p], content) \in Files
    BY <2>1, ChangedIsFile DEF Facts, Kept, StoredFiles
  <2> QED BY <2>1 DEF Damage
<1>3. \A q \in Uploads : stored'[q] = IF q = p THEN file ELSE stored[q]
  BY <1>2 DEF Facts, Kept, StoredFiles
<1>4. StoredFiles'
  <2>1. stored' = [q \in Uploads |-> stored'[q]]
    BY <1>2 DEF Facts, Kept, StoredFiles
  <2>2. \A q \in Uploads : stored'[q] = Nil \/ stored'[q] \in Files
    BY <1>2, <1>3 DEF Facts, Kept, StoredFiles
  <2> QED BY <2>1, <2>2 DEF StoredFiles
<1>5. \A q \in Uploads : KeptRow(q)'
  BY <1>1, <1>3 DEF Facts, Kept, KeptRow, Good
<1>6. \A o \in offers' : KeptOffer(o)'
  BY <1>1, <1>3 DEF Facts, Kept, KeptOffer, Good
<1>7. KeptInstallation'
  BY <1>1 DEF Facts, Kept, KeptInstallation, Good
<1>8. Kept'
  BY <1>4, <1>5, <1>6, <1>7 DEF Kept
<1>9. Packed'
  BY <1>1 DEF Facts, Packed
<1>10. Answered'
  <2>1. \A u \in Uploads : stored[u] = Nil => stored'[u] = Nil \/ u = p
    BY <1>3
  <2>2. stored[p] # Nil
    BY DEF Damage
  <2> QED BY <1>1, <1>3, <2>2 DEF Facts, Answered
<1> QED BY <1>8, <1>9, <1>10 DEF Facts

LEMMA NextFacts == Inv /\ Facts /\ [Next]_vars => Facts'
<1> SUFFICES ASSUME Inv, Facts, [Next]_vars PROVE Facts'
  OBVIOUS
<1>1. CASE PackagerStep
  <2>1. UNCHANGED <<upload, response, rows, stored, damaged, offers, installed>>
    BY <1>1 DEF PackagerStep, Pack, CreateArchive, sessionVars, fileVars, dbVars,
                clientVars
  <2>2. Packed'
    <3>1. ASSUME NEW t \in Targets, NEW c \in Contents, Pack(t, c) PROVE Packed'
      BY <3>1 DEF Pack, Packed
    <3>2. CASE CreateArchive
      <4>1. dist.name # Nil /\ dist' = [dist EXCEPT !.done = TRUE]
        BY <3>2 DEF CreateArchive
      <4>2. dist'.dir = dist.dir
        BY <4>1
      <4> QED BY <4>1, <4>2 DEF Facts, Packed
    <3> QED BY <1>1, <3>1, <3>2 DEF PackagerStep
  <2>3. Kept'
    BY <2>1, KeptFrame DEF Facts
  <2>4. Answered'
    BY <2>1 DEF Facts, Answered
  <2> QED BY <2>2, <2>3, <2>4 DEF Facts
<1>2. CASE \E u \in Uploads, name \in Names \cup {Nil} : OpenStagingFile(u, name)
  BY <1>2, OpenFacts
<1>3. ASSUME NEW u \in Uploads, SessionStep(u) PROVE Facts'
  <2>1. CASE Refuse(u)
    <3>1. /\ upload[u].at = "receiving"
          /\ UNCHANGED <<dist, rows, stored, damaged, offers, installed>>
      BY <2>1 DEF Refuse, packVars, fileVars, dbVars, clientVars
    <3>2. PICK status \in {400, 408} : Respond(u, status, upload[u].file)
      BY <2>1 DEF Refuse
    <3>3. Answered'
      BY <3>1, <3>2, AnsweredRespond DEF Facts
    <3>4. Packed' /\ Kept'
      BY <3>1, KeptFrame DEF Facts, Packed
    <3> QED BY <3>3, <3>4 DEF Facts
  <2>2. CASE Close(u)
    <3>1. /\ UNCHANGED <<dist, response, rows, stored, damaged, offers, installed>>
          /\ upload' = [upload EXCEPT ![u] = [at |-> "closed", name |-> Nil,
                                              file |-> <<>>]]
      BY <2>2 DEF Close, packVars, dbVars, clientVars
    <3>2. \A v \in Uploads : upload'[v] = upload[v] \/ upload'[v].at = "closed"
      BY <3>1 DEF Inv, Tables
    <3>3. Answered'
      BY <3>1, <3>2, AnsweredFrame DEF Facts
    <3>4. Packed' /\ Kept'
      BY <3>1, KeptFrame DEF Facts, Packed
    <3> QED BY <3>3, <3>4 DEF Facts
  <2> QED BY <1>3, <2>1, <2>2, CommitFacts, UploadedFacts, ValidatedFacts
          DEF SessionStep
<1>4. CASE AdminStep
  BY <1>4, ValidateFacts, PublishFacts, OptionsFacts, DownloadFacts DEF AdminStep
<1>5. CASE Crash
  <2>1. /\ UNCHANGED <<dist, response, rows, stored, damaged, offers, installed>>
        /\ \A u \in Uploads : upload'[u] = upload[u] \/ upload'[u].at = "closed"
    BY <1>5 DEF Crash, packVars, fileVars, dbVars, clientVars
  <2>2. Answered'
    BY <2>1, AnsweredFrame DEF Facts
  <2>3. Packed' /\ Kept'
    BY <2>1, KeptFrame DEF Facts, Packed
  <2> QED BY <2>2, <2>3 DEF Facts
<1>6. CASE \E p \in Uploads : Damage(p)
  BY <1>6, DamageFacts
<1>7. CASE UNCHANGED vars
  <2>1. UNCHANGED <<dist, upload, response, rows, stored, damaged, offers, installed>>
    BY <1>7 DEF vars, packVars, sessionVars, fileVars, dbVars, clientVars
  <2>2. Packed' /\ Kept'
    BY <2>1, KeptFrame DEF Facts, Packed
  <2>3. Answered'
    BY <2>1 DEF Facts, Answered
  <2> QED BY <2>2, <2>3 DEF Facts
<1> QED BY <1>1, <1>2, <1>3, <1>4, <1>5, <1>6, <1>7 DEF Next

LEMMA FactsAlways == Spec => []Facts
<1> QED BY InitFacts, NextFacts, InvAlways, PTL DEF Spec

(* A row of agent_packages stands for a whole package under its own name,  *)
(* for any targets, contents and cuts: no archive that was still being     *)
(* written, and none whose payload was built anew while it was packed,     *)
(* passes ValidateAgentPackageUpload.                                      *)
THEOREM RowsAreWholeHolds == Spec => []RowsAreWhole
<1>1. Facts => RowsAreWhole
  BY PassedIsWhole DEF Facts, Kept, KeptRow, Good, RowsAreWhole
<1> QED BY <1>1, FactsAlways, PTL

(* A 201 has its row for ever, a 408 left neither a row nor a file, in     *)
(* whatever order uploads, timers, crashes and the administrator's         *)
(* requests come.                                                          *)
THEOREM UploadAnsweredHolds == Spec => []UploadAnswered
<1>1. Facts => UploadAnswered
  BY DEF Facts, Answered, UploadAnswered
<1> QED BY <1>1, FactsAlways, PTL

(* The repository keeps the file of every row and of every offer as it was *)
(* recorded, unless it is damaged there.                                   *)
THEOREM FilesKeptHolds == Spec => []FilesKept
<1>1. Facts => FilesKept
  BY DEF Facts, Kept, KeptRow, KeptOffer, FilesKept
<1> QED BY <1>1, FactsAlways, PTL

(* What a machine unpacks of what it was offered is a whole package of     *)
(* that name, though the row may have been validated anew, and the file    *)
(* damaged, in between.                                                    *)
THEOREM InstalledWholeHolds == Spec => []InstalledWhole
<1>1. Facts => InstalledWhole
  <2> SUFFICES ASSUME Facts, installed # Nil
               PROVE  Whole(installed.dir, rows[installed.package].name)
    BY DEF InstalledWhole
  <2>1. PICK file \in Files : /\ Good(file, rows[installed.package].name)
                              /\ installed.dir = Unpacked[file]
    BY DEF Facts, Kept, KeptInstallation
  <2> QED BY <2>1, PassedIsWhole DEF Good
<1> QED BY <1>1, FactsAlways, PTL

----------------------------------------------------------------------------
(* The types. *)

(* The blocks of every file. *)
LEMMA FileBlocks ==
  ASSUME NEW file \in Files, NEW b \in ToSet(file)
  PROVE  b.kind \in {"file", "entry", "end", "torn"}
<1> DEFINE Kinds == {"file", "entry", "end", "torn"}
<1>1. PICK i \in DOMAIN file : b = file[i]
  BY DEF ToSet
<1>2. ASSUME NEW t, NEW c, NEW d, NEW k \in 1..5
      PROVE  Blocks5(t, c, d)[k].kind \in Kinds
  BY DEF Blocks5, LocalFile, DirectoryEntry, EndRecord
<1>3. CASE file = <<Torn>>
  BY <1>1, <1>3 DEF Torn
<1>4. ASSUME NEW t \in Targets, NEW c \in Contents, NEW d \in Contents,
             file = Blocks5(t, c, d)
      PROVE  b.kind \in Kinds
  <2>1. i \in 1..5
    BY <1>1, <1>4 DEF Blocks5
  <2> QED BY <1>1, <1>2, <1>4, <2>1
<1>5. ASSUME NEW t \in Targets, NEW c \in Contents, NEW d \in Contents,
             file = Changed(Blocks(PackToDirectory(t, Built, c)), d)
      PROVE  b.kind \in Kinds
  BY <1>4, <1>5, BlocksOf, ChangedBlocks
<1>6. ASSUME NEW t \in Targets, NEW c \in Contents, NEW n \in Cuts,
             file = Written(PackToDirectory(t, Built, c), n)
      PROVE  b.kind \in Kinds
  <2> DEFINE B == Blocks5(t, c, c)
             S == {B[k] : k \in 1..5}
             part == SubSeq(B, 1, n)
  <2>1. Len(B) = 5 /\ \A k \in 1..5 : B[k] \in S
    BY DEF Blocks5
  <2>2. \A x \in S \cup {Torn} : x.kind \in Kinds
    BY <1>2 DEF Torn
  <2>3. Blocks(PackToDirectory(t, Built, c)) = B
    BY BlocksOf
  <2>4. n \in 0..5
    BY PackageConstants
  <2>5. file = part \/ file = part \o <<Torn>>
    BY <1>6, <2>3 DEF Written
  <2> HIDE DEF B, S
  <2>6. part \in Seq(S)
    <3>1. n \in Int /\ \A k \in 1..n : B[k] \in S
      BY <2>1, <2>4
    <3> QED BY <3>1, SubSeqProperties
  <2> HIDE DEF part
  <2>7. part \in Seq(S \cup {Torn}) /\ part \o <<Torn>> \in Seq(S \cup {Torn})
    BY <2>6
  <2>8. b \in S \cup {Torn}
    BY <1>1, <2>5, <2>7
  <2> QED BY <2>2, <2>8
<1> QED BY <1>3, <1>5, <1>6 DEF Files

Counters ==
  /\ dist.name \in Names \cup {Nil}
  /\ packs \in 0..MaxPacks /\ crashes \in 0..MaxCrashes
  /\ damaged \subseteq Uploads /\ IsFiniteSet(damaged)
  /\ Cardinality(damaged) <= MaxDamages

Sessions ==
  /\ thread \in Uploads \cup {Nil} /\ staged \subseteq Uploads
  /\ \A u \in Uploads :
       /\ upload[u].at \in {"new", "receiving", "moved", "uploaded",
                            "responding", "closed"}
       /\ thread = u => upload[u].at \in {"moved", "uploaded"}
       /\ response[u] \in {0, 201, 400, 408}

Statuses ==
  \A u \in Uploads :
    rows[u].status \in
      {"none", "uploaded", "validated", "published", "retired", "rejected"}

Published ==
  \A pub \in pubs : pub.channel \in Channels /\ pub.isDefault \in BOOLEAN

LEMMA InitTypes == Init => Counters /\ Sessions /\ Statuses /\ Published
<1> SUFFICES ASSUME Init PROVE Counters /\ Sessions /\ Statuses /\ Published
  OBVIOUS
<1>1. Counters
  BY PackageConstants, FS_EmptySet DEF Init, Counters
<1>2. \A u \in Uploads : upload[u] = NoUpload /\ rows[u] = NoRow /\ response[u] = 0
  BY DEF Init
<1>3. Sessions
  BY <1>2, PackageConstants DEF Init, Sessions, NoUpload
<1>4. Statuses
  BY <1>2 DEF Statuses, NoRow
<1>5. Published
  BY DEF Init, Published
<1> QED BY <1>1, <1>3, <1>4, <1>5

LEMMA NextCounters == Counters /\ [Next]_vars => Counters'
<1> SUFFICES ASSUME Counters, [Next]_vars PROVE Counters'
  OBVIOUS
<1>1. CASE UNCHANGED <<dist, packs, crashes, damaged>>
  BY <1>1 DEF Counters
<1>2. CASE PackagerStep
  <2>1. ASSUME NEW t \in Targets, NEW c \in Contents, Pack(t, c) PROVE Counters'
    BY <2>1, PackageConstants DEF Pack, Counters, Names, fileVars
  <2>2. CASE CreateArchive
    BY <2>2 DEF CreateArchive, Counters, fileVars
  <2> QED BY <1>2, <2>1, <2>2 DEF PackagerStep
<1>3. CASE \E u \in Uploads, name \in Names \cup {Nil} : OpenStagingFile(u, name)
  BY <1>1, <1>3 DEF OpenStagingFile, packVars
<1>4. CASE \E u \in Uploads : SessionStep(u)
  BY <1>1, <1>4 DEF SessionStep, OnBodyChunk, Commit, Refuse, CommitUploaded,
                    CommitValidated, Close, packVars, fileVars
<1>5. CASE AdminStep
  BY <1>1, <1>5 DEF AdminStep, Validate, Retire, ScheduleUpgrade, Publish,
                    InstallOptions, Download, packVars, fileVars
<1>6. CASE Crash
  BY <1>6, PackageConstants DEF Crash, Counters, packVars, fileVars
<1>7. ASSUME NEW p \in Uploads, Damage(p) PROVE Counters'
  <2>1. /\ Cardinality(damaged) < MaxDamages /\ damaged' = damaged \cup {p}
        /\ UNCHANGED <<dist, packs, crashes>>
    BY <1>7 DEF Damage, packVars
  <2>2. IsFiniteSet(damaged) /\ Cardinality(damaged) \in Nat
    BY FS_CardinalityType DEF Counters
  <2>3. CASE p \in damaged
    <3>1. damaged' = damaged
      BY <2>1, <2>3
    <3> QED BY <2>1, <3>1 DEF Counters
  <2>4. CASE p \notin damaged
    <3>1. IsFiniteSet(damaged') /\ Cardinality(damaged') = Cardinality(damaged) + 1
      BY <2>1, <2>2, <2>4, FS_AddElement
    <3> QED BY <2>1, <2>2, <3>1, PackageConstants DEF Counters
  <2> QED BY <2>3, <2>4
<1>8. CASE UNCHANGED vars
  BY <1>1, <1>8 DEF vars, packVars, fileVars
<1> QED BY <1>2, <1>3, <1>4, <1>5, <1>6, <1>7, <1>8 DEF Next

(* The session of u answers. *)
LEMMA RespondTypes ==
  ASSUME Inv, Answered, Sessions, NEW u \in Uploads, NEW status \in {201, 400, 408},
         NEW file, Respond(u, status, file), staged' \subseteq Uploads
  PROVE  Sessions'
<1>1. \A v \in Uploads :
        upload'[v] = IF v = u THEN [at |-> "responding", name |-> Nil, file |-> file]
                     ELSE upload[v]
  BY DEF Inv, Tables, Respond
<1>2. \A v \in Uploads :
        response'[v] = IF v = u THEN (IF response[u] = 0 THEN status ELSE response[u])
                       ELSE response[v]
  BY DEF Answered, Respond
<1>3. thread' = Nil
  BY DEF Respond
<1> QED BY <1>1, <1>2, <1>3, PackageConstants DEF Sessions

LEMMA NextSessions == Inv /\ Facts /\ Sessions /\ [Next]_vars => Sessions'
<1> SUFFICES ASSUME Inv, Facts, Sessions, [Next]_vars PROVE Sessions'
  OBVIOUS
<1>0. Answered /\ upload = [u \in Uploads |-> upload[u]]
  BY DEF Facts, Inv, Tables
<1>1. CASE UNCHANGED <<upload, response, thread, staged>>
  BY <1>1 DEF Sessions
<1>2. CASE PackagerStep
  BY <1>1, <1>2 DEF PackagerStep, Pack, CreateArchive, sessionVars, fileVars
<1>3. ASSUME NEW u \in Uploads, NEW name, OpenStagingFile(u, name) PROVE Sessions'
  <2>1. /\ thread = Nil /\ UNCHANGED <<response, thread>> /\ staged' = staged \cup {u}
        /\ \E file : upload' = [upload EXCEPT ![u] = [at |-> "receiving", name |-> name,
                                                      file |-> file]]
    BY <1>3 DEF OpenStagingFile
  <2>2. \A v \in Uploads : upload'[v].at = IF v = u THEN "receiving" ELSE upload[v].at
    BY <1>0, <2>1
  <2> QED BY <2>1, <2>2, PackageConstants DEF Sessions
<1>4. ASSUME NEW u \in Uploads, SessionStep(u) PROVE Sessions'
  <2>1. CASE Refuse(u)
    <3>1. PICK status \in {400, 408} : Respond(u, status, upload[u].file)
      BY <2>1 DEF Refuse
    <3>2. staged' \subseteq Uploads
      BY <2>1 DEF Refuse, fileVars, Sessions
    <3> QED BY <1>0, <3>1, <3>2, RespondTypes
  <2>2. CASE OnBodyChunk(u)
    <3>1. /\ thread = Nil /\ CommitOn(u)
          /\ staged' \subseteq Uploads
      BY <2>2 DEF OnBodyChunk, Commit, CommitOn, Sessions
    <3>2. CASE upload[u].file = <<>>
      <4>1. Respond(u, 400, <<>>)
        BY <3>1, <3>2 DEF CommitOn
      <4> QED BY <1>0, <3>1, <4>1, RespondTypes
    <3>3. CASE upload[u].file # <<>>
      <4>1. /\ thread' = u /\ UNCHANGED response
            /\ upload' = [upload EXCEPT ![u] = [at |-> "moved", name |-> @.name,
                                                file |-> <<>>]]
        BY <3>1, <3>3 DEF CommitOn
      <4>2. \A v \in Uploads : upload'[v].at = IF v = u THEN "moved" ELSE upload[v].at
        BY <1>0, <4>1
      <4> QED BY <3>1, <4>1, <4>2 DEF Sessions
    <3> QED BY <3>2, <3>3
  <2>3. CASE CommitUploaded(u)
    <3>1. UNCHANGED staged /\ thread = u
      BY <2>3 DEF CommitUploaded
    <3>2. CASE CommitFails(u)
      <4>1. Respond(u, 400, <<>>)
        BY <3>2 DEF CommitFails
      <4> QED BY <1>0, <3>1, <4>1, RespondTypes DEF Sessions
    <3>3. CASE ~CommitFails(u)
      <4>1. /\ UNCHANGED <<response, thread>>
            /\ upload' = [upload EXCEPT ![u].at = "uploaded"]
        BY <2>3, <3>3 DEF CommitUploaded
      <4>2. \A v \in Uploads : upload'[v].at = IF v = u THEN "uploaded" ELSE upload[v].at
        BY <4>1 DEF Inv, Tables
      <4> QED BY <3>1, <4>1, <4>2 DEF Sessions
    <3> QED BY <3>2, <3>3
  <2>4. CASE CommitValidated(u)
    <3>1. PICK status \in {201, 400} : Respond(u, status, <<>>)
      BY <2>4 DEF CommitValidated, CommitFails
    <3>2. staged' \subseteq Uploads
      BY <2>4 DEF CommitValidated, Sessions
    <3> QED BY <1>0, <3>1, <3>2, RespondTypes
  <2>5. CASE Close(u)
    <3>1. /\ thread = Nil /\ UNCHANGED <<response, thread>> /\ staged' = staged \ {u}
          /\ upload' = [upload EXCEPT ![u] = [at |-> "closed", name |-> Nil,
                                              file |-> <<>>]]
      BY <2>5 DEF Close
    <3>2. \A v \in Uploads : upload'[v].at = IF v = u THEN "closed" ELSE upload[v].at
      BY <1>0, <3>1
    <3> QED BY <3>1, <3>2, PackageConstants DEF Sessions
  <2> QED BY <1>4, <2>1, <2>2, <2>3, <2>4, <2>5 DEF SessionStep
<1>5. CASE AdminStep
  BY <1>1, <1>5 DEF AdminStep, Validate, Retire, ScheduleUpgrade, Publish,
                    InstallOptions, Download, sessionVars, fileVars
<1>6. CASE Crash
  <2>1. /\ thread' = Nil /\ UNCHANGED <<response, staged>>
        /\ upload' = [u \in Uploads |->
                        IF upload[u].at = "new" THEN upload[u]
                        ELSE [at |-> "closed", name |-> Nil, file |-> <<>>]]
    BY <1>6 DEF Crash, fileVars
  <2> QED BY <2>1, PackageConstants DEF Sessions
<1>7. CASE \E p \in Uploads : Damage(p)
  BY <1>1, <1>7 DEF Damage, sessionVars
<1>8. CASE UNCHANGED vars
  BY <1>1, <1>8 DEF vars, sessionVars, fileVars
<1> QED BY <1>2, <1>3, <1>4, <1>5, <1>6, <1>7, <1>8 DEF Next

LEMMA NextStatuses == Inv /\ Statuses /\ [Next]_vars => Statuses'
<1> SUFFICES ASSUME Inv, Statuses, [Next]_vars PROVE Statuses'
  OBVIOUS
<1>0. rows = [q \in Uploads |-> rows[q]]
  BY DEF Inv, Tables
<1>1. CASE UNCHANGED rows
  BY <1>1 DEF Statuses
<1>2. ASSUME NEW p \in Uploads, NEW r, rows' = [rows EXCEPT ![p] = r],
             r.status \in {"uploaded", "validated", "published", "retired", "rejected"}
      PROVE  Statuses'
  BY <1>0, <1>2 DEF Statuses
<1>3. ASSUME NEW p \in Uploads, NEW s \in {"validated", "published", "retired", "rejected"},
             rows' = [rows EXCEPT ![p] = [rows[p] EXCEPT !.status = s]]
      PROVE  Statuses'
  <2> DEFINE r == [rows[p] EXCEPT !.status = s]
  <2>1. r.status = s /\ rows' = [rows EXCEPT ![p] = r]
    BY <1>3 DEF Inv, Tables
  <2> HIDE DEF r
  <2> QED BY <1>2, <2>1
<1>4. ASSUME NEW p \in Uploads, NEW s \in {"uploaded", "validated"}, NEW m,
             rows' = [rows EXCEPT ![p] = Row(s, m)]
      PROVE  Statuses'
  <2>1. Row(s, m).status = s
    BY DEF Row
  <2> QED BY <1>2, <1>4, <2>1
<1>5. CASE PackagerStep
  BY <1>1, <1>5 DEF PackagerStep, Pack, CreateArchive, dbVars
<1>6. CASE \E u \in Uploads, name \in Names \cup {Nil} : OpenStagingFile(u, name)
  BY <1>1, <1>6 DEF OpenStagingFile, dbVars
<1>7. ASSUME NEW u \in Uploads, SessionStep(u) PROVE Statuses'
  <2>1. CASE OnBodyChunk(u) \/ Refuse(u) \/ Close(u)
    BY <1>1, <2>1 DEF OnBodyChunk, Commit, Refuse, Close, dbVars
  <2>2. CASE CommitUploaded(u)
    BY <1>1, <1>4, <2>2 DEF CommitUploaded, CommitFails, UpsertAgentPackage
  <2>3. CASE CommitValidated(u)
    BY <1>1, <1>3, <2>3 DEF CommitValidated, CommitFails, UpsertAgentPackage
  <2> QED BY <1>7, <2>1, <2>2, <2>3 DEF SessionStep
<1>8. CASE AdminStep
  <2>1. ASSUME NEW p \in Uploads, Validate(p) PROVE Statuses'
    BY <1>3, <1>4, <2>1 DEF Validate, UpsertAgentPackage
  <2>2. ASSUME NEW p \in Uploads, Retire(p) PROVE Statuses'
    <3>1. rows' = [rows EXCEPT ![p] = [rows[p] EXCEPT !.status = "retired"]]
      BY <2>2 DEF Retire
    <3> QED BY <1>3, <3>1
  <2>3. ASSUME NEW p \in Uploads, NEW channel, Publish(p, channel) PROVE Statuses'
    <3>1. rows' = [rows EXCEPT ![p] = [rows[p] EXCEPT !.status = "published"]]
      BY <2>3 DEF Publish
    <3> QED BY <1>3, <3>1
  <2>4. ASSUME \/ \E p \in Uploads : ScheduleUpgrade(p)
               \/ \E channel \in Channels : InstallOptions(channel)
               \/ \E o \in offers : Download(o)
        PROVE  Statuses'
    BY <1>1, <2>4 DEF ScheduleUpgrade, InstallOptions, Download, dbVars
  <2> QED BY <1>8, <2>1, <2>2, <2>3, <2>4 DEF AdminStep
<1>9. CASE Crash
  BY <1>1, <1>9 DEF Crash, dbVars
<1>10. CASE \E p \in Uploads : Damage(p)
  BY <1>1, <1>10 DEF Damage, dbVars
<1>11. CASE UNCHANGED vars
  BY <1>1, <1>11 DEF vars, dbVars
<1> QED BY <1>5, <1>6, <1>7, <1>8, <1>9, <1>10, <1>11 DEF Next

LEMMA NextPublished == Inv /\ Published /\ [Next]_vars => Published'
<1> SUFFICES ASSUME Inv, Published, [Next]_vars PROVE Published'
  OBVIOUS
<1>1. CASE UNCHANGED pubs
  BY <1>1 DEF Published
<1>2. ASSUME NEW old \in pubs
      PROVE  [old EXCEPT !.isDefault = FALSE].channel = old.channel
             /\ [old EXCEPT !.isDefault = FALSE].isDefault = FALSE
  <2>1. old = [package |-> old.package, component |-> old.component,
               channel |-> old.channel, isDefault |-> old.isDefault]
    BY DEF Inv, Tables, Publication
  <2> QED BY <2>1
<1>3. ASSUME NEW pub, NEW old \in pubs,
             pub = old \/ pub = [old EXCEPT !.isDefault = FALSE]
      PROVE  pub.channel \in Channels /\ pub.isDefault \in BOOLEAN
  BY <1>2, <1>3 DEF Published
<1>4. CASE PackagerStep
  BY <1>1, <1>4 DEF PackagerStep, Pack, CreateArchive, dbVars
<1>5. CASE \E u \in Uploads, name \in Names \cup {Nil} : OpenStagingFile(u, name)
  BY <1>1, <1>5 DEF OpenStagingFile, dbVars
<1>6. CASE \E u \in Uploads : SessionStep(u)
  BY <1>1, <1>6 DEF SessionStep, OnBodyChunk, Commit, Refuse, CommitUploaded,
                    CommitValidated, Close, dbVars
<1>7. CASE AdminStep
  <2>1. ASSUME NEW p \in Uploads, Retire(p) PROVE Published'
    <3>1. \A pub \in pubs' : \E old \in pubs :
            pub = old \/ pub = [old EXCEPT !.isDefault = FALSE]
      BY <2>1 DEF Retire
    <3> QED BY <1>3, <3>1 DEF Published
  <2>2. ASSUME NEW p \in Uploads, NEW channel \in Channels, Publish(p, channel)
        PROVE  Published'
    <3> DEFINE new == Publication(p, rows[p].name.component, channel, TRUE)
    <3>1. \A pub \in pubs' :
            pub = new \/ \E old \in pubs :
                           pub = old \/ pub = [old EXCEPT !.isDefault = FALSE]
      BY <2>2 DEF Publish, PublishAgentPackage
    <3>2. new.channel \in Channels /\ new.isDefault \in BOOLEAN
      BY DEF Publication
    <3> HIDE DEF new
    <3> QED BY <1>3, <3>1, <3>2 DEF Published
  <2>3. ASSUME \/ \E p \in Uploads : Validate(p) \/ ScheduleUpgrade(p)
               \/ \E channel \in Channels : InstallOptions(channel)
               \/ \E o \in offers : Download(o)
        PROVE  Published'
    BY <1>1, <2>3 DEF Validate, ScheduleUpgrade, InstallOptions, Download, dbVars
  <2> QED BY <1>7, <2>1, <2>2, <2>3 DEF AdminStep
<1>8. CASE Crash
  BY <1>1, <1>8 DEF Crash, dbVars
<1>9. CASE \E p \in Uploads : Damage(p)
  BY <1>1, <1>9 DEF Damage, dbVars
<1>10. CASE UNCHANGED vars
  BY <1>1, <1>10 DEF vars, dbVars
<1> QED BY <1>4, <1>5, <1>6, <1>7, <1>8, <1>9, <1>10 DEF Next

(* The types of Packages, for any constants. *)
THEOREM TypeOKHolds == Spec => []TypeOK
<1>1. ASSUME Inv, Facts, Counters, Sessions, Statuses, Published
      PROVE  TypeOK
  <2>1. \A u \in Uploads : stored[u] = Nil \/
          \A b \in ToSet(stored[u]) : b.kind \in {"file", "entry", "end", "torn"}
    BY <1>1, FileBlocks DEF Facts, Kept, StoredFiles
  <2>2. \A u \in Uploads : thread = u <=> upload[u].at \in {"moved", "uploaded"}
    BY <1>1 DEF Inv, CommitAlone, Sessions
  <2>3. \A pub \in pubs : pub.package \in Uploads /\ pub.channel \in Channels
                          /\ pub.isDefault \in BOOLEAN
    BY <1>1 DEF Inv, Tables, Published
  <2>4. /\ \A o \in offers : o.package \in Uploads
        /\ installed = Nil \/ installed.package \in Uploads
    BY <1>1 DEF Facts, Kept, KeptOffer, KeptInstallation
  <2> QED BY <1>1, <2>1, <2>2, <2>3, <2>4 DEF TypeOK, Counters, Sessions, Statuses
<1> QED BY <1>1, InitTypes, NextCounters, NextSessions, NextStatuses, NextPublished,
          InvAlways, FactsAlways, PTL DEF Spec
=============================================================================
