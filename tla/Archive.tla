------------------------------ MODULE Archive ------------------------------
(***************************************************************************)
(* The ZIP archives of libs/package as sequences of blocks, an offset      *)
(* being the number of a block: for each file its local header with its    *)
(* data, then one directory entry per file, then the end record.           *)
(*                                                                         *)
(* A path is its place in the order of paths, the manifest's being the     *)
(* first.  A checksum is the value it was computed of; the reader compares *)
(* the two copies of it in an archive and never computes it again.         *)
(***************************************************************************)
EXTENDS Naturals, Sequences, FiniteSets, SequencesExt

CONSTANT Unreadable   \* for an exception of the reader

ManifestPath == 0

(* What a writer that stops leaves of the block it was at. *)
Torn == [kind |-> "torn"]

LocalFile(path, data) ==
  [kind |-> "file", path |-> path, sum |-> data, data |-> data]

DirectoryEntry(path, sum, at) ==
  [kind |-> "entry", path |-> path, sum |-> sum, at |-> at]

EndRecord(at, size, count) ==
  [kind |-> "end", at |-> at, size |-> size, count |-> count]

(* A directory is a function from paths to data. *)
CollectSourceEntries(dir) ==
  CHOOSE paths \in [1..Cardinality(DOMAIN dir) -> DOMAIN dir] :
    \A i, k \in DOMAIN paths : i < k => paths[i] < paths[k]

(* CreateArchive, block for block. *)
Blocks(dir) ==
  LET paths == CollectSourceEntries(dir)
      n == Len(paths)
  IN  [i \in 1..n |-> LocalFile(paths[i], dir[paths[i]])]
        \o [i \in 1..n |-> DirectoryEntry(paths[i], dir[paths[i]], i)]
        \o <<EndRecord(n + 1, n, n)>>

(* The file at the archive's own path when n blocks of it are written. *)
Written(dir, n) ==
  IF n = 0 \/ n = Len(Blocks(dir)) THEN SubSeq(Blocks(dir), 1, n)
  ELSE SubSeq(Blocks(dir), 1, n) \o <<Torn>>

(* Searched from the end of the file, which it must reach. *)
LocateEndOfCentralDirectory(file) ==
  IF file # <<>> /\ Last(file).kind = "end" THEN Last(file) ELSE Unreadable

ParseCentralDirectory(file) ==
  LET end == LocateEndOfCentralDirectory(file)
      entries == SubSeq(file, end.at, end.at + end.size - 1)
      Bad(e) == e.kind # "entry" \/ e.at \notin DOMAIN file
  IN  IF \/ end = Unreadable
         \/ end.at + end.size - 1 > Len(file)
         \/ Len(entries) # end.count
         \/ \E e \in ToSet(entries) : Bad(e)
         \/ \E i, k \in DOMAIN entries : i < k /\ entries[i].path = entries[k].path
      THEN Unreadable
      ELSE entries

ListArchiveEntries(file) ==
  LET entries == ParseCentralDirectory(file)
  IN  IF entries = Unreadable THEN Unreadable
      ELSE {e.path : e \in ToSet(entries)}

(* The local header must agree with the entry of the directory. *)
ReadLocalFileInfo(file, entry) ==
  LET block == file[entry.at]
  IN  IF block.kind = "file" /\ block.path = entry.path /\ block.sum = entry.sum
      THEN block ELSE Unreadable

(* The data behind it is inflated. *)
ReadArchiveEntryBytes(file, entry) ==
  LET info == ReadLocalFileInfo(file, entry)
  IN  IF info = Unreadable THEN Unreadable ELSE info.data

ReadArchiveFile(file, path) ==
  LET entries == ParseCentralDirectory(file)
      named == IF entries = Unreadable THEN {}
               ELSE {e \in ToSet(entries) : e.path = path}
  IN  IF named = {} THEN Unreadable
      ELSE ReadArchiveEntryBytes(file, CHOOSE e \in named : TRUE)

(* The extracted directory; an entry that cannot be read fails it all. *)
ExtractArchive(file) ==
  LET paths == ListArchiveEntries(file)
  IN  IF paths = Unreadable
         \/ \E p \in paths : ReadArchiveFile(file, p) = Unreadable
      THEN Unreadable
      ELSE [p \in paths |-> ReadArchiveFile(file, p)]
=============================================================================
