------------------------------ MODULE Backups ------------------------------
(***************************************************************************)
(* Backups, restores, exports and imports: backup/manager.rs, snapshot.rs, *)
(* export.rs and their routes, next to the writers of the store.  The      *)
(* backup directory has no lock: an operation loads the whole index, works *)
(* on files and writes the whole index back.  A snapshot reads tables,     *)
(* documents and the nodes of each document in separate transactions, and  *)
(* the file of a backup is named after its second and its type.            *)
(***************************************************************************)
EXTENDS Integers, FiniteSets

CONSTANTS
  Admins,      \* administrators, each with one operation at a time
  BTabs, BDocs,
  NoTab,
  MaxAdminOps, \* bound on the operations of administrators, and so on backups
  MaxWrites,   \* bound on the writes to the store and on crashes
  MaxSecond    \* bound on the clock

ASSUME BackupsAssumption ==
  MaxAdminOps \in Nat /\ MaxWrites \in Nat /\ MaxSecond \in Nat /\ NoTab \notin BTabs

VARIABLES
  live,      \* the store: tables, table of each document, documents with nodes
  target,    \* the database at the path that backups are restored to, and who has it open
  index,     \* index.json: the backups it lists and the last full one; Torn when half written
  files,     \* the backup files
  dump,      \* the file of the last export
  job,       \* what each administrator is doing
  second, adminOps, writes,
  taken,     \* history: what each backup read from the store
  disturbed  \* history: operations overlapped, one was cut off, or two files had one name

backupVars == <<live, target, index, files, dump, job, second, adminOps, writes, taken, disturbed>>

Types == {"full", "incr"}
Ids == 1..MaxAdminOps
Content == [tabs : SUBSET BTabs, home : [BDocs -> BTabs \cup {NoTab}], pages : SUBSET BDocs]
Empty == [tabs |-> {}, home |-> [d \in BDocs |-> NoTab], pages |-> {}]

NoContent == [Empty EXCEPT !.tabs = {NoTab}]  \* stands for a missing or a damaged file
Paths == (0..MaxSecond) \X Types

Infos == [id : Ids, path : Paths]
Torn == [list |-> {}, last |-> -1]
Indexes == [list : SUBSET Infos, last : 0..MaxAdminOps] \cup {Torn}

NoTarget == [step |-> "none", id |-> 0, by |-> {}, data |-> Empty]

NoJob == [step |-> "none"]
Works(a, step) == job[a].step = step
Carry(a, j) == job' = [job EXCEPT ![a] = j]

\* One table holds every document.
BackupsInit ==
  /\ \E t \in BTabs : live = [tabs |-> {t}, home |-> [d \in BDocs |-> t], pages |-> BDocs]
  /\ target = NoTarget
  /\ index = [list |-> {}, last |-> 0]
  /\ files = [p \in Paths |-> NoContent] /\ dump = Empty
  /\ job = [a \in Admins |-> NoJob]
  /\ second = 0 /\ adminOps = 0 /\ writes = 0
  /\ taken = [i \in Ids |-> NoContent] /\ disturbed = FALSE

\* An operation begins; index.json must be readable.
Ask(a, j) ==
  /\ Works(a, "none") /\ adminOps < MaxAdminOps
  /\ adminOps' = adminOps + 1
  /\ Carry(a, j)
  /\ disturbed' = (disturbed \/ \E b \in Admins : job[b] # NoJob)
  /\ UNCHANGED <<live, second, writes, taken>>

Go(a, j) == Carry(a, j) /\ UNCHANGED <<live, second, adminOps, writes>>

(***************************************************************************)
(* create_backup                                                           *)
(***************************************************************************)

Fulls(list) == {i \in list : i.path[2] = "full"}

\* An incremental backup wants the last full one to be listed.  It is a full snapshot, too.
BeginBackup(a) ==
  \E type \in Types :
    /\ index # Torn
    /\ type = "incr" => \E i \in index.list : i.id = index.last
    /\ Ask(a, [step |-> "tables", id |-> adminOps + 1, type |-> type, loaded |-> index,
               data |-> Empty, at |-> 0])
    /\ UNCHANGED <<target, index, files, dump>>

SnapshotTables(a) ==
  /\ Works(a, "tables")
  /\ Go(a, [job[a] EXCEPT !.step = "documents", !.data.tabs = live.tabs])
  /\ UNCHANGED <<target, index, files, dump, taken, disturbed>>

SnapshotDocuments(a) ==
  /\ Works(a, "documents")
  /\ Go(a, [job[a] EXCEPT !.step = "nodes", !.data.home = live.home])
  /\ UNCHANGED <<target, index, files, dump, taken, disturbed>>

\* The nodes of the documents listed before, as far as they are still there.  The backup's
\* created_at, which names its file, is the time at which its snapshot is complete.
SnapshotNodes(a) ==
  /\ Works(a, "nodes")
  /\ Go(a, [job[a] EXCEPT !.step = "file", !.at = second,
              !.data.pages = {d \in live.pages : job[a].data.home[d] # NoTab}])
  /\ UNCHANGED <<target, index, files, dump, taken, disturbed>>

\* save_to_file replaces what is at the path.
SaveFile(a) ==
  LET path == <<job[a].at, job[a].type>>
  IN  /\ Works(a, "file")
      /\ files' = [files EXCEPT ![path] = job[a].data]
      /\ taken' = [taken EXCEPT ![job[a].id] = job[a].data]
      /\ disturbed' = (disturbed \/ files[path] # NoContent)
      /\ Go(a, [step |-> "index",
                new |-> [list |-> job[a].loaded.list \cup {[id |-> job[a].id, path |-> path]},
                         last |-> IF job[a].type = "full" THEN job[a].id
                                  ELSE job[a].loaded.last]])
      /\ UNCHANGED <<target, index, dump>>

\* save_index, the last step of creating, deleting and pruning.
SaveIndex(a) ==
  /\ Works(a, "index")
  /\ index' = job[a].new
  /\ Go(a, NoJob)
  /\ UNCHANGED <<target, files, dump, taken, disturbed>>

(***************************************************************************)
(* delete_backup and prune                                                 *)
(***************************************************************************)

\* created_at is finer than the second in the file name; ids follow it within a second.
Newer(k, i) == k.path[1] > i.path[1] \/ (k.path[1] = i.path[1] /\ k.id > i.id)

LatestFull(list) ==
  IF Fulls(list) = {} THEN 0
  ELSE (CHOOSE i \in Fulls(list) : \A k \in Fulls(list) : ~Newer(k, i)).id

Unlink(gone) == [p \in Paths |-> IF \E i \in gone : i.path = p THEN NoContent ELSE files[p]]

\* Mutant: the last full backup is left as it was.
WithoutKeepsLast(gone) == [list |-> index.list \ gone, last |-> index.last]

Without(gone) ==
  LET rest == index.list \ gone
  IN  [list |-> rest, last |-> IF \E i \in gone : i.id = index.last THEN LatestFull(rest)
                               ELSE index.last]

DeleteBackup(a) ==
  \E i \in index.list :
    /\ index # Torn
    /\ files' = Unlink({i})
    /\ Ask(a, [step |-> "index", new |-> Without({i})])
    /\ UNCHANGED <<target, index, dump>>

\* The newest of each type are kept; the last full backup is then the newest one kept.
Kept(list, type, n) ==
  {i \in list : /\ i.path[2] = type
                /\ Cardinality({k \in list : k.path[2] = type /\ Newer(k, i)}) < n}

Prune(a) ==
  \E n \in {0, 1} :
    LET rest == Kept(index.list, "full", 1) \cup Kept(index.list, "incr", n)
    IN  /\ index # Torn
        /\ files' = Unlink(index.list \ rest)
        /\ Ask(a, [step |-> "index", new |-> [list |-> rest, last |-> LatestFull(rest)]])
        /\ UNCHANGED <<target, index, dump>>

(***************************************************************************)
(* restore                                                                 *)
(***************************************************************************)

\* A target that exists wants overwrite; then the backup is read and its checksum compared.
RestoreLoad(a) ==
  \E i \in index.list, overwrite \in BOOLEAN :
    /\ index # Torn /\ files[i.path] # NoContent
    /\ target.step # "none" => overwrite
    /\ Ask(a, [step |-> "remove", id |-> i.id, data |-> files[i.path], overwrite |-> overwrite])
    /\ UNCHANGED <<target, index, files, dump>>

\* The file is unlinked: a restore that has it open goes on with a file that has no name.
RestoreRemove(a) ==
  /\ Works(a, "remove")
  /\ target' = IF job[a].overwrite THEN NoTarget ELSE target
  /\ Go(a, [step |-> "open", id |-> job[a].id, data |-> job[a].data])
  /\ UNCHANGED <<index, files, dump, taken, disturbed>>

\* NodeStore::open takes the file that is there by now, unless somebody has it open.
RestoreOpen(a) ==
  /\ Works(a, "open")
  /\ \/ /\ target.by = {}
        /\ target' = [step |-> "begun", id |-> job[a].id, by |-> {a}, data |-> target.data]
        /\ Go(a, [step |-> "insertTables", data |-> job[a].data])
     \/ target.by # {} /\ UNCHANGED target /\ Go(a, NoJob)
  /\ UNCHANGED <<index, files, dump, taken, disturbed>>

HasHome(tabs, data, d) == data.home[d] # NoTab => data.home[d] \in tabs

\* Mutant: documents are inserted without a look at their tables.
RestorableAlways(tabs, data) == BDocs

\* The documents that insert_document takes.
Restorable(tabs, data) == {d \in BDocs : HasHome(tabs, data, d)}

\* The documents of data replace those of old.
Over(data, old, ds) == [d \in BDocs |-> IF d \in ds /\ data[d] # NoTab THEN data[d] ELSE old[d]]

\* restore_to_store inserts tables, documents and nodes.  insert_table refuses a table that is
\* there, insert_document a document without its table; the first error ends the restore.
Restore(a) ==
  LET data == job[a].data
      good == Restorable(target.data.tabs, data)
      clash == data.tabs \cap target.data.tabs
  IN  /\ target.by = {a}
      /\ \/ /\ Works(a, "insertTables") /\ clash = {}
            /\ target' = [target EXCEPT !.data.tabs = @ \cup data.tabs]
            /\ Go(a, [job[a] EXCEPT !.step = "insertDocuments"])
         \/ /\ Works(a, "insertTables") /\ clash # {}
            /\ \E ts \in SUBSET (data.tabs \ clash) :
                 target' = [target EXCEPT !.by = {}, !.data.tabs = @ \cup ts]
            /\ Go(a, NoJob)
         \/ /\ Works(a, "insertDocuments") /\ good = BDocs
            /\ target' = [target EXCEPT !.data.home = Over(data.home, @, BDocs)]
            /\ Go(a, [job[a] EXCEPT !.step = "insertNodes"])
         \/ /\ Works(a, "insertDocuments") /\ good # BDocs
            /\ \E ds \in SUBSET good :
                 target' = [target EXCEPT !.by = {}, !.data.home = Over(data.home, @, ds)]
            /\ Go(a, NoJob)
         \/ /\ Works(a, "insertNodes")
            /\ target' = [target EXCEPT !.step = "done", !.by = {}, !.data.pages = @ \cup data.pages]
            /\ Go(a, NoJob)
      /\ UNCHANGED <<index, files, dump, taken, disturbed>>

\* What it writes to an unlinked file nobody sees.
RestoreUnlinked(a) ==
  /\ \E step \in {"insertTables", "insertDocuments", "insertNodes"} : Works(a, step)
  /\ target.by # {a}
  /\ Go(a, NoJob)
  /\ UNCHANGED <<target, index, files, dump, taken, disturbed>>

(***************************************************************************)
(* Export and import                                                       *)
(***************************************************************************)

\* JSON holds tables, documents and nodes; JSON lines hold documents only.
Export(a) ==
  \E json \in BOOLEAN :
    /\ Ask(a, NoJob)
    /\ dump' = [tabs |-> IF json THEN live.tabs ELSE {}, home |-> live.home,
                pages |-> IF json THEN live.pages ELSE {}]
    /\ UNCHANGED <<target, index, files>>

\* With skip_existing a table that is there, or a document without its table, is passed over;
\* a document that is there is overwritten; nodes are inserted for documents passed over, too.
Import(a) ==
  LET tabs == live.tabs \cup dump.tabs
      Comes(d) == dump.home[d] # NoTab /\ dump.home[d] \in tabs
  IN  /\ Works(a, "none") /\ adminOps < MaxAdminOps
      /\ adminOps' = adminOps + 1
      /\ live' = [tabs |-> tabs, pages |-> live.pages \cup dump.pages,
                  home |-> [d \in BDocs |-> IF Comes(d) THEN dump.home[d] ELSE live.home[d]]]
      /\ UNCHANGED <<target, index, files, dump, job, second, writes, taken, disturbed>>

(***************************************************************************)
(* The rest of the server                                                  *)
(***************************************************************************)

Write ==
  /\ writes < MaxWrites /\ writes' = writes + 1
  /\ \/ \E t \in BTabs \ live.tabs : live' = [live EXCEPT !.tabs = @ \cup {t}]
     \/ \E t \in live.tabs :
          LET gone == {d \in BDocs : live.home[d] = t}
          IN  live' = [tabs |-> live.tabs \ {t}, pages |-> live.pages \ gone,
                       home |-> [d \in BDocs |-> IF d \in gone THEN NoTab ELSE live.home[d]]]
     \/ \E d \in BDocs, t \in live.tabs : live' = [live EXCEPT !.home[d] = t]
     \/ \E d \in BDocs : live.home[d] # NoTab /\ live' = [live EXCEPT !.pages = @ \cup {d}]
     \/ \E d \in BDocs : live' = [live EXCEPT !.home[d] = NoTab, !.pages = @ \ {d}]
  /\ UNCHANGED <<target, index, files, dump, job, second, adminOps, taken, disturbed>>

Tick ==
  /\ second < MaxSecond /\ second' = second + 1
  /\ UNCHANGED <<live, target, index, files, dump, job, adminOps, writes, taken, disturbed>>

\* The process dies; an index that is being written is left half written.
BackupsCrash ==
  /\ writes < MaxWrites /\ writes' = writes + 1
  /\ \E a \in Admins : job[a] # NoJob
  /\ job' = [a \in Admins |-> NoJob]
  /\ index' \in IF \E a \in Admins : Works(a, "index") THEN {index, Torn} ELSE {index}
  /\ disturbed' = TRUE
  /\ target' = [target EXCEPT !.by = {}]
  /\ UNCHANGED <<live, files, dump, second, adminOps, taken>>

BackupsNext ==
  \/ \E a \in Admins :
       \/ BeginBackup(a) \/ SnapshotTables(a) \/ SnapshotDocuments(a) \/ SnapshotNodes(a)
       \/ SaveFile(a) \/ SaveIndex(a) \/ DeleteBackup(a) \/ Prune(a)
       \/ RestoreLoad(a) \/ RestoreRemove(a) \/ RestoreOpen(a) \/ Restore(a) \/ RestoreUnlinked(a)
       \/ Export(a) \/ Import(a)
  \/ Write \/ Tick \/ BackupsCrash

(***************************************************************************)
(* Properties                                                              *)
(***************************************************************************)

\* Every variable has its type.
BackupsTypeOK ==
  /\ {live, dump, target.data} \subseteq Content
  /\ target.step \in {"none", "begun", "done"} /\ target.id \in 0..MaxAdminOps
  /\ target.by \subseteq Admins
  /\ index \in Indexes
  /\ files \in [Paths -> Content \cup {NoContent}] /\ taken \in [Ids -> Content \cup {NoContent}]
  /\ second \in 0..MaxSecond /\ adminOps \in 0..MaxAdminOps /\ writes \in 0..MaxWrites
  /\ disturbed \in BOOLEAN

\* An incremental backup can be taken exactly when a full one is listed: the last full backup
\* that the index names is in its list, however backups, deletions and prunings overlap and
\* overwrite each other's index.  As long as they do not overlap, are not cut off and do not
\* share a file name, every listed backup has its own snapshot on disk.
BackupIndexSound ==
  /\ index # Torn =>
       /\ index.last = 0 <=> Fulls(index.list) = {}
       /\ index.last # 0 => \E i \in Fulls(index.list) : i.id = index.last
  /\ (~disturbed /\ \A a \in Admins : ~Works(a, "index")) =>
       \A i \in index.list : files[i.path] = taken[i.id]

\* A restore that reports success yields a store whose documents have tables and whose nodes
\* have documents, although the snapshot was read in several transactions between which
\* tables and documents came and went, and other restores may remove, open or leave half filled
\* the same target; undisturbed, it is the snapshot that was taken.
RestoreIsFaithful ==
  target.step = "done" =>
    /\ \A d \in BDocs : HasHome(target.data.tabs, target.data, d)
    /\ \A d \in target.data.pages : target.data.home[d] # NoTab
    /\ ~disturbed => target.data = taken[target.id]
=============================================================================
