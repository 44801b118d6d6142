----------------------------- MODULE Replication -----------------------------
(***************************************************************************)
(* replication.rs: the callback that applies the entries of the cluster's  *)
(* log to the store, while the node's own routes serve relations.  The     *)
(* messages that carry entries can be lost, repeated and reordered, and    *)
(* the callback checks neither index nor term: any entry can come at any   *)
(* time.  An entry is applied in one step; DocStore interleaves the        *)
(* transactions of the table, document and node operations it uses.        *)
(***************************************************************************)
EXTENDS RelationStore

VARIABLES
  tabs,   \* TABLES_TABLE: document count of a table, Absent when there is no such table
  pages,  \* documents that have nodes in NODES_TABLE
  latest  \* history: the entry applied last, as long as nothing else has changed the store

replicationVars == <<relVars, tabs, pages, latest, task, requests>>

Absent == -2

(***************************************************************************)
(* Applying a log entry                                                    *)
(***************************************************************************)

Entries ==
  [kind : {"UpsertTable", "DeleteTable"}, table : RTables]
    \cup [kind : {"UpsertDocument"}, doc : RDocs, table : RTables]
    \cup [kind : {"DeleteDocument", "UpsertNode", "DeleteNode"}, doc : RDocs]
    \cup [kind : {"CreateRelation", "DeleteRelation"}, from : RDocs, to : RDocs, type : RelTypes]
    \cup [kind : {"Noop"}]

NoEntry == [kind |-> "none"]

\* The tables as one value, so that applying an entry is an operator on them.
Db == [home |-> home, tabs |-> tabs, pages |-> pages, rel |-> rel, spent |-> spent]

\* Mutant: the subtraction is not clamped.
AddToUnclamped(t, n, counts) ==
  IF t = NoHome \/ counts[t] = Absent THEN counts ELSE [counts EXCEPT ![t] = @ + n]

\* update_table_count_in_txn; a table that is gone is passed over.
AddTo(t, n, counts) ==
  IF t = NoHome \/ counts[t] = Absent THEN counts
  ELSE [counts EXCEPT ![t] = IF @ + n < 0 THEN 0 ELSE @ + n]

DropDocument(db, d) ==
  IF db.home[d] = NoHome THEN db
  ELSE [db EXCEPT !.tabs = AddTo(db.home[d], -1, @), !.home[d] = NoHome, !.pages = @ \ {d}]

DropTable(db, t) ==
  LET gone == {d \in RDocs : db.home[d] = t}
  IN  [db EXCEPT !.tabs[t] = Absent, !.pages = @ \ gone,
                 !.home = [d \in RDocs |-> IF d \in gone THEN NoHome ELSE @[d]]]

\* update_document for a document that is there, insert_document otherwise; both want the table.
PutDocument(db, d, t) ==
  IF db.home[d] = t THEN db
  ELSE [db EXCEPT !.tabs = AddTo(t, 1, AddTo(db.home[d], -1, @)), !.home[d] = t]

\* Mutant: a replayed entry is inserted again.
CreatedAgain(db, x) ==
  IF db.spent + 2 > MaxRelations THEN db
  ELSE [db EXCEPT !.rel = Inserted(@, x, db.spent + 1, db.spent + 2), !.spent = @ + 2]

\* CreateRelation ignores what insert_relation returns.
Created(db, x) ==
  IF \/ ~Present(db.home, x.from) \/ ~Present(db.home, x.to)
     \/ Duplicate(db.rel, x) \/ db.spent + 2 > MaxRelations
    THEN db
  ELSE [db EXCEPT !.rel = Inserted(@, x, db.spent + 1, db.spent + 2), !.spent = @ + 2]

\* DeleteRelation removes every listed relation to that document, whatever its type.
Unrelated(r, a, b) ==
  LET gone == {i \in AllRelations(r, a) : r.recs[i].to = b}
      Cleared(p) == \E i \in gone : p = <<r.recs[i].from, r.recs[i].to>>
  IN  [recs |-> [i \in RelIds |-> IF i \in gone THEN NoRel ELSE r.recs[i]],
       from |-> {e \in r.from : e[2] \notin gone},
       to   |-> {e \in r.to : e[2] \notin gone},
       pair |-> [p \in RDocs \X RDocs |-> IF Cleared(p) THEN NoRel ELSE r.pair[p]]]

Applies(db, e) ==
  e.kind = "UpsertDocument" => db.home[e.doc] = e.table \/ db.tabs[e.table] # Absent

Applied(db, e) ==
  CASE e.kind = "UpsertTable"    -> [db EXCEPT !.tabs[e.table] = 0]
    [] e.kind = "DeleteTable"    -> IF db.tabs[e.table] = Absent THEN db ELSE DropTable(db, e.table)
    [] e.kind = "UpsertDocument" -> PutDocument(db, e.doc, e.table)
    [] e.kind = "DeleteDocument" -> DropDocument(db, e.doc)
    [] e.kind = "UpsertNode"     -> [db EXCEPT !.pages = @ \cup {e.doc}]
    [] e.kind = "DeleteNode"     -> [db EXCEPT !.pages = @ \ {e.doc}]
    [] e.kind = "CreateRelation" -> Created(db, [from |-> e.from, to |-> e.to, type |-> e.type])
    [] e.kind = "DeleteRelation" -> [db EXCEPT !.rel = Unrelated(@, e.from, e.to)]
    [] OTHER                     -> db

ApplyEntry(t) ==
  \E e \in Entries :
    LET db == Applied(Db, e)
    IN  /\ Accept(t, Idle)
        /\ Applies(Db, e)
        /\ home' = db.home /\ tabs' = db.tabs /\ pages' = db.pages
        /\ rel' = db.rel /\ spent' = db.spent
        /\ latest' = e

ServeRelations(t) ==
  /\ RelationStep(t)
  /\ latest' = IF rel' = rel THEN latest ELSE NoEntry
  /\ UNCHANGED <<tabs, pages>>

\* A store the node was started with: empty, or one table with every document and a relation.
ReplicationInit ==
  /\ \/ home = [d \in RDocs |-> NoHome] /\ tabs = [t \in RTables |-> Absent]
        /\ rel = NoRelations /\ spent = 0
     \/ \E h \in RTables, x \in Relation :
          /\ home = [d \in RDocs |-> h]
          /\ tabs = [t \in RTables |-> IF t = h THEN Cardinality(RDocs) ELSE 0]
          /\ rel = Inserted(NoRelations, x, 1, 2) /\ spent = 2
  /\ pages = {} /\ latest = NoEntry
  /\ task = [t \in RTasks |-> Idle] /\ requests = 0

ReplicationNext ==
  \E t \in RTasks : ApplyEntry(t) \/ ServeRelations(t)

(***************************************************************************)
(* Properties                                                              *)
(***************************************************************************)

\* Every variable has its type.
ReplicationTypeOK ==
  /\ home \in [RDocs -> RTables \cup {NoHome}]
  /\ tabs \in [RTables -> Nat \cup {Absent}]
  /\ pages \subseteq RDocs /\ spent \in 0..MaxRelations
  /\ rel \in [recs : [RelIds -> Relation \cup {NoRel}], from : SUBSET (RDocs \X RelIds),
              to : SUBSET (RDocs \X RelIds), pair : [RDocs \X RDocs -> RelIds \cup {NoRel}]]
  /\ task \in [RTasks -> RelTasks] /\ requests \in 0..MaxRequests
  /\ latest \in Entries \cup {NoEntry}

\* A retried append request is harmless: from every state that applying an entry leads to, the
\* same entry applies once more and changes nothing.
ReplayIsHarmless == latest # NoEntry => Applies(Db, latest) /\ Applied(Db, latest) = Db
=============================================================================
