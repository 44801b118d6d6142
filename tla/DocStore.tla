------------------------------ MODULE DocStore ------------------------------
(***************************************************************************)
(* Tables, documents, their secondary indexes and the document-node index  *)
(* of reasondb-core (store/tables.rs, documents.rs, indexes.rs, nodes.rs), *)
(* driven by the server's routes and ingestion workers.                    *)
(*                                                                         *)
(* redb runs one write transaction at a time and a transaction is atomic,  *)
(* but almost every operation reads in one transaction and writes in       *)
(* another.  One action is one transaction; consecutive reads of one       *)
(* operation with nothing decided in between are one action.               *)
(***************************************************************************)
EXTENDS Integers, FiniteSets

CONSTANTS
  Clients,    \* requests and ingestion workers, each with one operation at a time
  Tables,     \* table ids
  Slugs,      \* normalized table names
  Docs,       \* document ids
  Keys,       \* index keys: a lower-cased tag or a formatted metadata entry
  NoTable, NoSlug, NoDoc,
  MaxOps,     \* bound on the operations started
  MaxCrashes  \* bound on crashes

ASSUME StoreAssumption ==
  /\ NoTable \notin Tables /\ NoSlug \notin Slugs /\ NoDoc \notin Docs
  /\ MaxOps \in Nat /\ MaxCrashes \in Nat

VARIABLES
  tabSlug,   \* TABLES_TABLE: slug of the table, NoSlug when there is no such table
  tabCount,  \* TABLES_TABLE: document_count
  slugIdx,   \* IDX_TABLE_SLUG
  docs,      \* DOCUMENTS_TABLE: table and index keys of the document, NoRec when absent
  idxTable,  \* IDX_TABLE_DOCS
  idxKey,    \* IDX_TAG_DOCS and IDX_METADATA
  nodes,     \* documents some of whose nodes are in NODES_TABLE
  nodeIdx,   \* DOC_NODES_INDEX: documents with an entry naming those nodes
  minted,    \* table and document ids generated so far (random UUIDs)
  op,        \* what each client is doing
  issued,    \* operations started
  crashes,
  raced      \* history: two conflicting operations have overlapped

storeVars == <<tabSlug, tabCount, slugIdx, docs, idxTable, idxKey, nodes, nodeIdx>>
tableVars == <<tabSlug, tabCount, slugIdx>>
docVars   == <<docs, idxTable, idxKey>>
nodeVars  == <<nodes, nodeIdx>>
vars == <<storeVars, minted, op, issued, crashes, raced>>

Rec   == [tab : Tables, keys : SUBSET Keys]
NoRec == [tab |-> NoTable, keys |-> {}]

Steps == {"idle", "insertTable", "updateTable", "writeTable", "listTable", "cascade",
          "cascadeDoc", "insertDoc", "insertNodes", "updateDoc", "writeDoc", "deleteDoc",
          "writeNode", "deleteNode"}

\* What an operation in flight remembers: its table, the slug to be written, the slug and
\* the count read before, its document, the record to be written, the record read before,
\* and the documents left to a cascade.
Ops == [step : Steps, t : Tables \cup {NoTable},
        s : Slugs \cup {NoSlug}, s0 : Slugs \cup {NoSlug}, n : Nat,
        d : Docs \cup {NoDoc}, new : Rec \cup {NoRec}, old : Rec \cup {NoRec},
        rest : SUBSET Docs]

Idle == [step |-> "idle", t |-> NoTable, s |-> NoSlug, s0 |-> NoSlug, n |-> 0, d |-> NoDoc,
         new |-> NoRec, old |-> NoRec, rest |-> {}]

Exists(t) == tabSlug[t] # NoSlug
Stored(d) == docs[d] # NoRec

Init ==
  /\ tabSlug = [t \in Tables |-> NoSlug]
  /\ tabCount = [t \in Tables |-> 0]
  /\ slugIdx = [s \in Slugs |-> NoTable]
  /\ docs = [d \in Docs |-> NoRec]
  /\ idxTable = {} /\ idxKey = {}
  /\ nodes = {} /\ nodeIdx = {}
  /\ minted = {}
  /\ op = [c \in Clients |-> Idle]
  /\ issued = 0
  /\ crashes = 0
  /\ raced = FALSE

(***************************************************************************)
(* Starting, continuing and ending an operation                            *)
(***************************************************************************)

Busy(c) == op[c].step # "idle"

\* Operations on different documents do not conflict; an operation on a table conflicts with
\* every other operation.
Conflicts(o) ==
  \E c \in Clients :
    Busy(c) /\ (o.d = NoDoc \/ op[c].d = NoDoc \/ op[c].step = "cascadeDoc" \/ op[c].d = o.d)

Begin(c, o) ==
  /\ ~Busy(c)
  /\ issued < MaxOps
  /\ issued' = issued + 1
  /\ op' = [op EXCEPT ![c] = o]
  /\ raced' = (raced \/ Conflicts(o))
  /\ UNCHANGED crashes

Continue(c, o) ==
  /\ op' = [op EXCEPT ![c] = o]
  /\ UNCHANGED <<minted, issued, crashes, raced>>

End(c) == Continue(c, Idle)

(***************************************************************************)
(* Secondary indexes and counts, inside the caller's transaction           *)
(***************************************************************************)

TableEntries(d, r) == IF r = NoRec THEN {} ELSE {<<r.tab, d>>}
KeyEntries(d, r)   == {<<k, d>> : k \in r.keys}

\* Mutant: the new values are indexed before the old ones are unindexed.
ReindexSwapped(d, old, new) ==
  /\ idxTable' = (idxTable \cup TableEntries(d, new)) \ TableEntries(d, old)
  /\ idxKey' = (idxKey \cup KeyEntries(d, new)) \ KeyEntries(d, old)

\* Mutant: the old values stay in the indexes.
ReindexAdds(d, old, new) ==
  /\ idxTable' = idxTable \cup TableEntries(d, new)
  /\ idxKey' = idxKey \cup KeyEntries(d, new)

\* unindex_document_in_txn of what was read before, then index_document_in_txn of what is
\* written now; NoRec where there is nothing to unindex or to index
Reindex(d, old, new) ==
  /\ idxTable' = (idxTable \ TableEntries(d, old)) \cup TableEntries(d, new)
  /\ idxKey' = (idxKey \ KeyEntries(d, old)) \cup KeyEntries(d, new)

\* update_table_count_in_txn: nothing without the table, and never below zero
Bump(count, t, n) ==
  IF t \in Tables /\ tabSlug[t] # NoSlug
  THEN [count EXCEPT ![t] = IF @ + n < 0 THEN 0 ELSE @ + n] ELSE count

\* The counts change when the document enters, leaves or changes its table.
Recount(old, new) ==
  tabCount' = IF old.tab = new.tab THEN tabCount
              ELSE Bump(Bump(tabCount, old.tab, -1), new.tab, 1)

(***************************************************************************)
(* Tables                                                                  *)
(***************************************************************************)

\* get_table_by_slug: an index entry whose table is gone counts as absent.
SlugOwner(s) == IF slugIdx[s] # NoTable /\ Exists(slugIdx[s]) THEN slugIdx[s] ELSE NoTable

\* create_table and the checks of insert_table; a taken name is an error and changes nothing
BeginInsertTable(c, t, s) ==
  /\ t \notin minted
  /\ SlugOwner(s) = NoTable
  /\ minted' = minted \cup {t}
  /\ Begin(c, [Idle EXCEPT !.step = "insertTable", !.t = t, !.s = s])
  /\ UNCHANGED storeVars

InsertTable(c) ==
  LET o == op[c] IN
  /\ o.step = "insertTable"
  /\ tabSlug' = [tabSlug EXCEPT ![o.t] = o.s]
  /\ tabCount' = [tabCount EXCEPT ![o.t] = 0]
  /\ slugIdx' = [slugIdx EXCEPT ![o.s] = o.t]
  /\ End(c)
  /\ UNCHANGED <<docVars, nodeVars>>

\* The update_table route (and the vocabulary update after an ingestion) read the whole
\* table, document_count included ...
BeginUpdateTable(c, t, s) ==
  /\ Exists(t)
  /\ Begin(c, [Idle EXCEPT !.step = "updateTable", !.t = t, !.s = s, !.n = tabCount[t]])
  /\ UNCHANGED <<storeVars, minted>>

\* ... the store reads the slug it has now and looks for a conflict ...
CheckUpdateTable(c) ==
  LET o == op[c] IN
  /\ o.step = "updateTable"
  /\ IF Exists(o.t) /\ (tabSlug[o.t] # o.s => SlugOwner(o.s) \in {NoTable, o.t})
     THEN Continue(c, [o EXCEPT !.step = "writeTable", !.s0 = tabSlug[o.t]])
     ELSE End(c)
  /\ UNCHANGED storeVars

\* The slug entries after a change of name from old to new
SlugsAfterUpdate(old, new, t) ==
  IF old = new THEN slugIdx
  ELSE [s \in Slugs |-> IF s = new THEN t ELSE IF s = old THEN NoTable ELSE slugIdx[s]]

\* ... and the commit writes back the table as the route read it, the old count with it; a
\* table deleted meanwhile is back.
UpdateTable(c) ==
  LET o == op[c] IN
  /\ o.step = "writeTable"
  /\ tabSlug' = [tabSlug EXCEPT ![o.t] = o.s]
  /\ tabCount' = [tabCount EXCEPT ![o.t] = o.n]
  /\ slugIdx' = SlugsAfterUpdate(o.s0, o.s, o.t)
  /\ End(c)
  /\ UNCHANGED <<docVars, nodeVars>>

BeginDeleteTable(c, t) ==
  /\ Exists(t)
  /\ Begin(c, [Idle EXCEPT !.step = "listTable", !.t = t, !.s0 = tabSlug[t]])
  /\ UNCHANGED <<storeVars, minted>>

\* get_documents_in_table: the documents the index names, whatever their own table_id says
DocumentsInTable(t) == {d \in Docs : <<t, d>> \in idxTable /\ Stored(d)}

ListTable(c, cascade) ==
  LET o == op[c] IN
  /\ o.step = "listTable"
  /\ IF cascade \/ DocumentsInTable(o.t) = {}
     THEN Continue(c, [o EXCEPT !.step = "cascade", !.rest = DocumentsInTable(o.t)])
     ELSE End(c)
  /\ UNCHANGED storeVars

\* delete_document for the next listed document: its read ...
CascadeRead(c, d) ==
  LET o == op[c] IN
  /\ o.step = "cascade"
  /\ d \in o.rest
  /\ Continue(c, IF Stored(d)
                 THEN [o EXCEPT !.step = "cascadeDoc", !.rest = @ \ {d}, !.d = d, !.old = docs[d]]
                 ELSE [o EXCEPT !.rest = @ \ {d}])
  /\ UNCHANGED storeVars

\* The transaction of delete_document: the nodes that the document-node index names, the
\* index entries and the count of the record read before, and the document.
RemoveDocument(d, old) ==
  /\ nodes' = IF d \in nodeIdx THEN nodes \ {d} ELSE nodes
  /\ nodeIdx' = nodeIdx \ {d}
  /\ Reindex(d, old, NoRec)
  /\ Recount(old, NoRec)
  /\ docs' = [docs EXCEPT ![d] = NoRec]
  /\ UNCHANGED <<tabSlug, slugIdx>>

\* ... and its write.
CascadeDelete(c) ==
  LET o == op[c] IN
  /\ o.step = "cascadeDoc"
  /\ RemoveDocument(o.d, o.old)
  /\ Continue(c, [o EXCEPT !.step = "cascade", !.d = NoDoc, !.old = NoRec])

DropTable(c) ==
  LET o == op[c] IN
  /\ o.step = "cascade"
  /\ o.rest = {}
  /\ tabSlug' = [tabSlug EXCEPT ![o.t] = NoSlug]
  /\ tabCount' = [tabCount EXCEPT ![o.t] = 0]
  /\ slugIdx' = [slugIdx EXCEPT ![o.s0] = NoTable]
  /\ End(c)
  /\ UNCHANGED <<docVars, nodeVars>>

(***************************************************************************)
(* Documents                                                               *)
(***************************************************************************)

\* An ingestion stores a new document: insert_document reads the table ...
BeginInsertDocument(c, d, t, keys) ==
  /\ d \notin minted
  /\ Exists(t)
  /\ minted' = minted \cup {d}
  /\ Begin(c, [Idle EXCEPT !.step = "insertDoc", !.d = d, !.new = [tab |-> t, keys |-> keys]])
  /\ UNCHANGED storeVars

\* ... writes the document, its index entries and the count ...
InsertDocument(c) ==
  LET o == op[c] IN
  /\ o.step = "insertDoc"
  /\ docs' = [docs EXCEPT ![o.d] = o.new]
  /\ Reindex(o.d, NoRec, o.new)
  /\ Recount(NoRec, o.new)
  /\ Continue(c, [o EXCEPT !.step = "insertNodes"])
  /\ UNCHANGED <<tabSlug, slugIdx, nodeVars>>

\* ... and insert_nodes its nodes, without looking at the document again.
InsertNodes(c) ==
  LET o == op[c] IN
  /\ o.step = "insertNodes"
  /\ nodes' = nodes \cup {o.d}
  /\ nodeIdx' = nodeIdx \cup {o.d}
  /\ End(c)
  /\ UNCHANGED <<tableVars, docVars>>

\* The update_document route reads the document and changes table, tags and metadata ...
BeginUpdateDocument(c, d, r) ==
  /\ Stored(d)
  /\ Begin(c, [Idle EXCEPT !.step = "updateDoc", !.d = d, !.new = r])
  /\ UNCHANGED <<storeVars, minted>>

\* ... the store reads it again for the index cleanup, and the table when it changed ...
CheckUpdateDocument(c) ==
  LET o == op[c] IN
  /\ o.step = "updateDoc"
  /\ IF Stored(o.d) /\ (docs[o.d].tab # o.new.tab => Exists(o.new.tab))
     THEN Continue(c, [o EXCEPT !.step = "writeDoc", !.old = docs[o.d]])
     ELSE End(c)
  /\ UNCHANGED storeVars

\* ... and commits; so does move_document_to_table.
UpdateDocument(c) ==
  LET o == op[c] IN
  /\ o.step = "writeDoc"
  /\ docs' = [docs EXCEPT ![o.d] = o.new]
  /\ Reindex(o.d, o.old, o.new)
  /\ Recount(o.old, o.new)
  /\ End(c)
  /\ UNCHANGED <<tabSlug, slugIdx, nodeVars>>

\* move_document_to_table: one read of the table and of the document, then the commit
BeginMoveDocument(c, d, t) ==
  /\ Exists(t)
  /\ Stored(d)
  /\ docs[d].tab # t
  /\ Begin(c, [Idle EXCEPT !.step = "writeDoc", !.d = d, !.old = docs[d],
                           !.new = [tab |-> t, keys |-> docs[d].keys]])
  /\ UNCHANGED <<storeVars, minted>>

BeginDeleteDocument(c, d) ==
  /\ Stored(d)
  /\ Begin(c, [Idle EXCEPT !.step = "deleteDoc", !.d = d, !.old = docs[d]])
  /\ UNCHANGED <<storeVars, minted>>

DeleteDocument(c) ==
  LET o == op[c] IN
  /\ o.step = "deleteDoc"
  /\ RemoveDocument(o.d, o.old)
  /\ End(c)

(***************************************************************************)
(* Nodes                                                                   *)
(***************************************************************************)

\* The update_node route and the summarizer hold a copy of a node ...
BeginUpdateNode(c, d) ==
  /\ d \in nodes
  /\ Begin(c, [Idle EXCEPT !.step = "writeNode", !.d = d])
  /\ UNCHANGED <<storeVars, minted>>

\* ... and update_node writes it whether or not the node is still there, and without the
\* document-node index.
UpdateNode(c) ==
  /\ op[c].step = "writeNode"
  /\ nodes' = nodes \cup {op[c].d}
  /\ End(c)
  /\ UNCHANGED <<tableVars, docVars, nodeIdx>>

BeginDeleteNode(c, d) ==
  /\ d \in nodes
  /\ Begin(c, [Idle EXCEPT !.step = "deleteNode", !.d = d])
  /\ UNCHANGED <<storeVars, minted>>

\* Mutant: the document-node index is left alone.
DeleteNodeKeepsIndex(c) ==
  /\ op[c].step = "deleteNode"
  /\ nodes' = nodes \ {op[c].d}
  /\ End(c)
  /\ UNCHANGED <<tableVars, docVars, nodeIdx>>

\* delete_node: the index entry goes when the node was still there.
DeleteNode(c) ==
  LET d == op[c].d IN
  /\ op[c].step = "deleteNode"
  /\ nodes' = nodes \ {d}
  /\ nodeIdx' = IF d \in nodes THEN nodeIdx \ {d} ELSE nodeIdx
  /\ End(c)
  /\ UNCHANGED <<tableVars, docVars>>

(***************************************************************************)
(* The specification                                                       *)
(***************************************************************************)

\* The server dies: committed transactions stay, the operations in flight are lost.
Crash ==
  /\ crashes < MaxCrashes
  /\ crashes' = crashes + 1
  /\ op' = [c \in Clients |-> Idle]
  /\ UNCHANGED <<storeVars, minted, issued, raced>>

BeginStep(c) ==
  \/ \E t \in Tables, s \in Slugs : BeginInsertTable(c, t, s) \/ BeginUpdateTable(c, t, s)
  \/ \E t \in Tables : BeginDeleteTable(c, t)
  \/ \E d \in Docs, t \in Tables, keys \in SUBSET Keys : BeginInsertDocument(c, d, t, keys)
  \/ \E d \in Docs, r \in Rec : BeginUpdateDocument(c, d, r)
  \/ \E d \in Docs, t \in Tables : BeginMoveDocument(c, d, t)
  \/ \E d \in Docs : BeginDeleteDocument(c, d) \/ BeginUpdateNode(c, d) \/ BeginDeleteNode(c, d)

TransactionStep(c) ==
  \/ InsertTable(c) \/ CheckUpdateTable(c) \/ UpdateTable(c)
  \/ \E cascade \in BOOLEAN : ListTable(c, cascade)
  \/ \E d \in Docs : CascadeRead(c, d)
  \/ CascadeDelete(c) \/ DropTable(c)
  \/ InsertDocument(c) \/ InsertNodes(c)
  \/ CheckUpdateDocument(c) \/ UpdateDocument(c) \/ DeleteDocument(c)
  \/ UpdateNode(c) \/ DeleteNode(c)

Next == Crash \/ \E c \in Clients : BeginStep(c) \/ TransactionStep(c)

Spec == Init /\ [][Next]_vars

(***************************************************************************)
(* Properties                                                              *)
(***************************************************************************)

\* The types of the state.
TypeOK ==
  /\ tabSlug \in [Tables -> Slugs \cup {NoSlug}]
  /\ tabCount \in [Tables -> Nat]
  /\ slugIdx \in [Slugs -> Tables \cup {NoTable}]
  /\ docs \in [Docs -> Rec \cup {NoRec}]
  /\ idxTable \subseteq Tables \X Docs
  /\ idxKey \subseteq Keys \X Docs
  /\ nodes \subseteq Docs /\ nodeIdx \subseteq Docs
  /\ minted \subseteq Tables \cup Docs
  /\ op \in [Clients -> Ops]
  /\ issued \in 0..MaxOps /\ crashes \in 0..MaxCrashes
  /\ raced \in BOOLEAN

\* Whatever operations interleave, wherever the server dies: a stored document is found
\* through its own table and through every tag and metadata value it has now.
Findable ==
  \A d \in Docs : Stored(d) =>
    /\ <<docs[d].tab, d>> \in idxTable
    /\ \A k \in docs[d].keys : <<k, d>> \in idxKey

\* Whatever interleaves: the document-node index names no node that is gone.
NodeIndexSound == nodeIdx \subseteq nodes

\* The indexes name every value and no document that does not have it; a slug names the one table
\* of that name.
IndexExact ==
  /\ idxTable = UNION {TableEntries(d, docs[d]) : d \in Docs}
  /\ idxKey = UNION {KeyEntries(d, docs[d]) : d \in Docs}
  /\ \A t \in Tables, s \in Slugs : (tabSlug[t] = s) <=> (slugIdx[s] = t)

\* document_count is the number of documents of the table.
CountsExact ==
  \A t \in Tables : Exists(t) => tabCount[t] = Cardinality({d \in Docs : docs[d].tab = t})

\* A document has its table, a node its document and its entry in the document-node index.
OwnersExist ==
  /\ \A d \in Docs : Stored(d) => Exists(docs[d].tab)
  /\ \A d \in nodes : Stored(d) /\ d \in nodeIdx

\* As long as operations on one document, and operations on tables with anything else, do not
\* overlap, the store is exact between any two of its transactions and after every crash: however
\* many ingestions into a table run at once, its indexes, its counter, its unique name and the
\* owners of its documents and nodes agree, and the cascade of a deleted table deletes documents
\* of that table only.
QuietStoreIsExact ==
  ~raced =>
    /\ IndexExact /\ CountsExact /\ OwnersExist
    /\ \A c \in Clients : op[c].step = "cascadeDoc" => op[c].old.tab = op[c].t
=============================================================================
