--------------------------- MODULE DocStoreProofs ---------------------------
(***************************************************************************)
(* Proofs about DocStore for any number of clients, tables, documents and  *)
(* index keys, and any interleaving of their transactions.                 *)
(***************************************************************************)
EXTENDS DocStore, FiniteSetTheorems, TLAPS

\* What an operation in flight knows at the steps that write documents and nodes.
WellShaped(o) ==
  /\ o.step \in {"insertTable", "updateTable", "writeTable", "listTable", "cascade",
                 "cascadeDoc"} => o.t \in Tables
  /\ o.step \in {"insertDoc", "insertNodes", "updateDoc", "writeDoc", "deleteDoc",
                 "cascadeDoc", "writeNode", "deleteNode"} => o.d \in Docs
  /\ o.step \in {"insertDoc", "updateDoc", "writeDoc"} => o.new \in Rec

OpShape == \A c \in Clients : WellShaped(op[c])

Typed == TypeOK /\ OpShape

\* A client without an operation is well typed.
LEMMA IdleIsOp == Idle \in Ops
  BY DEF Idle, Ops, Steps, Rec, NoRec

\* An absent record is not a record, and has no keys.
LEMMA NoRecIsNoRec == NoRec \notin Rec /\ \A r \in Rec \cup {NoRec} : r.keys \subseteq Keys
  BY StoreAssumption DEF Rec, NoRec

\* The empty store is well typed.
LEMMA TypedInit == Init => Typed
<1> SUFFICES ASSUME Init PROVE Typed
  OBVIOUS
<1>1. op \in [Clients -> Ops]
  BY IdleIsOp DEF Init
<1>2. OpShape
  BY DEF Init, Idle, OpShape, WellShaped
<1>3. raced \in BOOLEAN
  BY DEF Init
<1>4. issued \in 0..MaxOps /\ crashes \in 0..MaxCrashes
  BY StoreAssumption DEF Init
<1>5. docs \in [Docs -> Rec \cup {NoRec}] /\ tabCount \in [Tables -> Nat]
  BY DEF Init
<1> QED BY <1>1, <1>2, <1>3, <1>4, <1>5 DEF Init, Typed, TypeOK

\* An operation starts or goes on: only what it remembers has to be checked.
LEMMA TypedBegin ==
  ASSUME Typed, NEW c \in Clients, NEW o \in Ops, Begin(c, o), WellShaped(o),
         minted' \subseteq Tables \cup Docs, UNCHANGED storeVars
  PROVE  Typed'
<1>1. op' \in [Clients -> Ops] /\ OpShape'
  BY DEF Begin, Typed, TypeOK, OpShape, WellShaped
<1>2. issued' \in 0..MaxOps /\ crashes' \in 0..MaxCrashes /\ raced' \in BOOLEAN
  BY StoreAssumption DEF Begin, Typed, TypeOK, Conflicts
<1> QED BY <1>1, <1>2 DEF Typed, TypeOK, storeVars

\* Every operation starts with what it must remember.
LEMMA TypedBeginStep ==
  ASSUME Typed, NEW c \in Clients, BeginStep(c)
  PROVE  Typed'
<1> USE TypedBegin DEF Idle, Ops, Steps, WellShaped, Typed, TypeOK
<1>1. ASSUME NEW t \in Tables, NEW s \in Slugs, BeginInsertTable(c, t, s) PROVE Typed'
  BY <1>1 DEF BeginInsertTable
<1>2. ASSUME NEW t \in Tables, NEW s \in Slugs, BeginUpdateTable(c, t, s) PROVE Typed'
  BY <1>2 DEF BeginUpdateTable
<1>3. ASSUME NEW t \in Tables, BeginDeleteTable(c, t) PROVE Typed'
  BY <1>3 DEF BeginDeleteTable
<1>4. ASSUME NEW d \in Docs, NEW t \in Tables, NEW keys \in SUBSET Keys,
             BeginInsertDocument(c, d, t, keys)
      PROVE  Typed'
  BY <1>4 DEF BeginInsertDocument, Rec
<1>5. ASSUME NEW d \in Docs, NEW r \in Rec, BeginUpdateDocument(c, d, r) PROVE Typed'
  BY <1>5 DEF BeginUpdateDocument
<1>6. ASSUME NEW d \in Docs, NEW t \in Tables, BeginMoveDocument(c, d, t) PROVE Typed'
  <2>1. docs[d] \in Rec /\ [tab |-> t, keys |-> docs[d].keys] \in Rec
    BY <1>6 DEF BeginMoveDocument, Stored, Rec
  <2> QED BY <1>6, <2>1 DEF BeginMoveDocument
<1>7. ASSUME NEW d \in Docs, BeginDeleteDocument(c, d) PROVE Typed'
  BY <1>7 DEF BeginDeleteDocument
<1>8. ASSUME NEW d \in Docs, BeginUpdateNode(c, d) \/ BeginDeleteNode(c, d) PROVE Typed'
  BY <1>8 DEF BeginUpdateNode, BeginDeleteNode
<1> QED BY <1>1, <1>2, <1>3, <1>4, <1>5, <1>6, <1>7, <1>8 DEF BeginStep

\* An operation that goes on to its next transaction stays well typed.
LEMMA TypedContinue ==
  ASSUME Typed, NEW c \in Clients, NEW o \in Ops, Continue(c, o), WellShaped(o)
  PROVE  /\ op' \in [Clients -> Ops] /\ OpShape'
         /\ UNCHANGED <<minted, issued, crashes, raced>>
  BY DEF Continue, Typed, TypeOK, OpShape, WellShaped

\* An operation that ends leaves an idle client.
LEMMA TypedEnd ==
  ASSUME Typed, NEW c \in Clients, End(c)
  PROVE  /\ op' \in [Clients -> Ops] /\ OpShape'
         /\ UNCHANGED <<minted, issued, crashes, raced>>
  BY TypedContinue, IdleIsOp DEF End, Idle, WellShaped

\* Reindexing keeps pairs of keys and documents.
LEMMA TypedIndexes ==
  ASSUME Typed, NEW d \in Docs, NEW old \in Rec \cup {NoRec}, NEW new \in Rec \cup {NoRec},
         Reindex(d, old, new)
  PROVE  idxTable' \subseteq Tables \X Docs /\ idxKey' \subseteq Keys \X Docs
<1>1. TableEntries(d, new) \subseteq Tables \X Docs
  BY DEF TableEntries, Rec
<1>2. KeyEntries(d, new) \subseteq Keys \X Docs
  BY NoRecIsNoRec DEF KeyEntries
<1> QED BY <1>1, <1>2 DEF Reindex, Typed, TypeOK

\* A count that moves by one stays a natural number: it is clamped at zero.
LEMMA BumpType ==
  ASSUME NEW count \in [Tables -> Nat], NEW t, NEW n \in {-1, 1}
  PROVE  Bump(count, t, n) \in [Tables -> Nat]
  BY DEF Bump

\* Recounting keeps the counts natural.
LEMMA TypedCounts ==
  ASSUME Typed, NEW old, NEW new, Recount(old, new)
  PROVE  tabCount' \in [Tables -> Nat]
<1>1. Bump(tabCount, old.tab, -1) \in [Tables -> Nat]
  BY BumpType DEF Typed, TypeOK
<1> QED BY <1>1, BumpType DEF Recount, Typed, TypeOK

\* The transactions of the table operations keep the types.
LEMMA TypedTableStep ==
  ASSUME Typed, NEW c \in Clients,
         \/ InsertTable(c) \/ CheckUpdateTable(c) \/ UpdateTable(c) \/ DropTable(c)
         \/ \E cascade \in BOOLEAN : ListTable(c, cascade)
  PROVE  Typed'
<1>0. op[c] \in Ops
  BY DEF Typed, TypeOK
<1>1. CASE InsertTable(c)
  <2>1. op' \in [Clients -> Ops] /\ OpShape' /\ UNCHANGED <<minted, issued, crashes, raced>>
    BY <1>1, TypedEnd DEF InsertTable
  <2> QED BY <1>0, <1>1, <2>1 DEF InsertTable, Typed, TypeOK, Ops, docVars, nodeVars
<1>2. CASE CheckUpdateTable(c)
  <2>1. op' \in [Clients -> Ops] /\ OpShape' /\ UNCHANGED <<minted, issued, crashes, raced>>
    <3>1. CASE End(c)
      BY <3>1, TypedEnd
    <3>2. CASE Exists(op[c].t) /\ Continue(c, [op[c] EXCEPT !.step = "writeTable",
                                                            !.s0 = tabSlug[op[c].t]])
      <4>1. op[c].t \in Tables
        BY <1>2 DEF CheckUpdateTable, Typed, OpShape, WellShaped
      <4>2. [op[c] EXCEPT !.step = "writeTable", !.s0 = tabSlug[op[c].t]] \in Ops
        BY <1>0, <4>1 DEF Ops, Steps, Typed, TypeOK
      <4> QED BY <3>2, <4>1, <4>2, TypedContinue DEF Ops, WellShaped
    <3> QED BY <1>2, <3>1, <3>2 DEF CheckUpdateTable
  <2> QED BY <1>2, <2>1 DEF CheckUpdateTable, Typed, TypeOK, storeVars
<1>3. CASE UpdateTable(c)
  <2>1. op' \in [Clients -> Ops] /\ OpShape' /\ UNCHANGED <<minted, issued, crashes, raced>>
    BY <1>3, TypedEnd DEF UpdateTable
  <2> QED BY <1>0, <1>3, <2>1
          DEF UpdateTable, SlugsAfterUpdate, Typed, TypeOK, Ops, docVars, nodeVars
<1>4. CASE DropTable(c)
  <2>1. op' \in [Clients -> Ops] /\ OpShape' /\ UNCHANGED <<minted, issued, crashes, raced>>
    BY <1>4, TypedEnd DEF DropTable
  <2> QED BY <1>0, <1>4, <2>1 DEF DropTable, Typed, TypeOK, Ops, docVars, nodeVars
<1>5. ASSUME NEW cascade \in BOOLEAN, ListTable(c, cascade) PROVE Typed'
  <2>1. op' \in [Clients -> Ops] /\ OpShape' /\ UNCHANGED <<minted, issued, crashes, raced>>
    <3>1. CASE End(c)
      BY <3>1, TypedEnd
    <3>2. CASE Continue(c, [op[c] EXCEPT !.step = "cascade",
                                         !.rest = DocumentsInTable(op[c].t)])
      <4>1. [op[c] EXCEPT !.step = "cascade", !.rest = DocumentsInTable(op[c].t)] \in Ops
        BY <1>0 DEF Ops, Steps, DocumentsInTable
      <4>2. op[c].t \in Tables
        BY <1>5 DEF ListTable, Typed, OpShape, WellShaped
      <4> QED BY <3>2, <4>1, <4>2, TypedContinue DEF Ops, WellShaped
    <3> QED BY <1>5, <3>1, <3>2 DEF ListTable
  <2> QED BY <1>5, <2>1 DEF ListTable, Typed, TypeOK, storeVars
<1> QED BY <1>1, <1>2, <1>3, <1>4, <1>5

\* Removing a document keeps the types of the store.
LEMMA TypedRemove ==
  ASSUME Typed, NEW d \in Docs, NEW old \in Rec \cup {NoRec}, RemoveDocument(d, old)
  PROVE  /\ tabSlug' \in [Tables -> Slugs \cup {NoSlug}] /\ tabCount' \in [Tables -> Nat]
         /\ slugIdx' \in [Slugs -> Tables \cup {NoTable}]
         /\ docs' \in [Docs -> Rec \cup {NoRec}]
         /\ idxTable' \subseteq Tables \X Docs /\ idxKey' \subseteq Keys \X Docs
         /\ nodes' \subseteq Docs /\ nodeIdx' \subseteq Docs
<1>1. idxTable' \subseteq Tables \X Docs /\ idxKey' \subseteq Keys \X Docs
  BY TypedIndexes DEF RemoveDocument
<1>2. tabCount' \in [Tables -> Nat]
  BY TypedCounts DEF RemoveDocument
<1> QED BY <1>1, <1>2 DEF RemoveDocument, Typed, TypeOK

\* The transactions of the document and node operations keep the types.
LEMMA TypedDocStep ==
  ASSUME Typed, NEW c \in Clients,
         \/ (\E d \in Docs : CascadeRead(c, d)) \/ CascadeDelete(c) \/ InsertDocument(c)
         \/ InsertNodes(c) \/ CheckUpdateDocument(c) \/ UpdateDocument(c) \/ DeleteDocument(c)
         \/ UpdateNode(c) \/ DeleteNode(c)
  PROVE  Typed'
<1> DEFINE Frame == op' \in [Clients -> Ops] /\ OpShape' /\ UNCHANGED <<minted, issued, crashes, raced>>
<1>0. op[c] \in Ops /\ WellShaped(op[c])
  BY DEF Typed, TypeOK, OpShape
<1>1. ASSUME NEW d \in Docs, CascadeRead(c, d) PROVE Typed'
  <2>1. [op[c] EXCEPT !.rest = @ \ {d}] \in Ops /\ WellShaped([op[c] EXCEPT !.rest = @ \ {d}])
    BY <1>0 DEF Ops, WellShaped
  <2>2. [op[c] EXCEPT !.step = "cascadeDoc", !.rest = @ \ {d}, !.d = d, !.old = docs[d]] \in Ops
    BY <1>0 DEF Ops, Steps, Typed, TypeOK
  <2>3. WellShaped([op[c] EXCEPT !.step = "cascadeDoc", !.rest = @ \ {d}, !.d = d,
                                 !.old = docs[d]])
    BY <1>0, <1>1 DEF CascadeRead, Ops, WellShaped
  <2>4. Frame
    <3>1. CASE Stored(d)
      BY <1>1, <2>2, <2>3, <3>1, TypedContinue DEF CascadeRead
    <3>2. CASE ~Stored(d)
      BY <1>1, <2>1, <3>2, TypedContinue DEF CascadeRead
    <3> QED BY <3>1, <3>2
  <2> QED BY <1>1, <2>4 DEF CascadeRead, Typed, TypeOK, storeVars
<1>2. CASE CascadeDelete(c)
  <2>1. [op[c] EXCEPT !.step = "cascade", !.d = NoDoc, !.old = NoRec] \in Ops
    BY <1>0 DEF Ops, Steps
  <2>2. WellShaped([op[c] EXCEPT !.step = "cascade", !.d = NoDoc, !.old = NoRec])
    BY <1>0, <1>2 DEF CascadeDelete, Ops, WellShaped
  <2>3. Frame
    BY <1>2, <2>1, <2>2, TypedContinue DEF CascadeDelete
  <2>4. op[c].d \in Docs /\ op[c].old \in Rec \cup {NoRec} /\ RemoveDocument(op[c].d, op[c].old)
    BY <1>0, <1>2 DEF CascadeDelete, WellShaped, Ops
  <2> QED BY <2>3, <2>4, TypedRemove DEF Typed, TypeOK
<1>3. CASE InsertDocument(c)
  <2>1. [op[c] EXCEPT !.step = "insertNodes"] \in Ops
        /\ WellShaped([op[c] EXCEPT !.step = "insertNodes"])
    BY <1>0, <1>3 DEF InsertDocument, Ops, Steps, WellShaped
  <2>2. Frame
    BY <1>3, <2>1, TypedContinue DEF InsertDocument
  <2>3. op[c].d \in Docs /\ op[c].new \in Rec
    BY <1>0, <1>3 DEF InsertDocument, WellShaped
  <2>4. /\ idxTable' \subseteq Tables \X Docs /\ idxKey' \subseteq Keys \X Docs
        /\ tabCount' \in [Tables -> Nat]
    BY <1>3, <2>3, TypedIndexes, TypedCounts DEF InsertDocument
  <2> QED BY <1>3, <2>2, <2>3, <2>4 DEF InsertDocument, Typed, TypeOK, nodeVars
<1>4. CASE InsertNodes(c)
  BY <1>0, <1>4, TypedEnd DEF InsertNodes, WellShaped, Typed, TypeOK, tableVars, docVars
<1>5. CASE CheckUpdateDocument(c)
  <2>1. Frame
    <3>1. CASE End(c)
      BY <3>1, TypedEnd
    <3>2. CASE Continue(c, [op[c] EXCEPT !.step = "writeDoc", !.old = docs[op[c].d]])
      <4>1. op[c].d \in Docs /\ op[c].new \in Rec
        BY <1>0, <1>5 DEF CheckUpdateDocument, WellShaped
      <4>2. [op[c] EXCEPT !.step = "writeDoc", !.old = docs[op[c].d]] \in Ops
        BY <1>0, <4>1 DEF Ops, Steps, Typed, TypeOK
      <4> QED BY <3>2, <4>1, <4>2, TypedContinue DEF Ops, WellShaped
    <3> QED BY <1>5, <3>1, <3>2 DEF CheckUpdateDocument
  <2> QED BY <1>5, <2>1 DEF CheckUpdateDocument, Typed, TypeOK, storeVars
<1>6. CASE UpdateDocument(c)
  <2>1. Frame
    BY <1>6, TypedEnd DEF UpdateDocument
  <2>2. op[c].d \in Docs /\ op[c].new \in Rec /\ op[c].old \in Rec \cup {NoRec}
    BY <1>0, <1>6 DEF UpdateDocument, WellShaped, Ops
  <2>3. /\ idxTable' \subseteq Tables \X Docs /\ idxKey' \subseteq Keys \X Docs
        /\ tabCount' \in [Tables -> Nat]
    BY <1>6, <2>2, TypedIndexes, TypedCounts DEF UpdateDocument
  <2> QED BY <1>6, <2>1, <2>2, <2>3 DEF UpdateDocument, Typed, TypeOK, nodeVars
<1>7. CASE DeleteDocument(c)
  <2>1. Frame
    BY <1>7, TypedEnd DEF DeleteDocument
  <2>2. op[c].d \in Docs /\ op[c].old \in Rec \cup {NoRec} /\ RemoveDocument(op[c].d, op[c].old)
    BY <1>0, <1>7 DEF DeleteDocument, WellShaped, Ops
  <2> QED BY <2>1, <2>2, TypedRemove DEF Typed, TypeOK
<1>8. CASE UpdateNode(c) \/ DeleteNode(c)
  BY <1>0, <1>8, TypedEnd
  DEF UpdateNode, DeleteNode, WellShaped, Typed, TypeOK, tableVars, docVars
<1> QED BY <1>1, <1>2, <1>3, <1>4, <1>5, <1>6, <1>7, <1>8

\* Every step keeps the types.
LEMMA TypedNext == Typed /\ [Next]_vars => Typed'
<1> SUFFICES ASSUME Typed, [Next]_vars PROVE Typed'
  OBVIOUS
<1>1. CASE Crash
  <2>1. op' \in [Clients -> Ops] /\ OpShape'
    BY <1>1, IdleIsOp DEF Crash, OpShape, WellShaped, Idle
  <2>2. crashes' \in 0..MaxCrashes
    BY <1>1, StoreAssumption DEF Crash, Typed, TypeOK
  <2> QED BY <1>1, <2>1, <2>2 DEF Crash, Typed, TypeOK, storeVars
<1>2. ASSUME NEW c \in Clients, BeginStep(c) PROVE Typed'
  BY <1>2, TypedBeginStep
<1>3. ASSUME NEW c \in Clients, TransactionStep(c) PROVE Typed'
  BY <1>3, TypedTableStep, TypedDocStep DEF TransactionStep
<1>4. CASE UNCHANGED vars
  BY <1>4 DEF Typed, TypeOK, OpShape, WellShaped, vars, storeVars
<1> QED BY <1>1, <1>2, <1>3, <1>4 DEF Next

\* Type correctness of the store and of the operations in flight.
THEOREM TypeCorrect == Spec => []TypeOK
<1>1. Spec => []Typed
  BY TypedInit, TypedNext, PTL DEF Spec
<1>2. Typed => TypeOK
  BY DEF Typed
<1> QED BY <1>1, <1>2, PTL

(***************************************************************************)
(* Every stored document can be found through its indexes                  *)
(***************************************************************************)

\* Why the order inside the transaction matters: the old entries are removed before the new
\* ones are added, so even a stale old record cannot remove an entry of the new one.
LEMMA FindableReindex ==
  ASSUME Typed, Findable, NEW d \in Docs, NEW old, NEW new \in Rec \cup {NoRec},
         Reindex(d, old, new), docs' = [docs EXCEPT ![d] = new]
  PROVE  Findable'
<1> SUFFICES ASSUME NEW e \in Docs, Stored(e)'
             PROVE  /\ <<docs'[e].tab, e>> \in idxTable'
                    /\ \A k \in docs'[e].keys : <<k, e>> \in idxKey'
  BY DEF Findable
<1>1. CASE e = d
  <2>1. docs'[e] = new /\ new # NoRec
    BY <1>1 DEF Stored, Typed, TypeOK
  <2> QED BY <1>1, <2>1 DEF Reindex, TableEntries, KeyEntries
<1>2. CASE e # d
  <2>1. docs'[e] = docs[e] /\ Stored(e)
    BY <1>2 DEF Stored, Typed, TypeOK
  <2>2. <<docs[e].tab, e>> \in idxTable /\ \A k \in docs[e].keys : <<k, e>> \in idxKey
    BY <2>1 DEF Findable
  <2>3. /\ <<docs[e].tab, e>> \notin TableEntries(d, old)
        /\ \A k \in docs[e].keys : <<k, e>> \notin KeyEntries(d, old)
    BY <1>2 DEF TableEntries, KeyEntries
  <2> QED BY <2>1, <2>2, <2>3 DEF Reindex
<1> QED BY <1>1, <1>2

\* A step that writes neither documents nor indexes keeps documents findable.
LEMMA FindableFrame ==
  ASSUME Findable, UNCHANGED docVars
  PROVE  Findable'
  BY DEF Findable, Stored, docVars

\* Every step keeps documents findable: record and entries change in one transaction.
LEMMA FindableNext == Typed /\ Findable /\ [Next]_vars => Findable'
<1> SUFFICES ASSUME Typed, Findable, [Next]_vars PROVE Findable'
  OBVIOUS
<1>1. ASSUME NEW c \in Clients, InsertDocument(c) \/ UpdateDocument(c) PROVE Findable'
  <2>1. op[c].d \in Docs /\ op[c].new \in Rec
    BY <1>1 DEF InsertDocument, UpdateDocument, Typed, OpShape, WellShaped
  <2>2. docs' = [docs EXCEPT ![op[c].d] = op[c].new]
        /\ \E old : Reindex(op[c].d, old, op[c].new)
    BY <1>1 DEF InsertDocument, UpdateDocument
  <2> QED BY <2>1, <2>2, FindableReindex
<1>2. ASSUME NEW c \in Clients, CascadeDelete(c) \/ DeleteDocument(c) PROVE Findable'
  <2>1. op[c].d \in Docs
    BY <1>2 DEF CascadeDelete, DeleteDocument, Typed, OpShape, WellShaped
  <2>2. docs' = [docs EXCEPT ![op[c].d] = NoRec] /\ \E old : Reindex(op[c].d, old, NoRec)
    BY <1>2 DEF CascadeDelete, DeleteDocument, RemoveDocument
  <2> QED BY <2>1, <2>2, FindableReindex
<1>3. ASSUME NEW c \in Clients,
             \/ InsertTable(c) \/ CheckUpdateTable(c) \/ UpdateTable(c) \/ DropTable(c)
             \/ (\E cascade \in BOOLEAN : ListTable(c, cascade))
             \/ (\E d \in Docs : CascadeRead(c, d))
             \/ InsertNodes(c) \/ CheckUpdateDocument(c) \/ UpdateNode(c) \/ DeleteNode(c)
      PROVE  UNCHANGED docVars
  BY <1>3 DEF InsertTable, CheckUpdateTable, UpdateTable, DropTable, ListTable, CascadeRead,
         InsertNodes, CheckUpdateDocument, UpdateNode, DeleteNode, storeVars, docVars
<1>4. ASSUME NEW c \in Clients, BeginStep(c) PROVE UNCHANGED docVars
  BY <1>4 DEF BeginStep, BeginInsertTable, BeginUpdateTable, BeginDeleteTable,
         BeginInsertDocument, BeginUpdateDocument, BeginMoveDocument, BeginDeleteDocument,
         BeginUpdateNode, BeginDeleteNode, storeVars, docVars
<1>5. CASE Crash \/ UNCHANGED vars
  BY <1>5, FindableFrame DEF Crash, vars, storeVars, docVars
<1>6. ASSUME NEW c \in Clients, TransactionStep(c) PROVE Findable'
  BY <1>1, <1>2, <1>3, <1>6, FindableFrame DEF TransactionStep
<1> QED BY <1>4, <1>5, <1>6, FindableFrame DEF Next

\* Whatever inserts, updates, moves, deletes and cascades interleave, with whatever stale
\* reads, and wherever the server dies: a stored document is found through its table and
\* through each of its tags and metadata values.
THEOREM DocumentsAreFindable == Spec => []Findable
<1>1. Init => Findable
  BY DEF Init, Findable, Stored
<1> QED BY <1>1, TypedInit, TypedNext, FindableNext, PTL DEF Spec

(***************************************************************************)
(* The document-node index                                                 *)
(***************************************************************************)

\* Every step keeps the document-node index within the nodes.
LEMMA NodeIndexNext == Typed /\ NodeIndexSound /\ [Next]_vars => NodeIndexSound'
<1> SUFFICES ASSUME Typed, NodeIndexSound, [Next]_vars PROVE NodeIndexSound'
  OBVIOUS
<1>1. ASSUME NEW c \in Clients, InsertNodes(c) \/ UpdateNode(c) \/ DeleteNode(c) PROVE NodeIndexSound'
  BY <1>1 DEF InsertNodes, UpdateNode, DeleteNode, NodeIndexSound
<1>2. ASSUME NEW c \in Clients, CascadeDelete(c) \/ DeleteDocument(c) PROVE NodeIndexSound'
  BY <1>2 DEF CascadeDelete, DeleteDocument, RemoveDocument, NodeIndexSound
<1>3. ASSUME NEW c \in Clients,
             \/ InsertTable(c) \/ CheckUpdateTable(c) \/ UpdateTable(c) \/ DropTable(c)
             \/ (\E cascade \in BOOLEAN : ListTable(c, cascade))
             \/ (\E d \in Docs : CascadeRead(c, d))
             \/ InsertDocument(c) \/ CheckUpdateDocument(c) \/ UpdateDocument(c)
      PROVE  UNCHANGED nodeVars
  BY <1>3 DEF InsertTable, CheckUpdateTable, UpdateTable, DropTable, ListTable, CascadeRead,
         InsertDocument, CheckUpdateDocument, UpdateDocument, storeVars, nodeVars
<1>4. ASSUME NEW c \in Clients, BeginStep(c) PROVE UNCHANGED nodeVars
  BY <1>4 DEF BeginStep, BeginInsertTable, BeginUpdateTable, BeginDeleteTable,
         BeginInsertDocument, BeginUpdateDocument, BeginMoveDocument, BeginDeleteDocument,
         BeginUpdateNode, BeginDeleteNode, storeVars, nodeVars
<1>5. CASE Crash \/ UNCHANGED vars
  BY <1>5 DEF Crash, vars, storeVars, NodeIndexSound
<1>6. ASSUME UNCHANGED nodeVars PROVE NodeIndexSound'
  BY <1>6 DEF NodeIndexSound, nodeVars
<1>7. ASSUME NEW c \in Clients, TransactionStep(c) PROVE NodeIndexSound'
  BY <1>1, <1>2, <1>3, <1>6, <1>7 DEF TransactionStep
<1> QED BY <1>4, <1>5, <1>6, <1>7 DEF Next

\* However ingestions, summaries and deletions of one document interleave, the document-node index
\* names no node that is gone: deleting the document finds every node it is told to remove.
THEOREM NodeIndexIsSound == Spec => []NodeIndexSound
<1>1. Init => NodeIndexSound
  BY DEF Init, NodeIndexSound
<1> QED BY <1>1, TypedInit, TypedNext, NodeIndexNext, PTL DEF Spec

(***************************************************************************)
(* The quiet store                                                         *)
(***************************************************************************)

\* The steps of operations on one document.
DocSteps == {"insertDoc", "insertNodes", "updateDoc", "writeDoc", "deleteDoc", "writeNode", "deleteNode"}

\* An operation on a table is alone, and no two operations are on one document.
Apart ==
  \A b, c \in Clients :
    b # c /\ Busy(b) /\ Busy(c) => op[b].step \in DocSteps /\ op[b].d # op[c].d

\* The documents of a table, however they are found.
Members(t) == {d \in Docs : docs[d].tab = t}

\* What an operation on a table remembers is still so.
FreshTable(o) ==
  /\ o.step = "insertTable" => ~Exists(o.t) /\ o.t \in minted /\ o.s \in Slugs /\ slugIdx[o.s] = NoTable
  /\ o.step \in {"updateTable", "writeTable"} => Exists(o.t) /\ o.s \in Slugs /\ o.n = tabCount[o.t]
  /\ o.step \in {"writeTable", "listTable", "cascade", "cascadeDoc"} => Exists(o.t) /\ o.s0 = tabSlug[o.t]
  /\ o.step = "writeTable" /\ o.s0 # o.s => slugIdx[o.s] = NoTable
  /\ o.step = "cascade" => o.rest = Members(o.t)
  /\ o.step = "cascadeDoc" => o.rest = Members(o.t) \ {o.d} /\ o.old.tab = o.t
  /\ o.step \notin DocSteps \cup {"cascadeDoc"} => o.d = NoDoc

\* What an operation on a document remembers is still so.
FreshDoc(o) ==
  /\ o.step = "insertDoc" => ~Stored(o.d) /\ o.d \in minted
  /\ o.step \in {"insertNodes", "updateDoc", "writeDoc", "deleteDoc", "cascadeDoc"} => Stored(o.d)
  /\ o.step \in {"writeDoc", "deleteDoc", "cascadeDoc"} => o.old = docs[o.d]
  /\ o.step \in {"insertDoc", "writeDoc"} => Exists(o.new.tab)
  /\ o.step \in {"writeNode", "deleteNode"} => o.d \in nodes

Fresh == \A c \in Clients : FreshTable(op[c]) /\ FreshDoc(op[c])

\* Ids are generated once.
Minted ==
  /\ \A t \in Tables : Exists(t) => t \in minted
  /\ \A d \in Docs : Stored(d) => d \in minted

\* The counts, of sets that are finite because documents are stored one by one.
Counted == CountsExact /\ \A t \in Tables : IsFiniteSet(Members(t))

Exact == Apart /\ Fresh /\ Minted /\ IndexExact /\ Counted /\ OwnersExist

\* An absent document has no table, so that it is in none.
LEMMA RecTab ==
  /\ NoRec.tab = NoTable /\ NoRec.keys = {} /\ NoTable \notin Tables
  /\ \A r \in Rec \cup {NoRec} : (r # NoRec <=> r.tab \in Tables) /\ (r \in Rec <=> r # NoRec)
  BY StoreAssumption DEF Rec, NoRec

\* The table index, entry by entry.
LEMMA TablePoints ==
  ASSUME NEW ds \in [Docs -> Rec \cup {NoRec}], NEW it \in SUBSET (Tables \X Docs)
  PROVE  it = UNION {TableEntries(d, ds[d]) : d \in Docs}
           <=> \A t \in Tables, d \in Docs : <<t, d>> \in it <=> ds[d].tab = t
<1>1. \A d \in Docs : \A x : x \in TableEntries(d, ds[d]) <=> ds[d].tab \in Tables /\ x = <<ds[d].tab, d>>
  BY RecTab DEF TableEntries
<1>2. \A x : x \in UNION {TableEntries(d, ds[d]) : d \in Docs} <=> \E d \in Docs : ds[d].tab \in Tables /\ x = <<ds[d].tab, d>>
  BY <1>1
<1>3. UNION {TableEntries(d, ds[d]) : d \in Docs} \subseteq Tables \X Docs
  BY <1>2
<1>4. \A t \in Tables, d \in Docs : <<t, d>> \in UNION {TableEntries(e, ds[e]) : e \in Docs} <=> ds[d].tab = t
  BY <1>2
<1> QED BY <1>3, <1>4

\* The key index, entry by entry.
LEMMA KeyPoints ==
  ASSUME NEW ds \in [Docs -> Rec \cup {NoRec}], NEW ik \in SUBSET (Keys \X Docs)
  PROVE  ik = UNION {KeyEntries(d, ds[d]) : d \in Docs}
           <=> \A k \in Keys, d \in Docs : <<k, d>> \in ik <=> k \in ds[d].keys
<1>1. \A d \in Docs : \A x : x \in KeyEntries(d, ds[d]) <=> \E k \in ds[d].keys : x = <<k, d>>
  BY DEF KeyEntries
<1>2. \A x : x \in UNION {KeyEntries(d, ds[d]) : d \in Docs} <=> \E d \in Docs : \E k \in ds[d].keys : x = <<k, d>>
  BY <1>1
<1>3. UNION {KeyEntries(d, ds[d]) : d \in Docs} \subseteq Keys \X Docs
  BY <1>2, NoRecIsNoRec
<1>4. \A k \in Keys, d \in Docs : <<k, d>> \in UNION {KeyEntries(e, ds[e]) : e \in Docs} <=> k \in ds[d].keys
  BY <1>2
<1> QED BY <1>3, <1>4

\* In an exact store the table index finds the documents of a table.
LEMMA TableIndexed ==
  ASSUME Typed, IndexExact
  PROVE  \A t \in Tables, e \in Docs : <<t, e>> \in idxTable <=> docs[e].tab = t
<1>1. docs \in [Docs -> Rec \cup {NoRec}] /\ idxTable \in SUBSET (Tables \X Docs)
  BY DEF Typed, TypeOK
<1>2. idxTable = UNION {TableEntries(e, docs[e]) : e \in Docs}
  BY DEF IndexExact
<1>3. idxTable = UNION {TableEntries(e, docs[e]) : e \in Docs}
        <=> \A t \in Tables, e \in Docs : <<t, e>> \in idxTable <=> docs[e].tab = t
  BY <1>1, TablePoints
<1> QED BY <1>2, <1>3

\* A transaction that unindexes what the document was and indexes what it becomes.
LEMMA ReindexExact ==
  ASSUME Typed, Typed', IndexExact, UNCHANGED <<tabSlug, slugIdx>>, NEW d \in Docs, NEW new \in Rec \cup {NoRec},
         Reindex(d, docs[d], new), docs' = [docs EXCEPT ![d] = new]
  PROVE  IndexExact'
<1>1. /\ docs \in [Docs -> Rec \cup {NoRec}] /\ docs' \in [Docs -> Rec \cup {NoRec}]
      /\ idxTable \in SUBSET (Tables \X Docs) /\ idxTable' \in SUBSET (Tables \X Docs)
      /\ idxKey \in SUBSET (Keys \X Docs) /\ idxKey' \in SUBSET (Keys \X Docs)
  BY DEF Typed, TypeOK
<1>2. \A t \in Tables, e \in Docs : <<t, e>> \in idxTable <=> docs[e].tab = t
  BY TableIndexed
<1>3. \A k \in Keys, e \in Docs : <<k, e>> \in idxKey <=> k \in docs[e].keys
  <2>1. idxKey = UNION {KeyEntries(e, docs[e]) : e \in Docs}
    BY DEF IndexExact
  <2>2. idxKey = UNION {KeyEntries(e, docs[e]) : e \in Docs}
          <=> \A k \in Keys, e \in Docs : <<k, e>> \in idxKey <=> k \in docs[e].keys
    BY <1>1, KeyPoints
  <2> QED BY <2>1, <2>2
<1>4. \A t \in Tables, e \in Docs : <<t, e>> \in idxTable' <=> docs'[e].tab = t
  <2>1. \A r \in Rec \cup {NoRec} : \A x : x \in TableEntries(d, r) <=> r.tab \in Tables /\ x = <<r.tab, d>>
    BY RecTab DEF TableEntries
  <2>2. \A t \in Tables, e \in Docs : \A r \in Rec \cup {NoRec} : <<t, e>> \in TableEntries(d, r) <=> r.tab = t /\ e = d
    BY <2>1
  <2>3. ASSUME NEW t \in Tables, NEW e \in Docs PROVE <<t, e>> \in idxTable' <=> docs'[e].tab = t
    <3>1. <<t, e>> \in idxTable' <=> ((<<t, e>> \in idxTable /\ <<t, e>> \notin TableEntries(d, docs[d]))
                                       \/ <<t, e>> \in TableEntries(d, new))
      BY DEF Reindex
    <3>2. docs[d] \in Rec \cup {NoRec} /\ docs'[e] = IF e = d THEN new ELSE docs[e]
      BY <1>1
    <3> QED BY <1>2, <2>2, <3>1, <3>2
  <2> QED BY <2>3
<1>5. \A k \in Keys, e \in Docs : <<k, e>> \in idxKey' <=> k \in docs'[e].keys
  BY <1>1, <1>3 DEF Reindex, KeyEntries
<1>6. idxTable' = UNION {TableEntries(e, docs'[e]) : e \in Docs}
  BY <1>1, <1>4, TablePoints
<1>7. idxKey' = UNION {KeyEntries(e, docs'[e]) : e \in Docs}
  BY <1>1, <1>5, KeyPoints
<1>8. \A t \in Tables, s \in Slugs : (tabSlug'[t] = s) <=> (slugIdx'[s] = t)
  BY DEF IndexExact
<1> QED BY <1>6, <1>7, <1>8 DEF IndexExact

\* A transaction that recounts the tables the document leaves and enters.
LEMMA RecountExact ==
  ASSUME Typed, Counted, OwnersExist, UNCHANGED tabSlug, NEW d \in Docs, NEW new \in Rec \cup {NoRec},
         new # NoRec => Exists(new.tab),
         Recount(docs[d], new), docs' = [docs EXCEPT ![d] = new]
  PROVE  Counted'
<1>0. /\ docs \in [Docs -> Rec \cup {NoRec}] /\ tabCount \in [Tables -> Nat]
      /\ \A t \in Tables : IsFiniteSet(Members(t)) /\ Cardinality(Members(t)) \in Nat
      /\ \A t \in Tables : Exists(t) => tabCount[t] = Cardinality(Members(t))
  BY FS_CardinalityType DEF Typed, TypeOK, Counted, CountsExact, Members
<1> SUFFICES ASSUME NEW t \in Tables
             PROVE  /\ IsFiniteSet(Members(t)')
                    /\ tabSlug[t] # NoSlug => tabCount'[t] = Cardinality(Members(t)')
  BY DEF Counted, CountsExact, Members, Exists
<1>1. CASE docs[d].tab = new.tab
  <2>1. Members(t)' = Members(t)
    BY <1>0, <1>1 DEF Members
  <2> QED BY <1>0, <1>1, <2>1 DEF Recount, Exists
<1>2. CASE docs[d].tab # new.tab /\ docs[d].tab # t /\ new.tab # t
  <2>1. Members(t)' = Members(t)
    BY <1>0, <1>2 DEF Members
  <2>2. tabCount'[t] = tabCount[t]
    BY <1>0, <1>2 DEF Recount, Bump
  <2> QED BY <1>0, <2>1, <2>2 DEF Exists
<1>3. CASE docs[d].tab = t /\ new.tab # t
  <2>1. Members(t)' = Members(t) \ {d} /\ d \in Members(t)
    BY <1>0, <1>3 DEF Members
  <2>2. /\ IsFiniteSet(Members(t)') /\ Cardinality(Members(t)') \in Nat
        /\ Cardinality(Members(t)') = Cardinality(Members(t)) - 1
    BY <1>0, <2>1, FS_RemoveElement, FS_CardinalityType
  <2>3. tabSlug[t] # NoSlug => tabCount'[t] = tabCount[t] - 1
    BY <1>0, <1>3, <2>2 DEF Recount, Bump, Exists
  <2> QED BY <1>0, <2>2, <2>3 DEF Exists
<1>4. CASE docs[d].tab # t /\ new.tab = t
  <2>1. Members(t)' = Members(t) \cup {d} /\ d \notin Members(t)
    BY <1>0, <1>4 DEF Members
  <2>2. IsFiniteSet(Members(t)') /\ Cardinality(Members(t)') = Cardinality(Members(t)) + 1
    BY <1>0, <2>1, FS_AddElement
  <2>3. tabSlug[t] # NoSlug => tabCount'[t] = tabCount[t] + 1
    BY <1>0, <1>4 DEF Recount, Bump
  <2> QED BY <1>0, <2>2, <2>3 DEF Exists
<1> QED BY <1>1, <1>2, <1>3, <1>4

\* A client between operations remembers nothing.
LEMMA FreshIdle == FreshTable(Idle)' /\ FreshDoc(Idle)' /\ Idle.step = "idle"
  BY DEF FreshTable, FreshDoc, Idle, DocSteps

\* Transactions that touch nodes and operations only.
LEMMA ExactFrame ==
  ASSUME IndexExact, Counted, UNCHANGED <<tableVars, docVars>>
  PROVE  IndexExact' /\ Counted'
<1>1. IndexExact'
  BY DEF IndexExact, tableVars, docVars
<1>2. Counted'
  BY DEF Counted, CountsExact, Members, Exists, tableVars, docVars
<1> QED BY <1>1, <1>2

\* An operation that does not conflict begins.
LEMMA ExactBegin ==
  ASSUME Typed, Exact, NEW c \in Clients, NEW o, ~Busy(c), ~Conflicts(o), op' = [op EXCEPT ![c] = o],
         UNCHANGED storeVars, minted \subseteq minted', o.step # "cascadeDoc",
         FreshTable(o)', FreshDoc(o)'
  PROVE  Exact'
<1>1. /\ UNCHANGED <<tabSlug, tabCount, slugIdx, docs, idxTable, idxKey, nodes, nodeIdx>>
      /\ op \in [Clients -> Ops]
  BY DEF storeVars, Typed, TypeOK
<1>2. IndexExact' /\ Counted'
  BY ExactFrame DEF Exact, storeVars, tableVars, docVars
<1>3. OwnersExist' /\ Minted'
  BY <1>1 DEF Exact, OwnersExist, Minted, Stored, Exists
<1>4. Fresh'
  <2> SUFFICES ASSUME NEW b \in Clients, b # c PROVE FreshTable(op[b])' /\ FreshDoc(op[b])'
    BY <1>1 DEF Fresh
  <2>1. op'[b] = op[b] /\ FreshTable(op[b]) /\ FreshDoc(op[b])
    BY <1>1 DEF Exact, Fresh
  <2> QED BY <1>1, <2>1 DEF FreshTable, FreshDoc, Stored, Exists, Members
<1>5. Apart'
  <2>1. \A b \in Clients : Busy(b) => /\ op[b].step \in DocSteps /\ op[b].d # o.d /\ o.step \in DocSteps
    BY DEF Conflicts, Exact, Fresh, FreshTable
  <2> QED BY <1>1, <2>1 DEF Exact, Apart, Busy
<1> QED BY <1>2, <1>3, <1>4, <1>5 DEF Exact

\* An operation on a table goes on or ends: nobody else is busy.
LEMMA ExactTable ==
  ASSUME Typed, Exact, NEW c \in Clients, NEW o, Busy(c), op[c].step \notin DocSteps,
         op' = [op EXCEPT ![c] = o], FreshTable(o)', FreshDoc(o)'
  PROVE  Apart' /\ Fresh'
<1>1. op \in [Clients -> Ops] /\ \A b \in Clients : b # c => op[b].step = "idle"
  BY DEF Typed, TypeOK, Exact, Apart, Busy
<1>2. Apart'
  BY <1>1 DEF Apart, Busy
<1>3. Fresh'
  <2> SUFFICES ASSUME NEW b \in Clients, b # c PROVE FreshTable(op[b])' /\ FreshDoc(op[b])'
    BY <1>1 DEF Fresh
  <2>1. op'[b] = op[b] /\ FreshTable(op[b])
    BY <1>1 DEF Exact, Fresh
  <2> QED BY <1>1, <2>1 DEF FreshTable, FreshDoc, DocSteps
<1> QED BY <1>2, <1>3

\* An operation on a document goes on or ends: nobody else knows the document.
LEMMA ExactDoc ==
  ASSUME Typed, Exact, NEW c \in Clients, NEW d \in Docs, NEW o, NEW new \in Rec \cup {NoRec},
         op[c].step \in DocSteps, op[c].d = d, op' = [op EXCEPT ![c] = o],
         o = Idle \/ (o.step \in DocSteps /\ o.d = d /\ FreshDoc(o)'),
         docs' = [docs EXCEPT ![d] = new], new # NoRec => d \in minted,
         UNCHANGED <<tabSlug, minted>>, \A e \in Docs \ {d} : e \in nodes' <=> e \in nodes
  PROVE  Apart' /\ Fresh' /\ Minted'
<1>1. op \in [Clients -> Ops] /\ docs \in [Docs -> Rec \cup {NoRec}]
  BY DEF Typed, TypeOK
<1>2. \A b \in Clients : b # c /\ Busy(b) => op[b].step \in DocSteps /\ op[b].d # d /\ op[b].d \in Docs
  BY DEF Exact, Apart, Busy, DocSteps, Typed, OpShape, WellShaped
<1>3. Apart'
  BY <1>1, <1>2, FreshIdle DEF Exact, Apart, Busy
<1>4. Minted'
  BY <1>1 DEF Exact, Minted, Stored, Exists
<1>5. FreshTable(o)' /\ FreshDoc(o)'
  <2>1. ASSUME o.step \in DocSteps, FreshDoc(o)' PROVE FreshTable(o)' /\ FreshDoc(o)'
    BY <2>1 DEF FreshTable, DocSteps
  <2> QED BY <2>1, FreshIdle
<1>6. Fresh'
  <2> SUFFICES ASSUME NEW b \in Clients, b # c PROVE FreshTable(op[b])' /\ FreshDoc(op[b])'
    BY <1>1, <1>5 DEF Fresh
  <2>1. op'[b] = op[b] /\ FreshTable(op[b]) /\ FreshDoc(op[b])
    BY <1>1 DEF Exact, Fresh
  <2>2. CASE Busy(b)
    <3>1. op[b].step \in DocSteps /\ op[b].d # d /\ op[b].d \in Docs
      BY <1>2, <2>2
    <3> QED BY <1>1, <2>1, <3>1 DEF FreshTable, FreshDoc, DocSteps, Stored, Exists
  <2>3. CASE ~Busy(b)
    BY <2>1, <2>3 DEF Busy, FreshTable, FreshDoc, DocSteps
  <2> QED BY <2>2, <2>3
<1> QED BY <1>3, <1>4, <1>6

\* The transactions of operations on a document.
LEMMA ExactDocStep ==
  ASSUME Typed, Typed', Exact, NEW c \in Clients,
         \/ InsertDocument(c) \/ InsertNodes(c) \/ CheckUpdateDocument(c) \/ UpdateDocument(c)
         \/ DeleteDocument(c) \/ UpdateNode(c) \/ DeleteNode(c)
  PROVE  Exact'
<1>0. op[c].step \in DocSteps
  BY DEF InsertDocument, InsertNodes, CheckUpdateDocument, UpdateDocument, DeleteDocument, UpdateNode, DeleteNode,
         DocSteps
<1>1. PICK d \in Docs : d = op[c].d
  BY <1>0 DEF Typed, OpShape, WellShaped, DocSteps
<1>2. /\ FreshDoc(op[c]) /\ docs \in [Docs -> Rec \cup {NoRec}] /\ (Stored(d) => d \in minted) /\ op[c] \in Ops
      /\ \A e \in Docs : Stored(e) => Exists(docs[e].tab)
      /\ \A e \in nodes : Stored(e) /\ e \in nodeIdx
      /\ IndexExact /\ Counted /\ OwnersExist
  BY DEF Exact, Fresh, Minted, OwnersExist, Typed, TypeOK
<1>3. CASE InsertDocument(c)
  <2>1. PICK new \in Rec : new = op[c].new
    BY <1>3 DEF InsertDocument, Typed, OpShape, WellShaped
  <2>2. PICK o : o = [op[c] EXCEPT !.step = "insertNodes"]
    OBVIOUS
  <2>3. /\ docs[d] = NoRec /\ d \in minted /\ Exists(new.tab) /\ new # NoRec
        /\ docs' = [docs EXCEPT ![d] = new] /\ Reindex(d, docs[d], new) /\ Recount(docs[d], new)
        /\ op' = [op EXCEPT ![c] = o] /\ UNCHANGED <<tabSlug, slugIdx, minted, nodes, nodeIdx>>
    BY <1>1, <1>2, <1>3, <2>1, <2>2, RecTab DEF InsertDocument, Continue, FreshDoc, Stored, nodeVars
  <2>4. o.step = "insertNodes" /\ o.d = d /\ docs'[d] # NoRec
    BY <1>1, <1>2, <2>2, <2>3 DEF Ops
  <2>5. FreshDoc(o)'
    BY <2>4 DEF FreshDoc, Stored
  <2>6. Apart' /\ Fresh' /\ Minted'
    BY <1>0, <1>1, <2>3, <2>4, <2>5, ExactDoc DEF DocSteps
  <2>7. IndexExact' /\ Counted'
    BY <1>2, <2>3, ReindexExact, RecountExact
  <2>8. OwnersExist'
    BY <1>2, <2>3 DEF OwnersExist, Stored, Exists
  <2> QED BY <2>6, <2>7, <2>8 DEF Exact
<1>4. CASE UpdateDocument(c)
  <2>1. PICK new \in Rec : new = op[c].new
    BY <1>4 DEF UpdateDocument, Typed, OpShape, WellShaped
  <2>3. /\ docs[d] # NoRec /\ d \in minted /\ Exists(new.tab) /\ new # NoRec
        /\ docs' = [docs EXCEPT ![d] = new] /\ Reindex(d, docs[d], new) /\ Recount(docs[d], new)
        /\ op' = [op EXCEPT ![c] = Idle] /\ UNCHANGED <<tabSlug, slugIdx, minted, nodes, nodeIdx>>
    BY <1>1, <1>2, <1>4, <2>1, RecTab DEF UpdateDocument, End, Continue, FreshDoc, Stored, nodeVars
  <2>6. Apart' /\ Fresh' /\ Minted'
    BY <1>0, <1>1, <2>3, ExactDoc
  <2>7. IndexExact' /\ Counted'
    BY <1>2, <2>3, ReindexExact, RecountExact
  <2>8. OwnersExist'
    BY <1>2, <2>3 DEF OwnersExist, Stored, Exists
  <2> QED BY <2>6, <2>7, <2>8 DEF Exact
<1>5. CASE DeleteDocument(c)
  <2>3. /\ docs' = [docs EXCEPT ![d] = NoRec] /\ Reindex(d, docs[d], NoRec) /\ Recount(docs[d], NoRec)
        /\ op' = [op EXCEPT ![c] = Idle] /\ UNCHANGED <<tabSlug, slugIdx, minted>>
        /\ nodes' = (IF d \in nodeIdx THEN nodes \ {d} ELSE nodes) /\ nodeIdx' = nodeIdx \ {d}
    BY <1>1, <1>2, <1>5 DEF DeleteDocument, RemoveDocument, End, Continue, FreshDoc
  <2>6. Apart' /\ Fresh' /\ Minted'
    BY <1>0, <1>1, <2>3, ExactDoc
  <2>7. IndexExact' /\ Counted'
    BY <1>2, <2>3, ReindexExact, RecountExact
  <2>8. OwnersExist'
    BY <1>2, <2>3 DEF OwnersExist, Stored, Exists
  <2> QED BY <2>6, <2>7, <2>8 DEF Exact
<1>6. CASE InsertNodes(c) \/ UpdateNode(c) \/ DeleteNode(c)
  <2>3. /\ docs' = [docs EXCEPT ![d] = docs[d]] /\ op' = [op EXCEPT ![c] = Idle] /\ UNCHANGED <<tableVars, docVars, minted>>
        /\ \A e \in Docs \ {d} : e \in nodes' <=> e \in nodes
    BY <1>1, <1>2, <1>6 DEF InsertNodes, UpdateNode, DeleteNode, End, Continue, docVars
  <2>6. Apart' /\ Fresh' /\ Minted'
    BY <1>0, <1>1, <1>2, <2>3, ExactDoc DEF Stored, tableVars
  <2>7. IndexExact' /\ Counted'
    BY <1>2, <2>3, ExactFrame
  <2>8. OwnersExist'
    BY <1>1, <1>2, <1>6, <2>3
    DEF OwnersExist, Stored, Exists, FreshDoc, InsertNodes, UpdateNode, DeleteNode, tableVars, docVars
  <2> QED BY <2>6, <2>7, <2>8 DEF Exact
<1>7. CASE CheckUpdateDocument(c)
  <2>1. /\ docs' = [docs EXCEPT ![d] = docs[d]] /\ UNCHANGED <<tableVars, docVars, nodeVars, minted>>
        /\ docs[d] # NoRec /\ docs' = docs /\ tabSlug' = tabSlug
    BY <1>1, <1>2, <1>7 DEF CheckUpdateDocument, End, Continue, storeVars, tableVars, docVars, nodeVars, FreshDoc, Stored
  <2>2. PICK o : o = [op[c] EXCEPT !.step = "writeDoc", !.old = docs[d]]
    OBVIOUS
  <2>3. o.step = "writeDoc" /\ o.d = d /\ o.old = docs[d] /\ o.new = op[c].new
    BY <1>1, <1>2, <2>2 DEF Ops
  <2>4. \/ op' = [op EXCEPT ![c] = Idle]
        \/ op' = [op EXCEPT ![c] = o] /\ Exists(op[c].new.tab)
    BY <1>1, <1>2, <1>7, <2>2 DEF CheckUpdateDocument, End, Continue
  <2>5. Exists(op[c].new.tab) => FreshDoc(o)'
    BY <2>1, <2>3 DEF FreshDoc, Stored, Exists
  <2>6. Apart' /\ Fresh' /\ Minted'
    BY <1>0, <1>1, <1>2, <2>1, <2>3, <2>4, <2>5, ExactDoc DEF DocSteps, Stored, nodeVars
  <2>7. IndexExact' /\ Counted'
    BY <1>2, <2>1, ExactFrame
  <2>8. OwnersExist'
    BY <1>2, <2>1 DEF OwnersExist, Stored, Exists, nodeVars
  <2> QED BY <2>6, <2>7, <2>8 DEF Exact
<1> QED BY <1>3, <1>4, <1>5, <1>6, <1>7

\* The transactions of operations on a table.
LEMMA ExactTableStep ==
  ASSUME Typed, Typed', Exact, NEW c \in Clients,
         \/ InsertTable(c) \/ CheckUpdateTable(c) \/ UpdateTable(c) \/ DropTable(c)
         \/ \E cascade \in BOOLEAN : ListTable(c, cascade)
  PROVE  Exact'
<1>0. Busy(c) /\ op[c].step \notin DocSteps
  BY DEF InsertTable, CheckUpdateTable, UpdateTable, DropTable, ListTable, Busy, DocSteps
<1>1. PICK t \in Tables : t = op[c].t
  BY DEF InsertTable, CheckUpdateTable, UpdateTable, DropTable, ListTable, Typed, OpShape, WellShaped
<1>2. /\ FreshTable(op[c]) /\ FreshDoc(op[c]) /\ op[c] \in Ops
      /\ tabSlug \in [Tables -> Slugs \cup {NoSlug}] /\ slugIdx \in [Slugs -> Tables \cup {NoTable}]
      /\ tabCount \in [Tables -> Nat] /\ docs \in [Docs -> Rec \cup {NoRec}] /\ nodes \subseteq Docs
      /\ NoSlug \notin Slugs /\ NoTable \notin Tables
      /\ \A u \in Tables, s \in Slugs : (tabSlug[u] = s) <=> (slugIdx[s] = u)
      /\ \A u \in Tables : Exists(u) => u \in minted
      /\ \A e \in Docs : Stored(e) => Exists(docs[e].tab) /\ e \in minted /\ docs[e].tab \in Tables
      /\ \A e \in nodes : Stored(e) /\ e \in nodeIdx
      /\ IndexExact /\ Counted /\ OwnersExist /\ Minted
  BY StoreAssumption, RecTab DEF Exact, Fresh, Minted, OwnersExist, IndexExact, Typed, TypeOK, Stored
<1>3. ASSUME op' = [op EXCEPT ![c] = Idle] PROVE Apart' /\ Fresh'
  BY <1>0, <1>3, FreshIdle, ExactTable
<1>4. CASE InsertTable(c)
  <2>1. PICK s \in Slugs : s = op[c].s
    BY <1>2, <1>4 DEF InsertTable, FreshTable
  <2>2. /\ tabSlug[t] = NoSlug /\ slugIdx[s] = NoTable /\ t \in minted
        /\ tabSlug' = [tabSlug EXCEPT ![t] = s] /\ tabCount' = [tabCount EXCEPT ![t] = 0]
        /\ slugIdx' = [slugIdx EXCEPT ![s] = t] /\ op' = [op EXCEPT ![c] = Idle]
        /\ UNCHANGED <<docs, idxTable, idxKey, nodes, nodeIdx, minted>>
    BY <1>1, <1>2, <1>4, <2>1 DEF InsertTable, FreshTable, Exists, End, Continue, docVars, nodeVars
  <2>3. IndexExact'
    <3>1. \A u \in Tables, r \in Slugs : (tabSlug'[u] = r) <=> (slugIdx'[r] = u)
      BY <1>2, <2>2
    <3> QED BY <1>2, <2>2, <3>1 DEF IndexExact
  <2>4. Counted'
    <3>1. Members(t) = {}
      BY <1>2, <2>2 DEF Members, Stored, Exists, NoRec
    <3>2. Cardinality(Members(t)) = 0
      BY <3>1, FS_EmptySet
    <3>3. \A u \in Tables : Members(u)' = Members(u)
      BY <2>2 DEF Members
    <3>4. \A u \in Tables : IsFiniteSet(Members(u)) /\ (tabSlug[u] # NoSlug => tabCount[u] = Cardinality(Members(u)))
      BY <1>2 DEF Counted, CountsExact, Members, Exists
    <3>5. \A u \in Tables : IsFiniteSet(Members(u)') /\ (tabSlug'[u] # NoSlug => tabCount'[u] = Cardinality(Members(u)'))
      BY <1>2, <2>2, <3>2, <3>3, <3>4
    <3> QED BY <3>5 DEF Counted, CountsExact, Members, Exists
  <2>5. OwnersExist' /\ Minted'
    BY <1>2, <2>2 DEF OwnersExist, Minted, Stored, Exists
  <2> QED BY <1>3, <2>2, <2>3, <2>4, <2>5 DEF Exact
<1>5. CASE UpdateTable(c)
  <2>1. PICK s \in Slugs : s = op[c].s
    BY <1>2, <1>5 DEF UpdateTable, FreshTable
  <2>2. /\ tabSlug[t] # NoSlug /\ tabSlug[t] \in Slugs /\ (tabSlug[t] # s => slugIdx[s] = NoTable)
        /\ tabSlug' = [tabSlug EXCEPT ![t] = s] /\ tabCount' = [tabCount EXCEPT ![t] = tabCount[t]]
        /\ slugIdx' = SlugsAfterUpdate(tabSlug[t], s, t) /\ op' = [op EXCEPT ![c] = Idle]
        /\ UNCHANGED <<docs, idxTable, idxKey, nodes, nodeIdx, minted>>
    <3>1. op[c].step = "writeTable"
      BY <1>5 DEF UpdateTable
    <3>2. /\ Exists(t) /\ op[c].n = tabCount[t] /\ op[c].s0 = tabSlug[t]
          /\ tabSlug[t] # s => slugIdx[s] = NoTable
      BY <1>1, <1>2, <2>1, <3>1 DEF FreshTable
    <3> QED BY <1>1, <1>2, <1>5, <2>1, <3>2 DEF UpdateTable, Exists, End, Continue, docVars, nodeVars
  <2>3. IndexExact'
    <3>1. \A u \in Tables, r \in Slugs : (tabSlug'[u] = r) <=> (slugIdx'[r] = u)
      BY <1>2, <2>2 DEF SlugsAfterUpdate
    <3> QED BY <1>2, <2>2, <3>1 DEF IndexExact
  <2>4. Counted'
    BY <1>2, <2>2 DEF Counted, CountsExact, Members, Exists
  <2>5. OwnersExist' /\ Minted'
    BY <1>2, <2>2 DEF OwnersExist, Minted, Stored, Exists
  <2> QED BY <1>3, <2>2, <2>3, <2>4, <2>5 DEF Exact
<1>6. CASE DropTable(c)
  <2>1. PICK s \in Slugs : s = tabSlug[t]
    BY <1>1, <1>2, <1>6 DEF DropTable, FreshTable, Exists
  <2>2. /\ Members(t) = {}
        /\ tabSlug' = [tabSlug EXCEPT ![t] = NoSlug] /\ tabCount' = [tabCount EXCEPT ![t] = 0]
        /\ slugIdx' = [slugIdx EXCEPT ![s] = NoTable] /\ op' = [op EXCEPT ![c] = Idle]
        /\ UNCHANGED <<docs, idxTable, idxKey, nodes, nodeIdx, minted>>
    BY <1>1, <1>2, <1>6, <2>1 DEF DropTable, FreshTable, Exists, End, Continue, docVars, nodeVars
  <2>3. IndexExact'
    <3>1. \A u \in Tables, r \in Slugs : (tabSlug'[u] = r) <=> (slugIdx'[r] = u)
      BY <1>2, <2>1, <2>2
    <3> QED BY <1>2, <2>2, <3>1 DEF IndexExact
  <2>4. Counted'
    BY <1>2, <2>2 DEF Counted, CountsExact, Members, Exists
  <2>5. OwnersExist' /\ Minted'
    BY <1>2, <2>2 DEF OwnersExist, Minted, Members, Stored, Exists
  <2> QED BY <1>3, <2>2, <2>3, <2>4, <2>5 DEF Exact
<1>7. CASE UNCHANGED storeVars /\ UNCHANGED minted
  <2>1. IndexExact' /\ Counted' /\ OwnersExist' /\ Minted'
    <3>1. OwnersExist' /\ Minted'
      BY <1>2, <1>7 DEF OwnersExist, Minted, Stored, Exists, storeVars
    <3> QED BY <1>2, <1>7, <3>1, ExactFrame DEF storeVars, tableVars, docVars
  <2>2. CASE op' = [op EXCEPT ![c] = Idle]
    BY <1>3, <2>1, <2>2 DEF Exact
  <2>3. CASE CheckUpdateTable(c) /\ op' # [op EXCEPT ![c] = Idle]
    <3>1. PICK o : o = [op[c] EXCEPT !.step = "writeTable", !.s0 = tabSlug[t]]
      OBVIOUS
    <3>2. /\ op' = [op EXCEPT ![c] = o] /\ (tabSlug[t] # op[c].s => SlugOwner(op[c].s) \in {NoTable, t})
          /\ op[c].step = "updateTable"
      BY <1>1, <2>3, <3>1 DEF CheckUpdateTable, Continue, End
    <3>3. /\ o.step = "writeTable" /\ o.t = t /\ o.s = op[c].s /\ o.s0 = tabSlug[t] /\ o.n = tabCount[t] /\ o.d = NoDoc
          /\ Exists(t) /\ o.s \in Slugs
      BY <1>1, <1>2, <3>1, <3>2 DEF Ops, FreshTable, DocSteps
    <3>4. tabSlug[t] # o.s => slugIdx[o.s] = NoTable
      BY <1>2, <3>2, <3>3 DEF SlugOwner, Exists
    <3>5. FreshTable(o)' /\ FreshDoc(o)'
      BY <1>7, <3>3, <3>4 DEF FreshTable, FreshDoc, Exists, storeVars
    <3>6. Apart' /\ Fresh'
      BY <1>0, <3>2, <3>5, ExactTable
    <3> QED BY <2>1, <3>6 DEF Exact
  <2>4. CASE (\E cascade \in BOOLEAN : ListTable(c, cascade)) /\ op' # [op EXCEPT ![c] = Idle]
    <3>1. PICK o : o = [op[c] EXCEPT !.step = "cascade", !.rest = DocumentsInTable(t)]
      OBVIOUS
    <3>2. op' = [op EXCEPT ![c] = o] /\ op[c].step = "listTable"
      BY <1>1, <2>4, <3>1 DEF ListTable, Continue, End
    <3>3. /\ o.step = "cascade" /\ o.t = t /\ o.s0 = tabSlug[t] /\ o.rest = DocumentsInTable(t) /\ o.d = NoDoc /\ Exists(t)
      BY <1>1, <1>2, <3>1, <3>2 DEF Ops, FreshTable, DocSteps
    <3>4. DocumentsInTable(t) = Members(t)
      <4>2. \A e \in Docs : <<t, e>> \in idxTable <=> docs[e].tab = t
        BY <1>2, TableIndexed
      <4>3. \A e \in Docs : docs[e].tab = t => Stored(e)
        BY <1>2, RecTab DEF Stored
      <4> QED BY <4>2, <4>3 DEF DocumentsInTable, Members
    <3>5. FreshTable(o)' /\ FreshDoc(o)'
      BY <1>7, <3>3, <3>4 DEF FreshTable, FreshDoc, Exists, Members, storeVars
    <3>6. Apart' /\ Fresh'
      BY <1>0, <3>2, <3>5, ExactTable
    <3> QED BY <2>1, <3>6 DEF Exact
  <2>5. CASE InsertTable(c) \/ UpdateTable(c) \/ DropTable(c)
    BY <1>4, <1>5, <1>6, <2>5
  <2> QED BY <2>2, <2>3, <2>4, <2>5
<1> QED BY <1>4, <1>5, <1>6, <1>7 DEF CheckUpdateTable, ListTable, End, Continue

\* The cascade of a deleted table reads and removes its documents one by one.
LEMMA ExactCascade ==
  ASSUME Typed, Typed', Exact, NEW c \in Clients, (\E d \in Docs : CascadeRead(c, d)) \/ CascadeDelete(c)
  PROVE  Exact'
<1>0. Busy(c) /\ op[c].step \notin DocSteps
  BY DEF CascadeRead, CascadeDelete, Busy, DocSteps
<1>1. PICK t \in Tables : t = op[c].t
  BY DEF CascadeRead, CascadeDelete, Typed, OpShape, WellShaped
<1>2. /\ FreshTable(op[c]) /\ FreshDoc(op[c]) /\ op[c] \in Ops /\ docs \in [Docs -> Rec \cup {NoRec}]
      /\ \A e \in Docs : Stored(e) => Exists(docs[e].tab) /\ e \in minted
      /\ \A e \in Docs : docs[e].tab = t => Stored(e)
      /\ \A e \in nodes : Stored(e) /\ e \in nodeIdx
      /\ IndexExact /\ Counted /\ OwnersExist /\ Minted
  BY RecTab DEF Exact, Fresh, Minted, OwnersExist, Typed, TypeOK, Stored
<1>3. ASSUME NEW d \in Docs, CascadeRead(c, d) PROVE Exact'
  <2>1. PICK o : o = [op[c] EXCEPT !.step = "cascadeDoc", !.rest = @ \ {d}, !.d = d, !.old = docs[d]]
    OBVIOUS
  <2>2. /\ op[c].rest = Members(t) /\ d \in Members(t) /\ Stored(d) /\ Exists(t) /\ op[c].s0 = tabSlug[t]
        /\ UNCHANGED storeVars /\ UNCHANGED minted
    BY <1>1, <1>2, <1>3 DEF CascadeRead, FreshTable, Members, Continue
  <2>3. op' = [op EXCEPT ![c] = o]
    BY <1>3, <2>1, <2>2 DEF CascadeRead, Continue
  <2>4. /\ o.step = "cascadeDoc" /\ o.t = t /\ o.s0 = tabSlug[t] /\ o.rest = Members(t) \ {d} /\ o.d = d
        /\ o.old = docs[d] /\ docs[d].tab = t
    BY <1>1, <1>2, <2>1, <2>2 DEF Ops, Members
  <2>5. FreshTable(o)' /\ FreshDoc(o)'
    BY <2>2, <2>4 DEF FreshTable, FreshDoc, DocSteps, Exists, Stored, Members, storeVars
  <2>6. Apart' /\ Fresh'
    BY <1>0, <2>3, <2>5, ExactTable
  <2>7. OwnersExist' /\ Minted'
    BY <1>2, <2>2 DEF OwnersExist, Minted, Stored, Exists, storeVars
  <2>8. IndexExact' /\ Counted'
    BY <1>2, <2>2, ExactFrame DEF storeVars, tableVars, docVars
  <2> QED BY <2>6, <2>7, <2>8 DEF Exact
<1>4. CASE CascadeDelete(c)
  <2>1. PICK d \in Docs : d = op[c].d
    BY <1>4 DEF CascadeDelete, Typed, OpShape, WellShaped
  <2>2. PICK o : o = [op[c] EXCEPT !.step = "cascade", !.d = NoDoc, !.old = NoRec]
    OBVIOUS
  <2>3. /\ op[c].rest = Members(t) \ {d} /\ op[c].old = docs[d] /\ docs[d].tab = t /\ Exists(t) /\ op[c].s0 = tabSlug[t]
        /\ docs' = [docs EXCEPT ![d] = NoRec] /\ Reindex(d, docs[d], NoRec) /\ Recount(docs[d], NoRec)
        /\ op' = [op EXCEPT ![c] = o] /\ UNCHANGED <<tabSlug, slugIdx, minted>>
        /\ nodes' = (IF d \in nodeIdx THEN nodes \ {d} ELSE nodes) /\ nodeIdx' = nodeIdx \ {d}
    BY <1>1, <1>2, <1>4, <2>1, <2>2 DEF CascadeDelete, RemoveDocument, Continue, FreshTable, FreshDoc
  <2>4. o.step = "cascade" /\ o.t = t /\ o.s0 = tabSlug[t] /\ o.rest = Members(t) \ {d} /\ o.d = NoDoc
    BY <1>1, <1>2, <2>2, <2>3 DEF Ops
  <2>5. Members(t)' = Members(t) \ {d}
    BY <1>2, <2>3, RecTab DEF Members
  <2>6. FreshTable(o)' /\ FreshDoc(o)'
    <3>1. Exists(t)' /\ o.rest = Members(t)' /\ tabSlug' = tabSlug
      BY <2>3, <2>4, <2>5 DEF Exists
    <3> QED BY <2>4, <3>1 DEF FreshTable, FreshDoc, Exists, Members
  <2>7. Apart' /\ Fresh'
    BY <1>0, <2>3, <2>6, ExactTable
  <2>8. OwnersExist' /\ Minted'
    BY <1>2, <2>3 DEF OwnersExist, Minted, Stored, Exists
  <2>9. IndexExact' /\ Counted'
    BY <1>2, <2>3, ReindexExact, RecountExact
  <2> QED BY <2>7, <2>8, <2>9 DEF Exact
<1> QED BY <1>3, <1>4

\* An operation that begins in a store that stays quiet conflicts with no other.
LEMMA QuietBegin ==
  ASSUME NEW c \in Clients, NEW o, Begin(c, o), ~raced'
  PROVE  ~raced /\ ~Conflicts(o) /\ ~Busy(c) /\ op' = [op EXCEPT ![c] = o]
<1>1. raced' = (raced \/ Conflicts(o)) /\ ~Busy(c) /\ op' = [op EXCEPT ![c] = o]
  BY DEF Begin
<1> QED BY <1>1

\* Every operation begins with what it must remember, as it is.
LEMMA ExactBeginStep ==
  ASSUME Typed, Exact, NEW c \in Clients, BeginStep(c), ~raced'
  PROVE  Exact'
<1>0. /\ tabSlug \in [Tables -> Slugs \cup {NoSlug}] /\ slugIdx \in [Slugs -> Tables \cup {NoTable}]
      /\ tabCount \in [Tables -> Nat] /\ docs \in [Docs -> Rec \cup {NoRec}]
      /\ NoSlug \notin Slugs /\ NoTable \notin Tables /\ NoRec \notin Rec
      /\ \A u \in Tables, s \in Slugs : (tabSlug[u] = s) <=> (slugIdx[s] = u)
      /\ \A u \in Tables : Exists(u) => u \in minted
      /\ \A d \in Docs : Stored(d) => d \in minted
  BY StoreAssumption, NoRecIsNoRec DEF Typed, TypeOK, Exact, IndexExact, Minted
<1> USE <1>0, QuietBegin, ExactBegin DEF Idle, DocSteps, storeVars
<1>1. ASSUME NEW t \in Tables, NEW s \in Slugs, BeginInsertTable(c, t, s) PROVE Exact'
  <2>1. PICK o : o = [Idle EXCEPT !.step = "insertTable", !.t = t, !.s = s]
    OBVIOUS
  <2>2. /\ Begin(c, o) /\ ~Exists(t) /\ minted' = minted \cup {t} /\ UNCHANGED storeVars
        /\ SlugOwner(s) = NoTable
    BY <1>1, <2>1 DEF BeginInsertTable
  <2>3. slugIdx[s] = NoTable
    BY <2>2 DEF SlugOwner, Exists
  <2>4. o.step = "insertTable" /\ o.t = t /\ o.s = s /\ o.d = NoDoc
    BY <2>1
  <2>5. FreshTable(o)' /\ FreshDoc(o)'
    BY <2>2, <2>3, <2>4 DEF FreshTable, FreshDoc, Exists
  <2> QED BY <2>2, <2>4, <2>5
<1>2. ASSUME NEW t \in Tables, NEW s \in Slugs, BeginUpdateTable(c, t, s) PROVE Exact'
  <2>1. PICK o : o = [Idle EXCEPT !.step = "updateTable", !.t = t, !.s = s, !.n = tabCount[t]]
    OBVIOUS
  <2>2. Begin(c, o) /\ Exists(t) /\ UNCHANGED <<storeVars, minted>>
    BY <1>2, <2>1 DEF BeginUpdateTable
  <2>4. o.step = "updateTable" /\ o.t = t /\ o.s = s /\ o.d = NoDoc /\ o.n = tabCount[t]
    BY <2>1
  <2>5. FreshTable(o)' /\ FreshDoc(o)'
    BY <2>2, <2>4 DEF FreshTable, FreshDoc, Exists
  <2> QED BY <2>2, <2>4, <2>5
<1>3. ASSUME NEW t \in Tables, BeginDeleteTable(c, t) PROVE Exact'
  <2>1. PICK o : o = [Idle EXCEPT !.step = "listTable", !.t = t, !.s0 = tabSlug[t]]
    OBVIOUS
  <2>2. Begin(c, o) /\ Exists(t) /\ UNCHANGED <<storeVars, minted>>
    BY <1>3, <2>1 DEF BeginDeleteTable
  <2>4. o.step = "listTable" /\ o.t = t /\ o.s0 = tabSlug[t] /\ o.d = NoDoc
    BY <2>1
  <2>5. FreshTable(o)' /\ FreshDoc(o)'
    BY <2>2, <2>4 DEF FreshTable, FreshDoc, Exists
  <2> QED BY <2>2, <2>4, <2>5
<1>4. ASSUME NEW d \in Docs, NEW t \in Tables, NEW keys \in SUBSET Keys, BeginInsertDocument(c, d, t, keys)
      PROVE  Exact'
  <2>1. PICK o : o = [Idle EXCEPT !.step = "insertDoc", !.d = d, !.new = [tab |-> t, keys |-> keys]]
    OBVIOUS
  <2>2. Begin(c, o) /\ Exists(t) /\ ~Stored(d) /\ UNCHANGED storeVars /\ minted' = minted \cup {d}
    BY <1>4, <2>1 DEF BeginInsertDocument
  <2>4. o.step = "insertDoc" /\ o.d = d /\ o.new.tab = t
    BY <2>1
  <2>5. FreshTable(o)' /\ FreshDoc(o)'
    BY <2>2, <2>4 DEF FreshTable, FreshDoc, Exists, Stored
  <2> QED BY <2>2, <2>4, <2>5
<1>5. ASSUME NEW d \in Docs, NEW r \in Rec, BeginUpdateDocument(c, d, r) PROVE Exact'
  <2>1. PICK o : o = [Idle EXCEPT !.step = "updateDoc", !.d = d, !.new = r]
    OBVIOUS
  <2>2. Begin(c, o) /\ Stored(d) /\ UNCHANGED <<storeVars, minted>>
    BY <1>5, <2>1 DEF BeginUpdateDocument
  <2>4. o.step = "updateDoc" /\ o.d = d
    BY <2>1
  <2>5. FreshTable(o)' /\ FreshDoc(o)'
    BY <2>2, <2>4 DEF FreshTable, FreshDoc, Stored
  <2> QED BY <2>2, <2>4, <2>5
<1>6. ASSUME NEW d \in Docs, NEW t \in Tables, BeginMoveDocument(c, d, t) PROVE Exact'
  <2>1. PICK o : o = [Idle EXCEPT !.step = "writeDoc", !.d = d, !.old = docs[d],
                                  !.new = [tab |-> t, keys |-> docs[d].keys]]
    OBVIOUS
  <2>2. Begin(c, o) /\ Stored(d) /\ Exists(t) /\ UNCHANGED <<storeVars, minted>>
    BY <1>6, <2>1 DEF BeginMoveDocument
  <2>4. o.step = "writeDoc" /\ o.d = d /\ o.old = docs[d] /\ o.new.tab = t
    BY <2>1
  <2>5. FreshTable(o)' /\ FreshDoc(o)'
    BY <2>2, <2>4 DEF FreshTable, FreshDoc, Stored, Exists
  <2> QED BY <2>2, <2>4, <2>5
<1>7. ASSUME NEW d \in Docs, BeginDeleteDocument(c, d) PROVE Exact'
  <2>1. PICK o : o = [Idle EXCEPT !.step = "deleteDoc", !.d = d, !.old = docs[d]]
    OBVIOUS
  <2>2. Begin(c, o) /\ Stored(d) /\ UNCHANGED <<storeVars, minted>>
    BY <1>7, <2>1 DEF BeginDeleteDocument
  <2>4. o.step = "deleteDoc" /\ o.d = d /\ o.old = docs[d]
    BY <2>1
  <2>5. FreshTable(o)' /\ FreshDoc(o)'
    BY <2>2, <2>4 DEF FreshTable, FreshDoc, Stored
  <2> QED BY <2>2, <2>4, <2>5
<1>8. ASSUME NEW d \in Docs, BeginUpdateNode(c, d) \/ BeginDeleteNode(c, d) PROVE Exact'
  <2>1. PICK l \in {"writeNode", "deleteNode"} :
          Begin(c, [Idle EXCEPT !.step = l, !.d = d]) /\ d \in nodes /\ UNCHANGED <<storeVars, minted>>
    BY <1>8 DEF BeginUpdateNode, BeginDeleteNode
  <2>2. PICK o : o = [Idle EXCEPT !.step = l, !.d = d]
    OBVIOUS
  <2>3. Begin(c, o)
    BY <2>1, <2>2
  <2>4. o.step = l /\ o.d = d
    BY <2>2
  <2>5. FreshTable(o)' /\ FreshDoc(o)'
    BY <2>1, <2>4 DEF FreshTable, FreshDoc, Stored
  <2> QED BY <2>1, <2>3, <2>4, <2>5
<1> QED BY <1>1, <1>2, <1>3, <1>4, <1>5, <1>6, <1>7, <1>8 DEF BeginStep

\* QuietStoreIsExact is not inductive: a transaction writes what was read before, so that what every
\* operation in flight remembers has to be fresh, which is what the absence of conflicts gives.
QuietIsExact == ~raced => Exact

\* The empty store is exact.
LEMMA QuietInit == Init => QuietIsExact
<1> SUFFICES ASSUME Init PROVE Exact
  BY DEF QuietIsExact
<1>1. \A t \in Tables : Members(t) = {}
  BY StoreAssumption DEF Init, Members, NoRec
<1>2. IndexExact
  <2>1. \A d \in Docs : TableEntries(d, docs[d]) = {} /\ KeyEntries(d, docs[d]) = {}
    BY DEF Init, TableEntries, KeyEntries, NoRec
  <2>2. UNION {TableEntries(d, docs[d]) : d \in Docs} = {} /\ UNION {KeyEntries(d, docs[d]) : d \in Docs} = {}
    BY <2>1
  <2> QED BY <2>2, StoreAssumption DEF Init, IndexExact
<1>3. Counted
  BY <1>1, FS_EmptySet DEF Init, Counted, CountsExact, Exists
<1>4. Apart /\ Fresh
  BY DEF Init, Apart, Fresh, Busy, Idle, FreshTable, FreshDoc, DocSteps
<1>5. Minted /\ OwnersExist
  BY DEF Init, Minted, OwnersExist, Exists, Stored
<1> QED BY <1>2, <1>3, <1>4, <1>5 DEF Exact

\* Every step keeps the quiet store exact.
LEMMA QuietNext == Typed /\ QuietIsExact /\ [Next]_vars => QuietIsExact'
<1> SUFFICES ASSUME Typed, QuietIsExact, [Next]_vars, ~raced' PROVE Exact'
  BY DEF QuietIsExact
<1>0. Typed'
  BY TypedNext
<1>1. ~raced
  <2>1. ASSUME NEW c \in Clients, BeginStep(c) PROVE \E o : Begin(c, o)
    BY <2>1 DEF BeginStep, BeginInsertTable, BeginUpdateTable, BeginDeleteTable, BeginInsertDocument, BeginUpdateDocument,
                BeginMoveDocument, BeginDeleteDocument, BeginUpdateNode, BeginDeleteNode
  <2>2. ASSUME NEW c \in Clients, TransactionStep(c) PROVE raced' = raced
    BY <2>2 DEF TransactionStep, InsertTable, CheckUpdateTable, UpdateTable, ListTable, CascadeRead, CascadeDelete,
                DropTable, InsertDocument, InsertNodes, CheckUpdateDocument, UpdateDocument, DeleteDocument, UpdateNode,
                DeleteNode, End, Continue
  <2>3. CASE Crash \/ UNCHANGED vars
    BY <2>3 DEF Crash, vars
  <2> QED BY <2>1, <2>2, <2>3, QuietBegin DEF Next
<1>2. Exact
  BY <1>1 DEF QuietIsExact
<1>3. ASSUME NEW c \in Clients, BeginStep(c) PROVE Exact'
  BY <1>2, <1>3, ExactBeginStep
<1>4. ASSUME NEW c \in Clients, TransactionStep(c) PROVE Exact'
  BY <1>0, <1>2, <1>4, ExactTableStep, ExactCascade, ExactDocStep DEF TransactionStep
<1>5. CASE Crash \/ UNCHANGED vars
  <2>1. UNCHANGED <<tabSlug, tabCount, slugIdx, docs, idxTable, idxKey, nodes, nodeIdx, minted>>
    BY <1>5 DEF Crash, vars, storeVars
  <2>2. IndexExact' /\ Counted'
    BY <1>2, <2>1, ExactFrame DEF Exact, tableVars, docVars
  <2>3. OwnersExist' /\ Minted'
    BY <1>2, <2>1 DEF Exact, OwnersExist, Minted, Stored, Exists
  <2>4. Apart' /\ Fresh'
    <3>1. CASE Crash
      BY <3>1 DEF Crash, Apart, Fresh, Busy, Idle, FreshTable, FreshDoc, DocSteps
    <3>2. CASE UNCHANGED vars
      BY <1>2, <2>1, <3>2 DEF vars, Exact, Apart, Fresh, Busy, FreshTable, FreshDoc, Stored, Exists, Members
    <3> QED BY <1>5, <3>1, <3>2
  <2> QED BY <2>2, <2>3, <2>4 DEF Exact
<1> QED BY <1>3, <1>4, <1>5 DEF Next

\* As long as no two operations conflict, every interleaving of the transactions of concurrent
\* ingestions, moves, updates and deletions, with crashes between any two, leaves indexes, counters,
\* names and owners exact, and a cascade deletes documents of its table only.
THEOREM QuietStoresAreExact == Spec => []QuietStoreIsExact
<1>1. Spec => []QuietIsExact
  BY TypedInit, TypedNext, QuietInit, QuietNext, PTL DEF Spec
<1>2. QuietIsExact => QuietStoreIsExact
  BY DEF QuietIsExact, QuietStoreIsExact, Exact, Counted, Fresh, FreshTable
<1> QED BY <1>1, <1>2, PTL
=============================================================================
