---------------------------- MODULE RelationStore ----------------------------
(***************************************************************************)
(* Relations between documents: store/relations.rs and the routes that use *)
(* it.  A relation is stored with two multimap indexes and one entry of    *)
(* the pair index, which only remembers the relation written last for that *)
(* ordered pair.  An operation checks in read transactions and changes the *)
(* tables in one write transaction; each is one action.                    *)
(***************************************************************************)
EXTENDS Integers, FiniteSets

CONSTANTS
  RTasks,      \* tasks of the server
  RDocs,       \* document ids
  RTables,     \* table ids
  NoHome, NoRel,
  MaxRelations, \* bound on the relation ids generated
  MaxRequests  \* bound on the requests the server handles

VARIABLES
  home,     \* DOCUMENTS_TABLE: the table of a document, NoHome when there is no such document
  rel,      \* RELATIONS, IDX_FROM_DOC, IDX_TO_DOC and IDX_DOC_PAIR
  spent,    \* number of relation ids generated so far
  task,     \* what each task is doing
  requests  \* requests taken up so far

relVars == <<home, rel, spent>>

RelIds == 1..MaxRelations  \* random ids, numbered in the order they are generated

RelTypes == {"references", "referenced_by", "related_to"}
Symmetric(type) == type = "related_to"
InverseType(type) ==
  CASE type = "references" -> "referenced_by"
    [] type = "referenced_by" -> "references"
    [] OTHER -> type

Relation == [from : RDocs, to : RDocs, type : RelTypes]

ASSUME RelationAssumption ==
  /\ MaxRelations \in Nat \ {0, 1} /\ MaxRequests \in Nat /\ IsFiniteSet(RDocs)
  /\ NoHome \notin RTables /\ NoRel \notin RelIds \cup Relation

NoRelations == [recs |-> [i \in RelIds |-> NoRel], from |-> {}, to |-> {},
                pair |-> [p \in RDocs \X RDocs |-> NoRel]]

Idle == [step |-> "idle"]
RelTasks ==
  {Idle} \cup [step : {"insertRelation"}, new : Relation]
         \cup [step : {"removeRelation"}, id : RelIds, old : Relation]

Accept(t, work) ==
  /\ task[t] = Idle
  /\ requests < MaxRequests
  /\ requests' = requests + 1
  /\ task' = [task EXCEPT ![t] = work]

Proceed(t, work) == task' = [task EXCEPT ![t] = work] /\ UNCHANGED requests

(***************************************************************************)
(* The tables                                                              *)
(***************************************************************************)

Present(docs, d) == docs[d] # NoHome

\* One relation and its three index entries.
Put(r, i, x) ==
  [recs |-> [r.recs EXCEPT ![i] = x],
   from |-> r.from \cup {<<x.from, i>>},
   to   |-> r.to \cup {<<x.to, i>>},
   pair |-> [r.pair EXCEPT ![<<x.from, x.to>>] = i]]

InverseOf(x) == [from |-> x.to, to |-> x.from, type |-> InverseType(x.type)]

Duplicate(r, x) == r.pair[<<x.from, x.to>>] # NoRel

\* insert_relation's transaction: the relation under id i and, unless it is symmetric, its
\* inverse under id j, whose pair entry replaces the one that was there.
Inserted(r, x, i, j) ==
  IF Symmetric(x.type) THEN Put(r, i, x) ELSE Put(Put(r, i, x), j, InverseOf(x))

\* Mutant: the pair entry is left behind.
RemovedKeepsPair(r, i, x) ==
  [r EXCEPT !.recs[i] = NoRel, !.from = @ \ {<<x.from, i>>}, !.to = @ \ {<<x.to, i>>}]

\* delete_relation's transaction; x is the record read before it.  The pair entry goes
\* whichever relation it names, and the inverse stays.
Removed(r, i, x) ==
  [recs |-> [r.recs EXCEPT ![i] = NoRel],
   from |-> r.from \ {<<x.from, i>>},
   to   |-> r.to \ {<<x.to, i>>},
   pair |-> [r.pair EXCEPT ![<<x.from, x.to>>] = NoRel]]

RelationsFrom(r, d) == {i \in RelIds : <<d, i>> \in r.from /\ r.recs[i] # NoRel}
RelationsTo(r, d)   == {i \in RelIds : <<d, i>> \in r.to /\ r.recs[i] # NoRel}
AllRelations(r, d)  == RelationsFrom(r, d) \cup RelationsTo(r, d)

RelatedDocuments(r, d) ==
  {IF r.recs[i].from = d THEN r.recs[i].to ELSE r.recs[i].from : i \in AllRelations(r, d)}

AreRelated(r, a, b) == r.pair[<<a, b>>] # NoRel \/ r.pair[<<b, a>>] # NoRel

(***************************************************************************)
(* The routes                                                              *)
(***************************************************************************)

\* POST /relations: both documents must exist when they are looked up.
CreateRelation(t) ==
  \E x \in Relation :
    /\ Accept(t, IF Present(home, x.from) /\ Present(home, x.to)
                   THEN [step |-> "insertRelation", new |-> x] ELSE Idle)
    /\ UNCHANGED relVars

InsertRelation(t) ==
  /\ task[t].step = "insertRelation"
  /\ \/ /\ Duplicate(rel, task[t].new)
        /\ UNCHANGED <<rel, spent>>
     \/ /\ ~Duplicate(rel, task[t].new)
        /\ spent + 2 <= MaxRelations
        /\ rel' = Inserted(rel, task[t].new, spent + 1, spent + 2)
        /\ spent' = spent + 2
  /\ Proceed(t, Idle)
  /\ UNCHANGED home

\* DELETE /relations/:id
GetRelation(t) ==
  \E i \in 1..spent :
    /\ Accept(t, IF rel.recs[i] = NoRel THEN Idle
                 ELSE [step |-> "removeRelation", id |-> i, old |-> rel.recs[i]])
    /\ UNCHANGED relVars

RemoveRelation(t) ==
  /\ task[t].step = "removeRelation"
  /\ rel' = Removed(rel, task[t].id, task[t].old)
  /\ Proceed(t, Idle)
  /\ UNCHANGED <<home, spent>>

RelationStep(t) ==
  CreateRelation(t) \/ InsertRelation(t) \/ GetRelation(t) \/ RemoveRelation(t)

(***************************************************************************)
(* Properties                                                              *)
(***************************************************************************)

\* The check route never claims a relation that the listings do not show, and a listing of one
\* document shows another exactly when the other's listing shows the first: the four tables
\* stay consistent although a deletion works from a record it read in an earlier transaction
\* and clears a pair entry that may by then belong to another relation.
RelationReadsAgree ==
  \A a, b \in RDocs :
    /\ AreRelated(rel, a, b) => b \in RelatedDocuments(rel, a)
    /\ b \in RelatedDocuments(rel, a) <=> a \in RelatedDocuments(rel, b)
=============================================================================
