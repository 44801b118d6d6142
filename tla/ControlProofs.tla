---------------------------- MODULE ControlProofs ----------------------------
(***************************************************************************)
(* Proofs about relations, the replication of writes, backups, and the     *)
(* plugins of the ingestion stages.  The parts share no state, so each has *)
(* a specification of its own here.  MCControl runs them next to each      *)
(* other, with the node and the keys: what holds of each alone holds then. *)
(***************************************************************************)
EXTENDS MCControl, RaftNodeProofs, ApiKeysProofs, FiniteSetTheorems, SequenceTheorems, WellFoundedInduction, TLAPS
-----------------------------------------------------------------------------
(***************************************************************************)
(* Relations and the replication of writes                                 *)
(***************************************************************************)

\* Replication alone: MCControl runs it next to other parts of the server.
ReplicationSpec == ReplicationInit /\ [][ReplicationNext]_replicationVars

\* The values of the four relation tables, and of all tables.
Rels == [recs : [RelIds -> Relation \cup {NoRel}], from : SUBSET (RDocs \X RelIds),
         to : SUBSET (RDocs \X RelIds), pair : [RDocs \X RDocs -> RelIds \cup {NoRel}]]

Dbs == [home : [RDocs -> RTables \cup {NoHome}], tabs : [RTables -> Nat \cup {Absent}],
        pages : SUBSET RDocs, rel : Rels, spent : 0..MaxRelations]

\* With n ids given out, the indexes list exactly the relations that are stored, and a pair
\* entry names a stored relation between the two documents.
Consistent(r, n) ==
  /\ \A i \in RelIds : r.recs[i] # NoRel => i <= n
  /\ \A d \in RDocs, i \in RelIds : /\ <<d, i>> \in r.from <=> r.recs[i] # NoRel /\ r.recs[i].from = d
                                    /\ <<d, i>> \in r.to <=> r.recs[i] # NoRel /\ r.recs[i].to = d
  /\ \A a, b \in RDocs : r.pair[<<a, b>>] # NoRel =>
       /\ r.recs[r.pair[<<a, b>>]] # NoRel
       /\ r.recs[r.pair[<<a, b>>]].from = a /\ r.recs[r.pair[<<a, b>>]].to = b

\* A relation about to be removed is as it was read, or gone by now.
Remembered ==
  \A t \in RTasks : task[t].step = "removeRelation" =>
    task[t].id <= spent /\ rel.recs[task[t].id] \in {NoRel, task[t].old}

RelationsSound == Consistent(rel, spent) /\ Remembered
-----------------------------------------------------------------------------
\* The inverse of a relation is one.
LEMMA InverseTyped ==
  ASSUME NEW x \in Relation
  PROVE  InverseOf(x) \in Relation
BY DEF InverseOf, InverseType, Relation, RelTypes

\* What one write of a relation leaves in the four tables.
LEMMA PutFacts ==
  ASSUME NEW r \in Rels, NEW i \in RelIds, NEW x \in Relation
  PROVE  /\ Put(r, i, x) \in Rels
         /\ Put(r, i, x).recs = [r.recs EXCEPT ![i] = x]
         /\ Put(r, i, x).from = r.from \cup {<<x.from, i>>}
         /\ Put(r, i, x).to = r.to \cup {<<x.to, i>>}
         /\ Put(r, i, x).pair = [r.pair EXCEPT ![<<x.from, x.to>>] = i]
BY DEF Put, Rels, Relation

\* What one removal of a relation leaves.
LEMMA RemovedFacts ==
  ASSUME NEW r \in Rels, NEW i \in RelIds, NEW x \in Relation
  PROVE  /\ Removed(r, i, x) \in Rels
         /\ Removed(r, i, x).recs = [r.recs EXCEPT ![i] = NoRel]
         /\ Removed(r, i, x).from = r.from \ {<<x.from, i>>}
         /\ Removed(r, i, x).to = r.to \ {<<x.to, i>>}
         /\ Removed(r, i, x).pair = [r.pair EXCEPT ![<<x.from, x.to>>] = NoRel]
BY DEF Removed, Rels, Relation

\* A relation written under an id that is free keeps the indexes exact.
LEMMA PutConsistent ==
  ASSUME NEW r \in Rels, NEW n \in Nat, NEW m \in Nat, Consistent(r, n), n <= m,
         NEW i \in RelIds, i <= m, r.recs[i] = NoRel, NEW x \in Relation
  PROVE  Consistent(Put(r, i, x), m)
<1> DEFINE p == Put(r, i, x)
<1>1. /\ p.recs = [r.recs EXCEPT ![i] = x]
      /\ p.from = r.from \cup {<<x.from, i>>} /\ p.to = r.to \cup {<<x.to, i>>}
      /\ p.pair = [r.pair EXCEPT ![<<x.from, x.to>>] = i]
  BY PutFacts
<1>2. /\ r.recs \in [RelIds -> Relation \cup {NoRel}]
      /\ r.pair \in [RDocs \X RDocs -> RelIds \cup {NoRel}]
  BY DEF Rels
<1>3. x # NoRel /\ x.from \in RDocs /\ x.to \in RDocs /\ i # NoRel
  BY RelationAssumption DEF Relation
<1>4. p.recs[i] = x /\ \A k \in RelIds \ {i} : p.recs[k] = r.recs[k]
  BY <1>1, <1>2
<1> HIDE DEF p
<1>5. \A k \in RelIds : p.recs[k] # NoRel => k <= m
  <2>1. \A k \in RelIds : k \in Nat
    BY DEF RelIds
  <2> QED  BY <1>4, <2>1 DEF Consistent
<1>6. ASSUME NEW d \in RDocs, NEW k \in RelIds
      PROVE  /\ <<d, k>> \in p.from <=> p.recs[k] # NoRel /\ p.recs[k].from = d
             /\ <<d, k>> \in p.to <=> p.recs[k] # NoRel /\ p.recs[k].to = d
  <2>1. CASE k = i
    <3>1. <<d, i>> \notin r.from /\ <<d, i>> \notin r.to
      BY DEF Consistent
    <3> QED  BY <1>1, <1>3, <1>4, <2>1, <3>1
  <2>2. CASE k # i
    <3>1. /\ <<d, k>> \in p.from <=> <<d, k>> \in r.from
          /\ <<d, k>> \in p.to <=> <<d, k>> \in r.to
      BY <1>1, <2>2
    <3> QED  BY <1>4, <2>2, <3>1 DEF Consistent
  <2> QED  BY <2>1, <2>2
<1>7. ASSUME NEW a \in RDocs, NEW b \in RDocs, p.pair[<<a, b>>] # NoRel
      PROVE  /\ p.recs[p.pair[<<a, b>>]] # NoRel
             /\ p.recs[p.pair[<<a, b>>]].from = a /\ p.recs[p.pair[<<a, b>>]].to = b
  <2>1. CASE a = x.from /\ b = x.to
    <3>1. p.pair[<<a, b>>] = i
      BY <1>1, <1>2, <2>1
    <3> QED  BY <1>3, <1>4, <2>1, <3>1
  <2>2. CASE ~(a = x.from /\ b = x.to)
    <3>1. p.pair[<<a, b>>] = r.pair[<<a, b>>]
      BY <1>1, <1>2, <2>2
    <3>2. /\ r.pair[<<a, b>>] \in RelIds /\ r.recs[r.pair[<<a, b>>]] # NoRel
          /\ r.recs[r.pair[<<a, b>>]].from = a /\ r.recs[r.pair[<<a, b>>]].to = b
      BY <1>2, <1>7, <3>1 DEF Consistent
    <3>3. r.pair[<<a, b>>] # i
      BY <3>2
    <3> QED  BY <1>4, <3>1, <3>2, <3>3
  <2> QED  BY <2>1, <2>2
<1> QED  BY <1>5, <1>6, <1>7 DEF Consistent, p

\* The transaction of insert_relation keeps the indexes exact and the older relations, and is
\* found by the next look at the pair index.
LEMMA InsertedFacts ==
  ASSUME NEW r \in Rels, NEW n \in Nat, Consistent(r, n), n + 2 <= MaxRelations,
         NEW x \in Relation
  PROVE  /\ Inserted(r, x, n + 1, n + 2) \in Rels
         /\ Consistent(Inserted(r, x, n + 1, n + 2), n + 2)
         /\ \A i \in RelIds : i <= n => Inserted(r, x, n + 1, n + 2).recs[i] = r.recs[i]
         /\ Inserted(r, x, n + 1, n + 2).recs[n + 1] # r.recs[n + 1]
         /\ Duplicate(Inserted(r, x, n + 1, n + 2), x)
<1>1. MaxRelations \in Nat /\ n + 1 \in RelIds /\ n + 2 \in RelIds
  BY RelationAssumption DEF RelIds
<1>h. PICK h \in RelIds : h = n + 1
  BY <1>1
<1>2. PICK p : p = Put(r, h, x)
  OBVIOUS
<1>3. r.recs[n + 1] = NoRel /\ r.recs[n + 2] = NoRel
  BY <1>1 DEF Consistent
<1>4. /\ p \in Rels /\ Consistent(p, n + 1) /\ p.recs = [r.recs EXCEPT ![n + 1] = x]
      /\ p.pair = [r.pair EXCEPT ![<<x.from, x.to>>] = n + 1]
  <2>1. Consistent(p, h)
    <3>1. h \in Nat /\ n <= h /\ h <= h /\ r.recs[h] = NoRel
      BY <1>3, <1>h
    <3> QED  BY <1>2, <1>h, <3>1, PutConsistent
  <2>2. /\ p \in Rels /\ p.recs = [r.recs EXCEPT ![h] = x]
        /\ p.pair = [r.pair EXCEPT ![<<x.from, x.to>>] = h]
    BY <1>2, <1>h, PutFacts
  <2> QED  BY <1>h, <2>1, <2>2
<1>y. PICK y \in Relation : y = InverseOf(x)
  BY InverseTyped
<1>r. y \in Relation /\ p \in Rels
  BY <1>4, <1>y
<1>k. PICK k \in RelIds : k = n + 2
  BY <1>1
<1>5. PICK q : q = Put(p, k, y)
  OBVIOUS
<1>6. p.recs[k] = NoRel
  BY <1>1, <1>3, <1>4, <1>k DEF Rels
<1>7. /\ q \in Rels /\ Consistent(q, k) /\ q.recs = [p.recs EXCEPT ![k] = y]
      /\ q.pair = [p.pair EXCEPT ![<<y.from, y.to>>] = k]
  <2>1. Consistent(q, k)
    <3>1. n + 1 \in Nat /\ k \in Nat /\ n + 1 <= k /\ k <= k
      BY <1>k
    <3> QED  BY <1>4, <1>5, <1>6, <1>k, <1>r, <3>1, PutConsistent
  <2> QED  BY <1>5, <1>k, <1>r, <2>1, PutFacts
<1>8. PICK s : s = Inserted(r, x, n + 1, n + 2)
  OBVIOUS
<1>9. s = p \/ s = q
  BY <1>2, <1>5, <1>8, <1>h, <1>k, <1>y DEF Inserted
<1>10. Consistent(p, n + 2)
  BY <1>4 DEF Consistent, RelIds
<1>11. /\ x # NoRel /\ n + 1 # NoRel /\ n + 2 # NoRel /\ x.from \in RDocs /\ x.to \in RDocs
  BY <1>1, RelationAssumption DEF Relation
<1>12. \A i \in RelIds : i <= n => s.recs[i] = r.recs[i]
  <2>1. \A i \in RelIds : i <= n => i # n + 1 /\ i # k
    BY <1>k DEF RelIds
  <2>2. \A i \in RelIds : /\ i # n + 1 => p.recs[i] = r.recs[i]
                          /\ i # k => q.recs[i] = p.recs[i]
    BY <1>1, <1>4, <1>7 DEF Rels
  <2> QED  BY <1>9, <2>1, <2>2
<1>13. s.recs[n + 1] = x
  BY <1>1, <1>4, <1>7, <1>9 DEF Rels
<1>14. s.pair[<<x.from, x.to>>] # NoRel
  <2>1. /\ r.pair \in [RDocs \X RDocs -> RelIds \cup {NoRel}]
        /\ y.from \in RDocs /\ y.to \in RDocs
    BY <1>11, <1>y DEF Rels, Relation
  <2>2. p.pair[<<x.from, x.to>>] = n + 1
    BY <1>4, <1>11, <2>1
  <2>3. q.pair[<<x.from, x.to>>] \in {n + 1, n + 2}
    BY <1>4, <1>7, <1>11, <2>1, <2>2 DEF Rels
  <2> QED  BY <1>9, <1>11, <2>2, <2>3
<1> QED
  <2>1. s \in Rels /\ Consistent(s, n + 2)
    BY <1>4, <1>7, <1>9, <1>10, <1>k
  <2>2. s.recs[n + 1] # r.recs[n + 1]
    BY <1>3, <1>11, <1>13
  <2>3. Duplicate(s, x)
    BY <1>14 DEF Duplicate
  <2> QED  BY <1>8, <1>12, <2>1, <2>2, <2>3

\* A relation that is removed as it was read, once or twice, leaves the indexes exact.
LEMMA RemovedConsistent ==
  ASSUME NEW r \in Rels, NEW n \in Nat, Consistent(r, n),
         NEW i \in RelIds, NEW x \in Relation, r.recs[i] \in {NoRel, x}
  PROVE  Consistent(Removed(r, i, x), n)
<1> DEFINE p == Removed(r, i, x)
<1>1. /\ p.recs = [r.recs EXCEPT ![i] = NoRel]
      /\ p.from = r.from \ {<<x.from, i>>} /\ p.to = r.to \ {<<x.to, i>>}
      /\ p.pair = [r.pair EXCEPT ![<<x.from, x.to>>] = NoRel]
  BY RemovedFacts
<1>2. /\ r.recs \in [RelIds -> Relation \cup {NoRel}]
      /\ r.pair \in [RDocs \X RDocs -> RelIds \cup {NoRel}]
      /\ x.from \in RDocs /\ x.to \in RDocs
  BY DEF Rels, Relation
<1>3. p.recs[i] = NoRel /\ \A k \in RelIds \ {i} : p.recs[k] = r.recs[k]
  BY <1>1, <1>2
<1> HIDE DEF p
<1>4. \A k \in RelIds : p.recs[k] # NoRel => k <= n
  BY <1>3 DEF Consistent
<1>5. ASSUME NEW d \in RDocs, NEW k \in RelIds
      PROVE  /\ <<d, k>> \in p.from <=> p.recs[k] # NoRel /\ p.recs[k].from = d
             /\ <<d, k>> \in p.to <=> p.recs[k] # NoRel /\ p.recs[k].to = d
  <2>1. CASE k = i
    <3>1. /\ <<d, i>> \in r.from => d = x.from
          /\ <<d, i>> \in r.to => d = x.to
      BY DEF Consistent
    <3> QED  BY <1>1, <1>3, <2>1, <3>1
  <2>2. CASE k # i
    <3>1. /\ <<d, k>> \in p.from <=> <<d, k>> \in r.from
          /\ <<d, k>> \in p.to <=> <<d, k>> \in r.to
      BY <1>1, <2>2
    <3> QED  BY <1>3, <2>2, <3>1 DEF Consistent
  <2> QED  BY <2>1, <2>2
<1>6. ASSUME NEW a \in RDocs, NEW b \in RDocs, p.pair[<<a, b>>] # NoRel
      PROVE  /\ p.recs[p.pair[<<a, b>>]] # NoRel
             /\ p.recs[p.pair[<<a, b>>]].from = a /\ p.recs[p.pair[<<a, b>>]].to = b
  <2>1. ~(a = x.from /\ b = x.to) /\ p.pair[<<a, b>>] = r.pair[<<a, b>>]
    BY <1>1, <1>2, <1>6
  <2>2. /\ r.pair[<<a, b>>] \in RelIds /\ r.recs[r.pair[<<a, b>>]] # NoRel
        /\ r.recs[r.pair[<<a, b>>]].from = a /\ r.recs[r.pair[<<a, b>>]].to = b
    BY <1>2, <1>6, <2>1 DEF Consistent
  <2>3. r.pair[<<a, b>>] # i
    BY <2>1, <2>2
  <2> QED  BY <1>3, <2>1, <2>2, <2>3
<1> QED  BY <1>4, <1>5, <1>6 DEF Consistent, p

\* Applying DeleteRelation: what goes, what stays, and that the indexes stay exact.
LEMMA UnrelatedFacts ==
  ASSUME NEW r \in Rels, NEW n \in Nat, Consistent(r, n), NEW a \in RDocs, NEW b \in RDocs
  PROVE  /\ Unrelated(r, a, b) \in Rels /\ Consistent(Unrelated(r, a, b), n)
         /\ \A i \in RelIds : Unrelated(r, a, b).recs[i] \in {NoRel, r.recs[i]}
         /\ Unrelated(Unrelated(r, a, b), a, b) = Unrelated(r, a, b)
<1> DEFINE gone == {i \in AllRelations(r, a) : r.recs[i].to = b}
           Cleared(p) == \E i \in gone : p = <<r.recs[i].from, r.recs[i].to>>
<1>1. PICK u : u = Unrelated(r, a, b)
  OBVIOUS
<1>2. /\ u.recs = [i \in RelIds |-> IF i \in gone THEN NoRel ELSE r.recs[i]]
      /\ u.from = {e \in r.from : e[2] \notin gone} /\ u.to = {e \in r.to : e[2] \notin gone}
      /\ u.pair = [p \in RDocs \X RDocs |-> IF Cleared(p) THEN NoRel ELSE r.pair[p]]
  BY <1>1 DEF Unrelated
<1>3. u = [recs |-> u.recs, from |-> u.from, to |-> u.to, pair |-> u.pair]
  BY <1>1 DEF Unrelated
<1>4. gone \subseteq RelIds
  BY DEF AllRelations, RelationsFrom, RelationsTo
<1>5. /\ r.recs \in [RelIds -> Relation \cup {NoRel}]
      /\ r.pair \in [RDocs \X RDocs -> RelIds \cup {NoRel}]
      /\ r.from \subseteq RDocs \X RelIds /\ r.to \subseteq RDocs \X RelIds
  BY DEF Rels
<1>6. \A i \in gone : r.recs[i] # NoRel
  BY DEF AllRelations, RelationsFrom, RelationsTo
<1>7. u \in Rels
  <2>1. u.recs \in [RelIds -> Relation \cup {NoRel}]
    BY <1>2, <1>5
  <2>2. u.pair \in [RDocs \X RDocs -> RelIds \cup {NoRel}]
    BY <1>2, <1>5
  <2>3. u.from \subseteq RDocs \X RelIds /\ u.to \subseteq RDocs \X RelIds
    BY <1>2, <1>5
  <2> QED  BY <1>3, <2>1, <2>2, <2>3 DEF Rels
<1>8. \A i \in RelIds : u.recs[i] = IF i \in gone THEN NoRel ELSE r.recs[i]
  BY <1>2
<1>9. Consistent(u, n)
  <2>1. \A i \in RelIds : u.recs[i] # NoRel => i <= n
    BY <1>8 DEF Consistent
  <2>2. ASSUME NEW d \in RDocs, NEW i \in RelIds
        PROVE  /\ <<d, i>> \in u.from <=> u.recs[i] # NoRel /\ u.recs[i].from = d
               /\ <<d, i>> \in u.to <=> u.recs[i] # NoRel /\ u.recs[i].to = d
    <3>1. /\ <<d, i>> \in u.from <=> <<d, i>> \in r.from /\ i \notin gone
          /\ <<d, i>> \in u.to <=> <<d, i>> \in r.to /\ i \notin gone
      BY <1>2
    <3> QED  BY <1>8, <3>1 DEF Consistent
  <2>3. ASSUME NEW c \in RDocs, NEW d \in RDocs, u.pair[<<c, d>>] # NoRel
        PROVE  /\ u.recs[u.pair[<<c, d>>]] # NoRel
               /\ u.recs[u.pair[<<c, d>>]].from = c /\ u.recs[u.pair[<<c, d>>]].to = d
    <3>1. ~Cleared(<<c, d>>) /\ u.pair[<<c, d>>] = r.pair[<<c, d>>]
      BY <1>2, <2>3
    <3>2. /\ r.pair[<<c, d>>] \in RelIds /\ r.recs[r.pair[<<c, d>>]] # NoRel
          /\ r.recs[r.pair[<<c, d>>]].from = c /\ r.recs[r.pair[<<c, d>>]].to = d
      BY <1>5, <2>3, <3>1 DEF Consistent
    <3>3. r.pair[<<c, d>>] \notin gone
      BY <3>1, <3>2
    <3> QED  BY <1>8, <3>1, <3>2, <3>3
  <2> HIDE DEF gone, Cleared
  <2> QED  BY <2>1, <2>2, <2>3 DEF Consistent
<1>10. \A i \in RelIds : u.recs[i] \in {NoRel, r.recs[i]}
  BY <1>8
<1>11. Unrelated(u, a, b) = u
  <2>1. {i \in AllRelations(u, a) : u.recs[i].to = b} = {}
    <3> SUFFICES ASSUME NEW i \in AllRelations(u, a), u.recs[i].to = b PROVE FALSE
      OBVIOUS
    <3>1. i \in RelIds /\ u.recs[i] # NoRel /\ (<<a, i>> \in u.from \/ <<a, i>> \in u.to)
      BY DEF AllRelations, RelationsFrom, RelationsTo
    <3>2. i \notin gone /\ r.recs[i] = u.recs[i]
      BY <1>8, <3>1
    <3>3. <<a, i>> \in r.from \/ <<a, i>> \in r.to
      BY <1>2, <3>1
    <3>4. i \in gone
      BY <3>1, <3>2, <3>3 DEF AllRelations, RelationsFrom, RelationsTo
    <3> QED  BY <3>2, <3>4
  <2>2. PICK none : none = {i \in AllRelations(u, a) : u.recs[i].to = b}
    OBVIOUS
  <2>3. Unrelated(u, a, b) =
          [recs |-> [i \in RelIds |-> IF i \in none THEN NoRel ELSE u.recs[i]],
           from |-> {e \in u.from : e[2] \notin none},
           to   |-> {e \in u.to : e[2] \notin none},
           pair |-> [p \in RDocs \X RDocs |->
                       IF \E i \in none : p = <<u.recs[i].from, u.recs[i].to>> THEN NoRel
                       ELSE u.pair[p]]]
    BY <2>2 DEF Unrelated
  <2>4. /\ [i \in RelIds |-> IF i \in none THEN NoRel ELSE u.recs[i]] = u.recs
        /\ {e \in u.from : e[2] \notin none} = u.from /\ {e \in u.to : e[2] \notin none} = u.to
    BY <1>2, <2>1, <2>2
  <2>5. [p \in RDocs \X RDocs |->
           IF \E i \in none : p = <<u.recs[i].from, u.recs[i].to>> THEN NoRel ELSE u.pair[p]] = u.pair
    BY <1>2, <2>1, <2>2
  <2> QED  BY <1>3, <2>3, <2>4, <2>5
<1> QED  BY <1>1, <1>7, <1>9, <1>10, <1>11

\* In consistent tables what one listing shows the other shows, and the pair index nothing else.
LEMMA ConsistentReads ==
  ASSUME NEW r \in Rels, NEW n \in Nat, Consistent(r, n), NEW a \in RDocs, NEW b \in RDocs
  PROVE  /\ AreRelated(r, a, b) => b \in RelatedDocuments(r, a)
         /\ b \in RelatedDocuments(r, a) => a \in RelatedDocuments(r, b)
<1>1. /\ r.recs \in [RelIds -> Relation \cup {NoRel}]
      /\ r.pair \in [RDocs \X RDocs -> RelIds \cup {NoRel}]
  BY DEF Rels
<1>2. \A c \in RDocs, i \in RelIds :
        /\ i \in AllRelations(r, c) <=>
             r.recs[i] # NoRel /\ (r.recs[i].from = c \/ r.recs[i].to = c)
  BY DEF AllRelations, RelationsFrom, RelationsTo, Consistent
<1>3. \A c, d \in RDocs : d \in RelatedDocuments(r, c) <=>
        \E i \in RelIds : /\ r.recs[i] # NoRel
                          /\ \/ r.recs[i].from = c /\ r.recs[i].to = d
                             \/ r.recs[i].to = c /\ r.recs[i].from = d
  <2> SUFFICES ASSUME NEW c \in RDocs, NEW d \in RDocs
               PROVE  d \in RelatedDocuments(r, c) <=>
                        \E i \in RelIds : /\ r.recs[i] # NoRel
                                          /\ \/ r.recs[i].from = c /\ r.recs[i].to = d
                                             \/ r.recs[i].to = c /\ r.recs[i].from = d
    OBVIOUS
  <2>1. AllRelations(r, c) \subseteq RelIds
    BY DEF AllRelations, RelationsFrom, RelationsTo
  <2> QED  BY <1>2, <2>1 DEF RelatedDocuments
<1>4. AreRelated(r, a, b) =>
        \E i \in RelIds : /\ r.recs[i] # NoRel
                          /\ \/ r.recs[i].from = a /\ r.recs[i].to = b
                             \/ r.recs[i].to = a /\ r.recs[i].from = b
  <2>1. ASSUME NEW c \in RDocs, NEW d \in RDocs, r.pair[<<c, d>>] # NoRel
        PROVE  \E i \in RelIds : r.recs[i] # NoRel /\ r.recs[i].from = c /\ r.recs[i].to = d
    BY <1>1, <2>1 DEF Consistent
  <2> QED  BY <2>1 DEF AreRelated
<1> QED  BY <1>3, <1>4
-----------------------------------------------------------------------------
\* Each kind of entry has the fields of its kind.
LEMMA EntryFacts ==
  ASSUME NEW e \in Entries
  PROVE  /\ e.kind \in {"UpsertTable", "DeleteTable", "UpsertDocument", "DeleteDocument", "UpsertNode",
                        "DeleteNode", "CreateRelation", "DeleteRelation", "Noop"}
         /\ e.kind \in {"UpsertTable", "DeleteTable", "UpsertDocument"} => e.table \in RTables
         /\ e.kind \in {"UpsertDocument", "DeleteDocument", "UpsertNode", "DeleteNode"} =>
              e.doc \in RDocs
         /\ e.kind \in {"CreateRelation", "DeleteRelation"} =>
              e.from \in RDocs /\ e.to \in RDocs /\ e.type \in RelTypes
BY DEF Entries

\* What an entry of each kind does.
LEMMA AppliedBy ==
  ASSUME NEW db, NEW e
  PROVE  /\ e.kind = "UpsertTable" => Applied(db, e) = [db EXCEPT !.tabs[e.table] = 0]
         /\ e.kind = "DeleteTable" =>
              Applied(db, e) = IF db.tabs[e.table] = Absent THEN db ELSE DropTable(db, e.table)
         /\ e.kind = "UpsertDocument" => Applied(db, e) = PutDocument(db, e.doc, e.table)
         /\ e.kind = "DeleteDocument" => Applied(db, e) = DropDocument(db, e.doc)
         /\ e.kind = "UpsertNode" => Applied(db, e) = [db EXCEPT !.pages = @ \cup {e.doc}]
         /\ e.kind = "DeleteNode" => Applied(db, e) = [db EXCEPT !.pages = @ \ {e.doc}]
         /\ e.kind = "CreateRelation" =>
              Applied(db, e) = Created(db, [from |-> e.from, to |-> e.to, type |-> e.type])
         /\ e.kind = "DeleteRelation" =>
              Applied(db, e) = [db EXCEPT !.rel = Unrelated(@, e.from, e.to)]
         /\ e.kind = "Noop" => Applied(db, e) = db
BY DEF Applied

\* Counts stay counts.
LEMMA AddToTyped ==
  ASSUME NEW t \in RTables \cup {NoHome}, NEW n \in {-1, 1},
         NEW counts \in [RTables -> Nat \cup {Absent}]
  PROVE  AddTo(t, n, counts) \in [RTables -> Nat \cup {Absent}]
<1>1. CASE t = NoHome \/ counts[t] = Absent
  BY <1>1 DEF AddTo
<1>2. CASE ~(t = NoHome \/ counts[t] = Absent)
  <2>1. t \in RTables /\ counts[t] \in Nat
    BY <1>2
  <2>2. PICK k : k = IF counts[t] + n < 0 THEN 0 ELSE counts[t] + n
    OBVIOUS
  <2>3. k \in Nat
    BY <2>1, <2>2
  <2>4. AddTo(t, n, counts) = [counts EXCEPT ![t] = k]
    BY <1>2, <2>2 DEF AddTo
  <2> QED  BY <2>1, <2>3, <2>4
<1> QED  BY <1>1, <1>2

\* The parts of the store that an entry about tables, documents or nodes can change are typed
\* again, relations are left alone, and the entry changes nothing when it is applied once more.
LEMMA StoreEntryFacts ==
  ASSUME NEW db \in Dbs, NEW e \in Entries, Applies(db, e),
         e.kind \notin {"CreateRelation", "DeleteRelation"}
  PROVE  /\ Applied(db, e) \in Dbs
         /\ Applied(db, e).rel = db.rel /\ Applied(db, e).spent = db.spent
         /\ Applies(Applied(db, e), e)
         /\ Applied(Applied(db, e), e) = Applied(db, e)
<1>1. /\ db.home \in [RDocs -> RTables \cup {NoHome}] /\ db.tabs \in [RTables -> Nat \cup {Absent}]
      /\ db.pages \subseteq RDocs /\ db.rel \in Rels /\ db.spent \in 0..MaxRelations
      /\ db = [home |-> db.home, tabs |-> db.tabs, pages |-> db.pages, rel |-> db.rel,
               spent |-> db.spent]
  BY DEF Dbs
<1>2. PICK n : n = Applied(db, e)
  OBVIOUS
<1>3. SUFFICES /\ n \in Dbs /\ n.rel = db.rel /\ n.spent = db.spent
               /\ Applies(n, e) /\ Applied(n, e) = n
  BY <1>2
<1>4. CASE e.kind = "UpsertTable"
  <2>1. n = [db EXCEPT !.tabs[e.table] = 0] /\ e.table \in RTables
    BY <1>2, <1>4, AppliedBy, EntryFacts
  <2>2. PICK m : m = [db.tabs EXCEPT ![e.table] = 0]
    OBVIOUS
  <2>3. n = [home |-> db.home, tabs |-> m, pages |-> db.pages, rel |-> db.rel, spent |-> db.spent]
    BY <1>1, <2>1, <2>2
  <2>4. m \in [RTables -> Nat \cup {Absent}] /\ [m EXCEPT ![e.table] = 0] = m
    BY <1>1, <2>1, <2>2
  <2>5. n.tabs = m /\ [n EXCEPT !.tabs[e.table] = 0] = n
    BY <2>3, <2>4
  <2>6. Applied(n, e) = n
    BY <1>4, <2>5, AppliedBy
  <2> QED  BY <1>1, <1>4, <2>3, <2>4, <2>6 DEF Dbs, Applies
<1>5. CASE e.kind = "DeleteTable"
  <2>1. e.table \in RTables /\ n = IF db.tabs[e.table] = Absent THEN db ELSE DropTable(db, e.table)
    BY <1>2, <1>5, AppliedBy, EntryFacts
  <2>2. CASE db.tabs[e.table] = Absent
    BY <1>1, <1>2, <1>5, <2>1, <2>2 DEF Applies
  <2>3. CASE db.tabs[e.table] # Absent
    <3> DEFINE gone == {d \in RDocs : db.home[d] = e.table}
               m == [db.tabs EXCEPT ![e.table] = Absent]
               h == [d \in RDocs |-> IF d \in gone THEN NoHome ELSE db.home[d]]
    <3>1. n = [home |-> h, tabs |-> m, pages |-> db.pages \ gone, rel |-> db.rel, spent |-> db.spent]
      BY <1>1, <2>1, <2>3 DEF DropTable
    <3>2. /\ m \in [RTables -> Nat \cup {Absent}] /\ m[e.table] = Absent
          /\ h \in [RDocs -> RTables \cup {NoHome}] /\ db.pages \ gone \subseteq RDocs
      BY <1>1, <2>1
    <3> HIDE DEF gone, m, h
    <3>3. n \in Dbs /\ n.tabs[e.table] = Absent
      BY <1>1, <3>1, <3>2 DEF Dbs
    <3>4. Applied(n, e) = n
      BY <1>5, <3>3, AppliedBy
    <3> QED  BY <1>5, <3>1, <3>3, <3>4 DEF Applies
  <2> QED  BY <2>2, <2>3
<1>6. CASE e.kind = "UpsertDocument"
  <2>1. e.doc \in RDocs /\ e.table \in RTables /\ n = PutDocument(db, e.doc, e.table)
    BY <1>2, <1>6, AppliedBy, EntryFacts
  <2>2. n \in Dbs /\ n.rel = db.rel /\ n.spent = db.spent /\ n.home[e.doc] = e.table
    <3>1. CASE db.home[e.doc] = e.table
      BY <2>1, <3>1 DEF PutDocument
    <3>2. CASE db.home[e.doc] # e.table
      <4>1. PICK m : m = AddTo(db.home[e.doc], -1, db.tabs)
        OBVIOUS
      <4>2. m \in [RTables -> Nat \cup {Absent}]
        BY <1>1, <2>1, <4>1, AddToTyped
      <4>3. PICK k : k = AddTo(e.table, 1, m)
        OBVIOUS
      <4>4. k \in [RTables -> Nat \cup {Absent}]
        BY <2>1, <4>2, <4>3, AddToTyped
      <4>5. PICK h : h = [db.home EXCEPT ![e.doc] = e.table]
        OBVIOUS
      <4>6. h \in [RDocs -> RTables \cup {NoHome}] /\ h[e.doc] = e.table
        BY <1>1, <2>1, <4>5
      <4>7. n = [home |-> h, tabs |-> k, pages |-> db.pages, rel |-> db.rel, spent |-> db.spent]
        BY <1>1, <2>1, <3>2, <4>1, <4>3, <4>5 DEF PutDocument
      <4> QED  BY <1>1, <4>4, <4>6, <4>7 DEF Dbs
    <3> QED  BY <3>1, <3>2
  <2>3. Applied(n, e) = n
    BY <1>6, <2>2, AppliedBy DEF PutDocument
  <2> QED  BY <2>2, <2>3 DEF Applies
<1>7. CASE e.kind = "DeleteDocument"
  <2>1. e.doc \in RDocs /\ n = DropDocument(db, e.doc)
    BY <1>2, <1>7, AppliedBy, EntryFacts
  <2>2. n \in Dbs /\ n.rel = db.rel /\ n.spent = db.spent /\ n.home[e.doc] = NoHome
    <3>1. CASE db.home[e.doc] = NoHome
      BY <2>1, <3>1 DEF DropDocument
    <3>2. CASE db.home[e.doc] # NoHome
      <4>1. PICK k : k = AddTo(db.home[e.doc], -1, db.tabs)
        OBVIOUS
      <4>2. k \in [RTables -> Nat \cup {Absent}]
        BY <1>1, <2>1, <4>1, AddToTyped
      <4>3. PICK h : h = [db.home EXCEPT ![e.doc] = NoHome]
        OBVIOUS
      <4>4. h \in [RDocs -> RTables \cup {NoHome}] /\ h[e.doc] = NoHome
        BY <1>1, <2>1, <4>3
      <4>5. n = [home |-> h, tabs |-> k, pages |-> db.pages \ {e.doc}, rel |-> db.rel,
                 spent |-> db.spent]
        BY <1>1, <2>1, <3>2, <4>1, <4>3 DEF DropDocument
      <4> QED  BY <1>1, <4>2, <4>4, <4>5 DEF Dbs
    <3> QED  BY <3>1, <3>2
  <2>3. Applied(n, e) = n
    BY <1>7, <2>2, AppliedBy DEF DropDocument
  <2> QED  BY <1>7, <2>2, <2>3 DEF Applies
<1>8. CASE e.kind \in {"UpsertNode", "DeleteNode"}
  <2>1. e.doc \in RDocs
    BY <1>8, EntryFacts
  <2>2. PICK ps : ps = IF e.kind = "UpsertNode" THEN db.pages \cup {e.doc} ELSE db.pages \ {e.doc}
    OBVIOUS
  <2>3. n = [home |-> db.home, tabs |-> db.tabs, pages |-> ps, rel |-> db.rel, spent |-> db.spent]
    <3>1. n = [db EXCEPT !.pages = ps]
      <4>1. CASE e.kind = "UpsertNode"
        BY <1>2, <2>2, <4>1, AppliedBy
      <4>2. CASE e.kind = "DeleteNode"
        BY <1>2, <2>2, <4>2, AppliedBy
      <4> QED  BY <1>8, <4>1, <4>2
    <3> QED  BY <1>1, <3>1
  <2>4. ps \subseteq RDocs
    BY <1>1, <2>1, <2>2
  <2>5. /\ e.kind = "UpsertNode" => ps \cup {e.doc} = ps
        /\ e.kind = "DeleteNode" => ps \ {e.doc} = ps
    BY <2>2
  <2>6. n.pages = ps /\ [n EXCEPT !.pages = ps] = n
    BY <2>3
  <2>7. Applied(n, e) = n
    <3>1. CASE e.kind = "UpsertNode"
      <4>1. Applied(n, e) = [n EXCEPT !.pages = @ \cup {e.doc}]
        BY <3>1, AppliedBy
      <4> QED  BY <2>5, <2>6, <3>1, <4>1
    <3>2. CASE e.kind = "DeleteNode"
      <4>1. Applied(n, e) = [n EXCEPT !.pages = @ \ {e.doc}]
        BY <3>2, AppliedBy
      <4> QED  BY <2>5, <2>6, <3>2, <4>1
    <3> QED  BY <1>8, <3>1, <3>2
  <2> QED  BY <1>1, <1>8, <2>3, <2>4, <2>7 DEF Dbs, Applies
<1>9. CASE e.kind = "Noop"
  BY <1>2, <1>9, AppliedBy DEF Applies
<1> QED  BY <1>4, <1>5, <1>6, <1>7, <1>8, <1>9, EntryFacts

\* An entry of either kind keeps the relations exact and, applied once more, changes nothing.
LEMMA AppliedFacts ==
  ASSUME NEW db \in Dbs, Consistent(db.rel, db.spent), NEW e \in Entries, Applies(db, e)
  PROVE  /\ Applied(db, e) \in Dbs
         /\ Consistent(Applied(db, e).rel, Applied(db, e).spent)
         /\ Applied(db, e).spent \in {db.spent, db.spent + 2}
         /\ \A i \in RelIds : i <= db.spent => Applied(db, e).rel.recs[i] \in {NoRel, db.rel.recs[i]}
         /\ Applies(Applied(db, e), e)
         /\ Applied(Applied(db, e), e) = Applied(db, e)
<1>1. /\ db.home \in [RDocs -> RTables \cup {NoHome}] /\ db.tabs \in [RTables -> Nat \cup {Absent}]
      /\ db.pages \subseteq RDocs /\ db.rel \in Rels /\ db.spent \in Nat /\ db.spent \in 0..MaxRelations
      /\ db = [home |-> db.home, tabs |-> db.tabs, pages |-> db.pages, rel |-> db.rel,
               spent |-> db.spent]
      /\ MaxRelations \in Nat
  BY RelationAssumption DEF Dbs
<1>2. PICK n : n = Applied(db, e)
  OBVIOUS
<1>3. SUFFICES /\ n \in Dbs /\ Consistent(n.rel, n.spent) /\ n.spent \in {db.spent, db.spent + 2}
               /\ \A i \in RelIds : i <= db.spent => n.rel.recs[i] \in {NoRel, db.rel.recs[i]}
               /\ Applies(n, e) /\ Applied(n, e) = n
  BY <1>2
<1>4. CASE e.kind \notin {"CreateRelation", "DeleteRelation"}
  <2>1. n \in Dbs /\ n.rel = db.rel /\ n.spent = db.spent /\ Applies(n, e) /\ Applied(n, e) = n
    BY <1>2, <1>4, StoreEntryFacts
  <2> QED  BY <2>1
<1>5. CASE e.kind = "CreateRelation"
  <2>1. PICK x \in Relation : x = [from |-> e.from, to |-> e.to, type |-> e.type]
    BY <1>5, EntryFacts DEF Relation
  <2>2. n = Created(db, x)
    BY <1>2, <1>5, <2>1, AppliedBy
  <2>3. Applied(n, e) = Created(n, x)
    BY <1>5, <2>1, AppliedBy
  <2>4. Applies(n, e)
    BY <1>5 DEF Applies
  <2>5. CASE n = db
    BY <1>1, <2>2, <2>3, <2>4, <2>5
  <2>6. CASE n # db
    <3>1. PICK r : r = Inserted(db.rel, x, db.spent + 1, db.spent + 2)
      OBVIOUS
    <3>2. /\ db.spent + 2 <= MaxRelations
          /\ n = [home |-> db.home, tabs |-> db.tabs, pages |-> db.pages, rel |-> r,
                  spent |-> db.spent + 2]
      <4>1. /\ db.spent + 2 <= MaxRelations
            /\ n = [db EXCEPT !.rel = Inserted(@, x, db.spent + 1, db.spent + 2), !.spent = @ + 2]
        BY <1>1, <2>2, <2>6 DEF Created
      <4>2. n = [db EXCEPT !.rel = r, !.spent = @ + 2]
        BY <3>1, <4>1
      <4> QED  BY <1>1, <4>1, <4>2
    <3>3. /\ r \in Rels /\ Consistent(r, db.spent + 2) /\ Duplicate(r, x)
          /\ \A i \in RelIds : i <= db.spent => r.recs[i] = db.rel.recs[i]
      <4>1. PICK s \in Rels, k \in Nat : s = db.rel /\ k = db.spent
        BY <1>1
      <4>2. Consistent(s, k) /\ k + 2 <= MaxRelations /\ r = Inserted(s, x, k + 1, k + 2)
        BY <3>1, <3>2, <4>1
      <4> QED  BY <2>1, <4>1, <4>2, InsertedFacts
    <3>4. n.rel = r /\ n.spent = db.spent + 2 /\ n \in Dbs
      <4>1. db.spent + 2 \in 0..MaxRelations
        BY <1>1, <3>2
      <4> QED  BY <1>1, <3>2, <3>3, <4>1 DEF Dbs
    <3>5. Created(n, x) = n
      BY <3>3, <3>4 DEF Created
    <3> QED  BY <2>3, <2>4, <3>3, <3>4, <3>5
  <2> QED  BY <2>5, <2>6
<1>6. CASE e.kind = "DeleteRelation"
  <2>1. e.from \in RDocs /\ e.to \in RDocs
    BY <1>6, EntryFacts
  <2>2. PICK r : r = Unrelated(db.rel, e.from, e.to)
    OBVIOUS
  <2>3. /\ r \in Rels /\ Consistent(r, db.spent) /\ Unrelated(r, e.from, e.to) = r
        /\ \A i \in RelIds : r.recs[i] \in {NoRel, db.rel.recs[i]}
    BY <1>1, <2>1, <2>2, UnrelatedFacts
  <2>4. n = [home |-> db.home, tabs |-> db.tabs, pages |-> db.pages, rel |-> r, spent |-> db.spent]
    <3>1. n = [db EXCEPT !.rel = Unrelated(@, e.from, e.to)]
      BY <1>2, <1>6, AppliedBy
    <3>2. n = [db EXCEPT !.rel = r]
      BY <2>2, <3>1
    <3> QED  BY <1>1, <3>2
  <2>5. n.rel = r /\ n.spent = db.spent /\ [n EXCEPT !.rel = r] = n
    BY <2>4
  <2>6. n \in Dbs
    BY <1>1, <2>3, <2>4 DEF Dbs
  <2>7. Applied(n, e) = n
    <3>1. Applied(n, e) = [n EXCEPT !.rel = Unrelated(@, e.from, e.to)]
      BY <1>6, AppliedBy
    <3> QED  BY <2>3, <2>5, <3>1
  <2> QED  BY <1>6, <2>3, <2>5, <2>6, <2>7 DEF Applies
<1> QED  BY <1>4, <1>5, <1>6
-----------------------------------------------------------------------------
\* What is known of a typed state of the replicated store.
LEMMA ReplicationFacts ==
  ASSUME ReplicationTypeOK
  PROVE  /\ home \in [RDocs -> RTables \cup {NoHome}] /\ tabs \in [RTables -> Nat \cup {Absent}]
         /\ pages \subseteq RDocs /\ spent \in 0..MaxRelations /\ rel \in Rels
         /\ task \in [RTasks -> RelTasks] /\ requests \in 0..MaxRequests
         /\ latest \in Entries \cup {NoEntry} /\ Db \in Dbs
         /\ spent \in Nat /\ MaxRelations \in Nat /\ MaxRequests \in Nat /\ Idle \in RelTasks
         /\ Db.rel = rel /\ Db.spent = spent
<1>1. /\ home \in [RDocs -> RTables \cup {NoHome}] /\ tabs \in [RTables -> Nat \cup {Absent}]
      /\ pages \subseteq RDocs /\ spent \in 0..MaxRelations /\ rel \in Rels
      /\ task \in [RTasks -> RelTasks] /\ requests \in 0..MaxRequests
      /\ latest \in Entries \cup {NoEntry}
  BY DEF ReplicationTypeOK, Rels
<1>2. Db \in Dbs /\ Db.rel = rel /\ Db.spent = spent
  BY <1>1 DEF Db, Dbs
<1>3. spent \in Nat /\ MaxRelations \in Nat /\ MaxRequests \in Nat /\ Idle \in RelTasks
  BY <1>1, RelationAssumption DEF RelTasks
<1> QED  BY <1>1, <1>2, <1>3

\* Each kind of request has the fields of its kind.
LEMMA TaskFacts ==
  ASSUME NEW w \in RelTasks
  PROVE  /\ w.step = "insertRelation" => w.new \in Relation
         /\ w.step = "removeRelation" => w.id \in RelIds /\ w.old \in Relation
BY DEF RelTasks, Idle

\* A request that is taken up.
LEMMA AcceptFacts ==
  ASSUME ReplicationTypeOK, NEW t \in RTasks, NEW w \in RelTasks, Accept(t, w)
  PROVE  /\ task' = [task EXCEPT ![t] = w] /\ task' \in [RTasks -> RelTasks]
         /\ requests' \in 0..MaxRequests
<1>1. requests' \in 0..MaxRequests
  BY ReplicationFacts DEF Accept
<1>2. task' = [task EXCEPT ![t] = w] /\ task' \in [RTasks -> RelTasks]
  BY ReplicationFacts DEF Accept
<1> QED  BY <1>1, <1>2

\* Relations only come under new ids and only go, and so every request remembers one that is
\* as it was or gone.
LEMMA RelationsKept ==
  ASSUME ReplicationTypeOK, RelationsSound, NEW t \in RTasks, NEW w \in RelTasks,
         task' = [task EXCEPT ![t] = w],
         Consistent(rel', spent'), spent' \in {spent, spent + 2},
         \A i \in RelIds : i <= spent => rel'.recs[i] \in {NoRel, rel.recs[i]},
         w.step = "removeRelation" => w.id <= spent /\ rel.recs[w.id] \in {NoRel, w.old}
  PROVE  RelationsSound'
<1>1. task'[t] = w /\ \A u \in RTasks \ {t} : task'[u] = task[u]
  BY ReplicationFacts
<1>2. ASSUME NEW u \in RTasks, task'[u].step = "removeRelation"
      PROVE  task'[u].id <= spent' /\ rel'.recs[task'[u].id] \in {NoRel, task'[u].old}
  <2>1. /\ task'[u] \in RelTasks
        /\ task'[u].id <= spent /\ rel.recs[task'[u].id] \in {NoRel, task'[u].old}
    <3>1. CASE u = t
      BY <1>1, <1>2, <3>1
    <3>2. CASE u # t
      BY <1>1, <1>2, <3>2, ReplicationFacts DEF RelationsSound, Remembered
    <3> QED  BY <3>1, <3>2
  <2>2. task'[u].id \in RelIds
    BY <1>2, <2>1, TaskFacts
  <2>3. task'[u].id <= spent'
    BY <2>1, <2>2, ReplicationFacts DEF RelIds
  <2> QED  BY <2>1, <2>2, <2>3
<1>3. Remembered'
  BY <1>2 DEF Remembered
<1>4. Consistent(rel, spent)'
  OBVIOUS
<1> QED  BY <1>3, <1>4 DEF RelationsSound

\* An entry that is applied.
LEMMA ApplyEntryStep ==
  ASSUME ReplicationTypeOK, RelationsSound, NEW t \in RTasks, ApplyEntry(t)
  PROVE  ReplicationTypeOK' /\ RelationsSound' /\ ReplayIsHarmless'
<1>1. PICK e \in Entries :
        /\ Accept(t, Idle) /\ Applies(Db, e)
        /\ home' = Applied(Db, e).home /\ tabs' = Applied(Db, e).tabs
        /\ pages' = Applied(Db, e).pages /\ rel' = Applied(Db, e).rel
        /\ spent' = Applied(Db, e).spent /\ latest' = e
  BY DEF ApplyEntry
<1>2. PICK d \in Dbs : d = Db
  BY ReplicationFacts
<1>3. PICK n : n = Applied(d, e)
  OBVIOUS
<1>4. Consistent(d.rel, d.spent) /\ Applies(d, e)
  BY <1>1, <1>2, ReplicationFacts DEF RelationsSound
<1>5. /\ n \in Dbs /\ Consistent(n.rel, n.spent) /\ n.spent \in {spent, spent + 2}
      /\ \A i \in RelIds : i <= spent => n.rel.recs[i] \in {NoRel, rel.recs[i]}
      /\ Applies(n, e) /\ Applied(n, e) = n
  BY <1>2, <1>3, <1>4, AppliedFacts, ReplicationFacts
<1>6. /\ home' = n.home /\ tabs' = n.tabs /\ pages' = n.pages /\ rel' = n.rel /\ spent' = n.spent
      /\ latest' = e /\ task' = [task EXCEPT ![t] = Idle]
      /\ task' \in [RTasks -> RelTasks] /\ requests' \in 0..MaxRequests
  BY <1>1, <1>2, <1>3, AcceptFacts, ReplicationFacts
<1>7. ReplicationTypeOK'
  <2>1. /\ home' \in [RDocs -> RTables \cup {NoHome}] /\ tabs' \in [RTables -> Nat \cup {Absent}]
        /\ pages' \subseteq RDocs /\ spent' \in 0..MaxRelations /\ rel' \in Rels
    BY <1>5, <1>6 DEF Dbs
  <2>2. latest' \in Entries \cup {NoEntry}
    BY <1>6
  <2> QED  BY <1>6, <2>1, <2>2 DEF ReplicationTypeOK, Rels
<1>8. RelationsSound'
  <2>1. Idle.step # "removeRelation" /\ Idle \in RelTasks
    BY ReplicationFacts DEF Idle
  <2> QED  BY <1>5, <1>6, <2>1, RelationsKept
<1>9. ReplayIsHarmless'
  <2>1. Db' = [home |-> home', tabs |-> tabs', pages |-> pages', rel |-> rel', spent |-> spent']
    BY DEF Db
  <2>2. Db' = n
    BY <1>5, <1>6, <2>1 DEF Dbs
  <2>3. Applies(Db', latest') /\ Applied(Db', latest') = Db'
    BY <1>5, <1>6, <2>2
  <2> QED  BY <2>3 DEF ReplayIsHarmless
<1> QED  BY <1>7, <1>8, <1>9

\* A request that only reads.
LEMMA RelationReadStep ==
  ASSUME ReplicationTypeOK, RelationsSound, ReplayIsHarmless, NEW t \in RTasks,
         CreateRelation(t) \/ GetRelation(t),
         latest' = IF rel' = rel THEN latest ELSE NoEntry, UNCHANGED <<tabs, pages>>
  PROVE  ReplicationTypeOK' /\ RelationsSound' /\ ReplayIsHarmless'
<1>1. UNCHANGED <<home, rel, spent, tabs, pages, latest>>
  BY DEF CreateRelation, GetRelation, relVars
<1>2. PICK w \in RelTasks : /\ Accept(t, w)
                            /\ w.step = "removeRelation" => w.id <= spent /\ rel.recs[w.id] = w.old
  <2>1. CASE CreateRelation(t)
    <3>1. PICK x \in Relation :
            Accept(t, IF Present(home, x.from) /\ Present(home, x.to)
                        THEN [step |-> "insertRelation", new |-> x] ELSE Idle)
      BY <2>1 DEF CreateRelation
    <3>2. PICK w : w = IF Present(home, x.from) /\ Present(home, x.to)
                         THEN [step |-> "insertRelation", new |-> x] ELSE Idle
      OBVIOUS
    <3>3. w \in RelTasks /\ w.step # "removeRelation"
      BY <3>2 DEF RelTasks, Idle
    <3> QED  BY <3>1, <3>2, <3>3
  <2>2. CASE GetRelation(t)
    <3>1. PICK i \in 1..spent :
            Accept(t, IF rel.recs[i] = NoRel THEN Idle
                      ELSE [step |-> "removeRelation", id |-> i, old |-> rel.recs[i]])
      BY <2>2 DEF GetRelation
    <3>2. i \in RelIds /\ i <= spent /\ rel.recs[i] \in Relation \cup {NoRel}
      BY <3>1, ReplicationFacts DEF RelIds, Rels
    <3>3. CASE rel.recs[i] = NoRel
      <4>1. Idle.step # "removeRelation" /\ Idle \in RelTasks /\ Accept(t, Idle)
        BY <3>1, <3>3, ReplicationFacts DEF Idle
      <4> QED  BY <4>1
    <3>4. CASE rel.recs[i] # NoRel
      <4>1. PICK w : w = [step |-> "removeRelation", id |-> i, old |-> rel.recs[i]]
        OBVIOUS
      <4>2. w \in RelTasks /\ w.id = i /\ w.old = rel.recs[i]
        BY <3>2, <3>4, <4>1 DEF RelTasks
      <4>3. Accept(t, w)
        BY <3>1, <3>4, <4>1
      <4> QED  BY <3>2, <4>2, <4>3
    <3> QED  BY <3>3, <3>4
  <2> QED  BY <2>1, <2>2
<1>3. /\ task' = [task EXCEPT ![t] = w] /\ task' \in [RTasks -> RelTasks]
      /\ requests' \in 0..MaxRequests
  BY <1>2, AcceptFacts
<1>4. ReplicationTypeOK'
  BY <1>1, <1>3 DEF ReplicationTypeOK
<1>5. RelationsSound'
  <2>1. Consistent(rel', spent') /\ spent' \in {spent, spent + 2}
        /\ \A i \in RelIds : i <= spent => rel'.recs[i] \in {NoRel, rel.recs[i]}
    BY <1>1 DEF RelationsSound
  <2> QED  BY <1>2, <1>3, <2>1, RelationsKept
<1>6. ReplayIsHarmless'
  BY <1>1 DEF ReplayIsHarmless, Db
<1> QED  BY <1>4, <1>5, <1>6

\* A relation that is inserted, or turned down as a duplicate.
LEMMA InsertRelationStep ==
  ASSUME ReplicationTypeOK, RelationsSound, ReplayIsHarmless, NEW t \in RTasks,
         InsertRelation(t),
         latest' = IF rel' = rel THEN latest ELSE NoEntry, UNCHANGED <<tabs, pages>>
  PROVE  ReplicationTypeOK' /\ RelationsSound' /\ ReplayIsHarmless'
<1>1. task[t].new \in Relation
  BY TaskFacts, ReplicationFacts DEF InsertRelation
<1>2. /\ task' = [task EXCEPT ![t] = Idle] /\ UNCHANGED <<requests, home>>
      /\ task' \in [RTasks -> RelTasks]
  BY ReplicationFacts DEF InsertRelation, Proceed
<1>3. Idle.step # "removeRelation" /\ Idle \in RelTasks
  BY ReplicationFacts DEF Idle
<1>4. CASE UNCHANGED <<rel, spent>>
  <2>1. latest' = latest
    BY <1>4
  <2>2. ReplicationTypeOK'
    BY <1>2, <1>4, <2>1 DEF ReplicationTypeOK
  <2>3. RelationsSound'
    <3>1. Consistent(rel', spent') /\ spent' \in {spent, spent + 2}
          /\ \A i \in RelIds : i <= spent => rel'.recs[i] \in {NoRel, rel.recs[i]}
      BY <1>4 DEF RelationsSound
    <3> QED  BY <1>2, <1>3, <3>1, RelationsKept
  <2>4. ReplayIsHarmless'
    BY <1>2, <1>4, <2>1 DEF ReplayIsHarmless, Db
  <2> QED  BY <2>2, <2>3, <2>4
<1>5. CASE ~UNCHANGED <<rel, spent>>
  <2>1. /\ spent + 2 <= MaxRelations
        /\ rel' = Inserted(rel, task[t].new, spent + 1, spent + 2) /\ spent' = spent + 2
    BY <1>5 DEF InsertRelation
  <2>2. PICK r \in Rels, n \in Nat, x \in Relation : r = rel /\ n = spent /\ x = task[t].new
    BY <1>1, ReplicationFacts
  <2>3. PICK q : q = Inserted(r, x, n + 1, n + 2)
    OBVIOUS
  <2>4. /\ q \in Rels /\ Consistent(q, n + 2)
        /\ \A i \in RelIds : i <= n => q.recs[i] = r.recs[i]
        /\ q.recs[n + 1] # r.recs[n + 1]
    BY <2>1, <2>2, <2>3, InsertedFacts DEF RelationsSound
  <2>5. rel' = q /\ spent' = n + 2 /\ rel' # rel /\ latest' = NoEntry
    BY <2>1, <2>2, <2>3, <2>4
  <2>6. ReplicationTypeOK'
    <3>1. rel' \in Rels /\ spent' \in 0..MaxRelations
      BY <2>1, <2>4, <2>5, ReplicationFacts
    <3> QED  BY <1>2, <2>5, <3>1, ReplicationFacts DEF ReplicationTypeOK, Rels
  <2>7. RelationsSound'
    <3>1. Consistent(rel', spent') /\ spent' \in {spent, spent + 2}
          /\ \A i \in RelIds : i <= spent => rel'.recs[i] \in {NoRel, rel.recs[i]}
      BY <2>1, <2>2, <2>4, <2>5
    <3> QED  BY <1>2, <1>3, <3>1, RelationsKept
  <2>8. ReplayIsHarmless'
    BY <2>5 DEF ReplayIsHarmless, NoEntry
  <2> QED  BY <2>6, <2>7, <2>8
<1> QED  BY <1>4, <1>5

\* A relation that is removed by the record that was read.
LEMMA RemoveRelationStep ==
  ASSUME ReplicationTypeOK, RelationsSound, ReplayIsHarmless, NEW t \in RTasks,
         RemoveRelation(t),
         latest' = IF rel' = rel THEN latest ELSE NoEntry, UNCHANGED <<tabs, pages>>
  PROVE  ReplicationTypeOK' /\ RelationsSound' /\ ReplayIsHarmless'
<1>1. task[t].id \in RelIds /\ task[t].old \in Relation
  BY TaskFacts, ReplicationFacts DEF RemoveRelation
<1>2. /\ task' = [task EXCEPT ![t] = Idle] /\ UNCHANGED <<requests, home, spent>>
      /\ task' \in [RTasks -> RelTasks]
  BY ReplicationFacts DEF RemoveRelation, Proceed
<1>3. Idle.step # "removeRelation" /\ Idle \in RelTasks
  BY ReplicationFacts DEF Idle
<1>4. PICK r \in Rels, n \in Nat, i \in RelIds, x \in Relation :
        r = rel /\ n = spent /\ i = task[t].id /\ x = task[t].old
  BY <1>1, ReplicationFacts
<1>5. PICK q : q = Removed(r, i, x)
  OBVIOUS
<1>6. rel' = q
  BY <1>4, <1>5 DEF RemoveRelation
<1>7. r.recs[i] \in {NoRel, x} /\ Consistent(r, n)
  BY <1>4 DEF RemoveRelation, RelationsSound, Remembered
<1>8. q \in Rels /\ Consistent(q, n) /\ q.recs = [r.recs EXCEPT ![i] = NoRel]
  BY <1>5, <1>7, RemovedConsistent, RemovedFacts
<1>9. \A k \in RelIds : q.recs[k] \in {NoRel, r.recs[k]}
  BY <1>8 DEF Rels
<1>10. latest' \in Entries \cup {NoEntry}
  BY ReplicationFacts
<1>11. ReplicationTypeOK'
  BY <1>2, <1>6, <1>8, <1>10, ReplicationFacts DEF ReplicationTypeOK, Rels
<1>12. RelationsSound'
  <2>1. Consistent(rel', spent') /\ spent' \in {spent, spent + 2}
        /\ \A k \in RelIds : k <= spent => rel'.recs[k] \in {NoRel, rel.recs[k]}
    BY <1>2, <1>4, <1>6, <1>8, <1>9
  <2> QED  BY <1>2, <1>3, <2>1, RelationsKept
<1>13. ReplayIsHarmless'
  <2>1. CASE rel' = rel
    BY <1>2, <2>1 DEF ReplayIsHarmless, Db
  <2>2. CASE rel' # rel
    BY <2>2 DEF ReplayIsHarmless
  <2> QED  BY <2>1, <2>2
<1> QED  BY <1>11, <1>12, <1>13

\* Each step keeps the types, the indexes and what a replay relies on.
LEMMA ReplicationStep ==
  ReplicationTypeOK /\ RelationsSound /\ ReplayIsHarmless /\ [ReplicationNext]_replicationVars =>
    (ReplicationTypeOK /\ RelationsSound /\ ReplayIsHarmless)'
<1> SUFFICES ASSUME ReplicationTypeOK, RelationsSound, ReplayIsHarmless,
                    [ReplicationNext]_replicationVars
             PROVE  ReplicationTypeOK' /\ RelationsSound' /\ ReplayIsHarmless'
  OBVIOUS
<1>1. ASSUME NEW t \in RTasks, ApplyEntry(t)
      PROVE  ReplicationTypeOK' /\ RelationsSound' /\ ReplayIsHarmless'
  BY <1>1, ApplyEntryStep
<1>2. ASSUME NEW t \in RTasks, ServeRelations(t)
      PROVE  ReplicationTypeOK' /\ RelationsSound' /\ ReplayIsHarmless'
  <2>1. latest' = (IF rel' = rel THEN latest ELSE NoEntry) /\ UNCHANGED <<tabs, pages>>
    BY <1>2 DEF ServeRelations
  <2>2. CASE CreateRelation(t) \/ GetRelation(t)
    BY <2>1, <2>2, RelationReadStep
  <2>3. CASE InsertRelation(t)
    BY <2>1, <2>3, InsertRelationStep
  <2>4. CASE RemoveRelation(t)
    BY <2>1, <2>4, RemoveRelationStep
  <2> QED  BY <1>2, <2>2, <2>3, <2>4 DEF ServeRelations, RelationStep
<1>3. CASE UNCHANGED replicationVars
  <2>1. UNCHANGED <<home, rel, spent, tabs, pages, latest, task, requests>>
    BY <1>3 DEF replicationVars, relVars
  <2>2. ReplicationTypeOK'
    BY <2>1 DEF ReplicationTypeOK
  <2>3. RelationsSound'
    BY <2>1 DEF RelationsSound, Consistent, Remembered
  <2>4. ReplayIsHarmless'
    BY <2>1 DEF ReplayIsHarmless, Db
  <2> QED  BY <2>2, <2>3, <2>4
<1> QED  BY <1>1, <1>2, <1>3 DEF ReplicationNext

\* The store a node is started with.
LEMMA ReplicationStart ==
  ReplicationInit => ReplicationTypeOK /\ RelationsSound /\ ReplayIsHarmless
<1> SUFFICES ASSUME ReplicationInit PROVE ReplicationTypeOK /\ RelationsSound /\ ReplayIsHarmless
  OBVIOUS
<1>1. /\ MaxRelations \in Nat /\ 2 <= MaxRelations /\ MaxRequests \in Nat /\ IsFiniteSet(RDocs)
  BY RelationAssumption
<1>2. /\ NoRelations \in Rels /\ Consistent(NoRelations, 0)
  <2>1. /\ NoRelations.recs = [i \in RelIds |-> NoRel] /\ NoRelations.from = {} /\ NoRelations.to = {}
        /\ NoRelations.pair = [p \in RDocs \X RDocs |-> NoRel]
    BY DEF NoRelations
  <2>2. NoRelations \in Rels
    BY DEF NoRelations, Rels
  <2>3. Consistent(NoRelations, 0)
    BY <2>1 DEF Consistent
  <2> QED  BY <2>2, <2>3
<1>3. /\ pages = {} /\ latest = NoEntry /\ task = [t \in RTasks |-> Idle] /\ requests = 0
      /\ Idle.step # "removeRelation" /\ Idle \in RelTasks
  BY DEF ReplicationInit, Idle, RelTasks
<1>4. /\ home \in [RDocs -> RTables \cup {NoHome}] /\ tabs \in [RTables -> Nat \cup {Absent}]
  <2>1. Cardinality(RDocs) \in Nat
    BY <1>1, FS_CardinalityType
  <2> QED  BY <2>1 DEF ReplicationInit
<1>5. rel \in Rels /\ Consistent(rel, spent) /\ spent \in 0..MaxRelations
  <2>1. CASE rel = NoRelations /\ spent = 0
    BY <1>1, <1>2, <2>1
  <2>2. ASSUME NEW x \in Relation, rel = Inserted(NoRelations, x, 1, 2), spent = 2
        PROVE  rel \in Rels /\ Consistent(rel, spent) /\ spent \in 0..MaxRelations
    <3>1. PICK r \in Rels, n \in Nat : r = NoRelations /\ n = 0
      BY <1>2
    <3>2. n + 1 = 1 /\ n + 2 = 2 /\ n + 2 <= MaxRelations
      BY <1>1, <3>1
    <3>3. Inserted(r, x, n + 1, n + 2) \in Rels /\ Consistent(Inserted(r, x, n + 1, n + 2), n + 2)
      BY <1>2, <3>1, <3>2, InsertedFacts
    <3> QED  BY <1>1, <2>2, <3>1, <3>2, <3>3
  <2> QED  BY <2>1, <2>2 DEF ReplicationInit
<1>6. ReplicationTypeOK
  BY <1>1, <1>3, <1>4, <1>5 DEF ReplicationTypeOK, Rels
<1>7. RelationsSound
  BY <1>3, <1>5 DEF RelationsSound, Remembered
<1> QED  BY <1>3, <1>6, <1>7 DEF ReplayIsHarmless
-----------------------------------------------------------------------------
\* The tables of the store and the requests keep their types, whichever entries come.
THEOREM ReplicationTypeCorrect == ReplicationSpec => []ReplicationTypeOK
<1> QED  BY ReplicationStart, ReplicationStep, PTL DEF ReplicationSpec

\* The relation tables agree with each other, whichever entries are applied between the
\* transactions of a request: a pair entry and a listing are never without the other listing.
THEOREM RelationListingsAgree == ReplicationSpec => []RelationReadsAgree
<1>1. ReplicationTypeOK /\ RelationsSound => RelationReadsAgree
  <2> SUFFICES ASSUME ReplicationTypeOK, RelationsSound PROVE RelationReadsAgree
    OBVIOUS
  <2>1. PICK r \in Rels, n \in Nat : r = rel /\ n = spent
    BY ReplicationFacts
  <2>2. Consistent(r, n)
    BY <2>1 DEF RelationsSound
  <2>3. \A a, b \in RDocs : /\ AreRelated(r, a, b) => b \in RelatedDocuments(r, a)
                            /\ b \in RelatedDocuments(r, a) => a \in RelatedDocuments(r, b)
    BY <2>2, ConsistentReads
  <2> QED  BY <2>1, <2>3 DEF RelationReadsAgree
<1> QED  BY <1>1, ReplicationStart, ReplicationStep, PTL DEF ReplicationSpec

\* A repeated append request changes nothing, from every state of the store that applying its
\* entry leads to.
THEOREM ReplaysAreHarmless == ReplicationSpec => []ReplayIsHarmless
<1> QED  BY ReplicationStart, ReplicationStep, PTL DEF ReplicationSpec
-----------------------------------------------------------------------------
(***************************************************************************)
(* Backups                                                                 *)
(***************************************************************************)

\* Backups alone: MCControl runs them next to other parts of the server.
BackupsSpec == BackupsInit /\ [][BackupsNext]_backupVars

SnapSteps == {"tables", "documents", "nodes", "file"}
InsertSteps == {"insertTables", "insertDocuments", "insertNodes"}

Listing == [list : SUBSET Infos, last : 0..MaxAdminOps]

\* What an administrator can be doing.
SnapJobs == [step : SnapSteps, id : Ids, type : Types, loaded : Listing, data : Content,
             at : 0..MaxSecond]
IndexJobs == [step : {"index"}, new : Listing]
RemoveJobs == [step : {"remove"}, id : Ids, data : Content, overwrite : BOOLEAN]
OpenJobs == [step : {"open"}, id : Ids, data : Content]
InsertJobs == [step : InsertSteps, data : Content]
Jobs == {NoJob} \cup SnapJobs \cup IndexJobs \cup RemoveJobs \cup OpenJobs \cup InsertJobs

Targets == [step : {"none", "begun", "done"}, id : 0..MaxAdminOps, by : SUBSET Admins,
            data : Content]

Snapshotting(a) == job[a].step \in SnapSteps
Inserting(a) == job[a].step \in InsertSteps

BackupsTyped ==
  /\ BackupsTypeOK /\ target \in Targets /\ live \in Content /\ dump \in Content
  /\ job \in [Admins -> Jobs]

\* The last full backup that a list of backups names is in it, if there is one.
NamesLastFull(x) ==
  /\ x.last = 0 <=> Fulls(x.list) = {}
  /\ x.last # 0 => \E i \in Fulls(x.list) : i.id = x.last

\* So it is for the index on disk and for every one in memory.
IndexesSound ==
  /\ index # Torn => NamesLastFull(index)
  /\ \A a \in Admins : /\ Snapshotting(a) => NamesLastFull(job[a].loaded)
                       /\ Works(a, "index") => NamesLastFull(job[a].new)

\* The documents of a content have tables; those with nodes exist.
Housed(c) == \A d \in BDocs : HasHome(c.tabs, c, d)
Linked(c) == \A d \in c.pages : c.home[d] # NoTab

\* Every file and the target are free of nodes without a document, and the
\* documents of the target have tables, however far a restore got.
TargetSound ==
  /\ \A p \in Paths : files[p] # NoContent => Linked(files[p])
  /\ \A a \in Admins :
       /\ Works(a, "file") \/ Works(a, "remove") \/ Works(a, "open") \/ Inserting(a) =>
            Linked(job[a].data)
       /\ Works(a, "insertNodes") /\ target.by = {a} =>
            \A d \in BDocs : job[a].data.home[d] # NoTab => target.data.home[d] # NoTab
  /\ Housed(target.data) /\ Linked(target.data)

\* Ids are given out in order, and a snapshot on its way has no file yet.
Numbered ==
  /\ \A i \in Ids : i > adminOps => taken[i] = NoContent
  /\ \A a \in Admins : Snapshotting(a) =>
       /\ job[a].id <= adminOps /\ taken[job[a].id] = NoContent
       /\ \A b \in Admins : Snapshotting(b) /\ job[b].id = job[a].id => b = a
  /\ target.step = "none" => target = NoTarget

\* Each listed backup has a file of its own with the snapshot that was taken.
Stored(list) ==
  \A i \in list : /\ files[i.path] = taken[i.id] /\ taken[i.id] \in Content
                  /\ \A k \in list : k.path = i.path => k = i

\* How far an undisturbed restore of the snapshot x has got.
Restored(step, x) ==
  CASE step = "insertTables" -> Empty
    [] step = "insertDocuments" -> [Empty EXCEPT !.tabs = x.tabs]
    [] step = "insertNodes" -> [Empty EXCEPT !.tabs = x.tabs, !.home = x.home]

\* What the only administrator at work relies on.
Quiet ==
  /\ \A a, b \in Admins : job[a] # NoJob /\ job[b] # NoJob => a = b
  /\ index # Torn
  /\ (\A a \in Admins : ~Works(a, "index")) => Stored(index.list)
  /\ target.step = "done" => target.data = taken[target.id] /\ target.id # 0 /\ target.data \in Content
  /\ \A a \in Admins :
       /\ Works(a, "index") => Stored(job[a].new.list)
       /\ Snapshotting(a) => job[a].loaded = index
       /\ Works(a, "remove") => /\ job[a].data = taken[job[a].id]
                                /\ target.step # "none" => job[a].overwrite
       /\ Works(a, "open") => job[a].data = taken[job[a].id] /\ target = NoTarget
       /\ Inserting(a) => /\ target.by = {a} /\ target.step = "begun" /\ target.id # 0
                          /\ job[a].data = taken[target.id]
                          /\ target.data = Restored(job[a].step, job[a].data)

Undisturbed == ~disturbed => Quiet
-----------------------------------------------------------------------------
\* Finitely many backups have a newest one.
LEMMA NewestExists ==
  ASSUME NEW S \in SUBSET Infos, IsFiniteSet(S), S # {}
  PROVE  \E i \in S : \A k \in S : ~Newer(k, i)
<1> DEFINE Above(i) == {k \in S : Newer(k, i)}
           T == {Above(i) : i \in S}
<1>1. \A i \in S : i.id \in Int /\ i.path[1] \in Int
  BY DEF Infos, Paths, Ids
<1>2. IsWellFoundedOn(StrictSubsetOrdering(S), SUBSET S)
  BY FS_StrictSubsetOrderingWellFounded, FS_FiniteSubsetsOfFinite
<1>3. T \subseteq SUBSET S /\ T # {}
  OBVIOUS
<1>4. PICK x \in T : \A y \in T : <<y, x>> \notin StrictSubsetOrdering(S)
  <2> HIDE DEF T
  <2> QED  BY <1>2, <1>3, WFMin
<1>5. PICK i \in S : x = Above(i)
  BY <1>4
<1>6. \A k \in S : ~Newer(k, i)
  <2> SUFFICES ASSUME NEW k \in S, Newer(k, i) PROVE FALSE
    OBVIOUS
  <2>1. Above(k) \subseteq Above(i)
    <3> SUFFICES ASSUME NEW j \in S, Newer(j, k) PROVE Newer(j, i)
      OBVIOUS
    <3> QED  BY <1>1 DEF Newer
  <2>2. k \in Above(i) /\ k \notin Above(k)
    BY <1>1 DEF Newer
  <2>3. <<Above(k), Above(i)>> \in StrictSubsetOrdering(S)
    BY <2>1, <2>2 DEF StrictSubsetOrdering
  <2> QED  BY <1>4, <1>5, <2>3
<1> QED  BY <1>6

\* There are finitely many possible entries.
LEMMA InfosFinite == IsFiniteSet(Infos)
<1>1. IsFiniteSet(Ids) /\ IsFiniteSet(0..MaxSecond)
  BY BackupsAssumption, FS_Interval DEF Ids
<1>2. IsFiniteSet(Types)
  <2>1. IsFiniteSet({"full"}) /\ IsFiniteSet({"incr"})
    BY FS_Singleton
  <2>2. Types = {"full"} \cup {"incr"}
    BY DEF Types
  <2> QED  BY <2>1, <2>2, FS_Union
<1>3. IsFiniteSet(Ids \X Paths)
  BY <1>1, <1>2, FS_Product DEF Paths
<1>4. [i \in Infos |-> <<i.id, i.path>>] \in Injection(Infos, Ids \X Paths)
  BY DEF Infos, Injection, IsInjective
<1> QED  BY <1>3, <1>4, FS_Injection

\* A list that names its newest full backup names a full backup of its own.
LEMMA LatestIsFull ==
  ASSUME NEW list \in SUBSET Infos
  PROVE  /\ LatestFull(list) \in 0..MaxAdminOps
         /\ NamesLastFull([list |-> list, last |-> LatestFull(list)])
<1>1. Fulls(list) \in SUBSET list /\ IsFiniteSet(Fulls(list))
  <2>1. Fulls(list) \in SUBSET list
    BY DEF Fulls
  <2> QED  BY <2>1, InfosFinite, FS_Subset
<1>2. \A i \in Infos : i.id \in 1..MaxAdminOps
  BY DEF Infos, Ids
<1>3. MaxAdminOps \in Nat
  BY BackupsAssumption
<1>4. CASE Fulls(list) = {}
  BY <1>3, <1>4 DEF LatestFull, NamesLastFull
<1>5. CASE Fulls(list) # {}
  <2> DEFINE m == CHOOSE i \in Fulls(list) : \A k \in Fulls(list) : ~Newer(k, i)
  <2>1. \E i \in Fulls(list) : \A k \in Fulls(list) : ~Newer(k, i)
    BY <1>1, <1>5, NewestExists
  <2>2. m \in Fulls(list)
    BY <2>1
  <2>3. LatestFull(list) = m.id
    BY <1>5 DEF LatestFull
  <2> HIDE DEF m
  <2>4. m.id \in 1..MaxAdminOps
    BY <1>1, <1>2, <2>2
  <2> QED  BY <1>3, <1>5, <2>2, <2>3, <2>4 DEF NamesLastFull
<1> QED  BY <1>4, <1>5
-----------------------------------------------------------------------------
\* Contents and listings are what their fields say; damaged files are neither.
LEMMA ContentFacts ==
  /\ NoContent \notin Content /\ Empty \in Content
  /\ \A c \in Content : /\ c.tabs \in SUBSET BTabs /\ c.pages \in SUBSET BDocs
                        /\ c.home \in [BDocs -> BTabs \cup {NoTab}]
  /\ Torn \notin Listing /\ Listing \subseteq Indexes
  /\ \A x \in Indexes : x # Torn => x \in Listing
  /\ \A x \in Listing : x.list \in SUBSET Infos /\ x.last \in 0..MaxAdminOps
<1>1. Torn \notin Listing
  <2>1. Torn.last = -1 /\ \A x \in Listing : x.last >= 0
    BY DEF Torn, Listing
  <2> QED  BY <2>1
<1>2. NoContent \notin Content /\ Empty \in Content
  <2>1. NoContent.tabs = {NoTab} /\ \A c \in Content : c.tabs \subseteq BTabs
    BY DEF NoContent, Empty, Content
  <2>2. Empty \in Content
    BY DEF Empty, Content
  <2> QED  BY <2>1, <2>2, BackupsAssumption
<1> QED  BY <1>1, <1>2 DEF Content, Listing, Indexes

\* Each kind of work has the fields of its kind.
LEMMA JobFacts ==
  ASSUME NEW j \in Jobs
  PROVE  /\ j.step \in SnapSteps => j \in SnapJobs
         /\ j.step = "index" => j \in IndexJobs
         /\ j.step = "remove" => j \in RemoveJobs
         /\ j.step = "open" => j \in OpenJobs
         /\ j.step \in InsertSteps => j \in InsertJobs
         /\ j.step = "none" <=> j = NoJob
BY DEF Jobs, NoJob, SnapJobs, IndexJobs, RemoveJobs, OpenJobs, InsertJobs, SnapSteps, InsertSteps

\* The counters and contents of a typed state.
LEMMA TypedFacts ==
  ASSUME BackupsTyped
  PROVE  /\ live \in Content /\ dump \in Content /\ target \in Targets /\ index \in Indexes
         /\ target.data \in Content
         /\ files \in [Paths -> Content \cup {NoContent}]
         /\ taken \in [Ids -> Content \cup {NoContent}]
         /\ second \in 0..MaxSecond /\ adminOps \in 0..MaxAdminOps /\ writes \in 0..MaxWrites
         /\ adminOps \in Nat /\ second \in Nat /\ writes \in Nat
         /\ disturbed \in BOOLEAN /\ job \in [Admins -> Jobs]
         /\ MaxAdminOps \in Nat /\ MaxWrites \in Nat /\ MaxSecond \in Nat
BY BackupsAssumption DEF BackupsTyped, BackupsTypeOK, Targets

\* An operation that begins keeps the types.
LEMMA AskTyped ==
  ASSUME BackupsTyped, NEW a \in Admins, NEW j \in Jobs, Ask(a, j)
  PROVE  /\ job' \in [Admins -> Jobs] /\ adminOps' \in 0..MaxAdminOps
         /\ disturbed' \in BOOLEAN /\ UNCHANGED <<live, second, writes, taken>>
<1>1. adminOps' \in 0..MaxAdminOps
  BY TypedFacts DEF Ask
<1>2. job' \in [Admins -> Jobs]
  BY TypedFacts DEF Ask, Carry
<1>3. disturbed' \in BOOLEAN /\ UNCHANGED <<live, second, writes, taken>>
  BY DEF Ask
<1> QED  BY <1>1, <1>2, <1>3

\* So does one that goes on.
LEMMA GoTyped ==
  ASSUME BackupsTyped, NEW a \in Admins, NEW j \in Jobs, Go(a, j)
  PROVE  job' \in [Admins -> Jobs] /\ UNCHANGED <<live, second, adminOps, writes>>
BY TypedFacts DEF Go, Carry

\* What has changed is typed, and so is everything.
LEMMA TypedAgain ==
  ASSUME BackupsTyped,
         live' \in Content, dump' \in Content, target' \in Targets, index' \in Indexes,
         files' \in [Paths -> Content \cup {NoContent}],
         taken' \in [Ids -> Content \cup {NoContent}],
         second' \in 0..MaxSecond, adminOps' \in 0..MaxAdminOps, writes' \in 0..MaxWrites,
         disturbed' \in BOOLEAN, job' \in [Admins -> Jobs]
  PROVE  BackupsTyped'
<1>1. /\ target'.data \in Content /\ target'.step \in {"none", "begun", "done"}
      /\ target'.id \in 0..MaxAdminOps /\ target'.by \subseteq Admins
  BY DEF Targets
<1> QED  BY <1>1 DEF BackupsTyped, BackupsTypeOK

\* Deleting files leaves files.
LEMMA UnlinkTyped ==
  ASSUME files \in [Paths -> Content \cup {NoContent}], NEW gone
  PROVE  Unlink(gone) \in [Paths -> Content \cup {NoContent}]
BY DEF Unlink

\* Contents are put together from contents.
LEMMA OverTyped ==
  ASSUME NEW c \in Content, NEW d \in Content, NEW ds \in SUBSET BDocs
  PROVE  Over(c.home, d.home, ds) \in [BDocs -> BTabs \cup {NoTab}]
BY DEF Over, Content

\* Each action keeps the types.
LEMMA BackupsTypedStep == BackupsTyped /\ [BackupsNext]_backupVars => BackupsTyped'
<1> SUFFICES ASSUME BackupsTyped, [BackupsNext]_backupVars PROVE BackupsTyped'
  OBVIOUS
<1>t. /\ live \in Content /\ dump \in Content /\ target \in Targets /\ index \in Indexes
      /\ files \in [Paths -> Content \cup {NoContent}]
      /\ taken \in [Ids -> Content \cup {NoContent}]
      /\ second \in 0..MaxSecond /\ adminOps \in 0..MaxAdminOps /\ writes \in 0..MaxWrites
      /\ adminOps \in Nat /\ second \in Nat /\ writes \in Nat
      /\ disturbed \in BOOLEAN /\ job \in [Admins -> Jobs]
      /\ MaxAdminOps \in Nat /\ MaxWrites \in Nat /\ MaxSecond \in Nat
      /\ NoJob \in Jobs
  BY TypedFacts DEF Jobs
<1>1. ASSUME NEW a \in Admins, BeginBackup(a) PROVE BackupsTyped'
  <2>1. PICK type \in Types :
          /\ index # Torn
          /\ Ask(a, [step |-> "tables", id |-> adminOps + 1, type |-> type, loaded |-> index,
                     data |-> Empty, at |-> 0])
    BY <1>1 DEF BeginBackup
  <2>2. adminOps + 1 \in Ids
    BY <1>t, <2>1 DEF Ask, Ids
  <2>3. index \in Listing /\ Empty \in Content
    BY <1>t, <2>1, ContentFacts
  <2>4. PICK j : j = [step |-> "tables", id |-> adminOps + 1, type |-> type, loaded |-> index,
                      data |-> Empty, at |-> 0]
    OBVIOUS
  <2>5. j \in SnapJobs
    BY <1>t, <2>2, <2>3, <2>4 DEF SnapJobs, SnapSteps
  <2>6. j \in Jobs
    BY <2>5 DEF Jobs
  <2>7. Ask(a, j) /\ UNCHANGED <<target, index, files, dump>>
    BY <1>1, <2>1, <2>4 DEF BeginBackup
  <2> QED  BY <1>t, <2>6, <2>7, AskTyped, TypedAgain
<1>2. ASSUME NEW a \in Admins, SnapshotTables(a) \/ SnapshotDocuments(a) \/ SnapshotNodes(a)
      PROVE  BackupsTyped'
  <2>1. job[a] \in SnapJobs
    BY <1>t, <1>2, JobFacts DEF SnapshotTables, SnapshotDocuments, SnapshotNodes, Works, SnapSteps
  <2>2. job[a].data \in Content
    BY <2>1 DEF SnapJobs
  <2>3. /\ [job[a] EXCEPT !.step = "documents", !.data.tabs = live.tabs] \in SnapJobs
        /\ [job[a] EXCEPT !.step = "nodes", !.data.home = live.home] \in SnapJobs
        /\ [job[a] EXCEPT !.step = "file", !.at = second,
              !.data.pages = {d \in live.pages : job[a].data.home[d] # NoTab}] \in SnapJobs
    BY <1>t, <2>1, <2>2 DEF SnapJobs, SnapSteps, Content
  <2>4. PICK j \in Jobs : Go(a, j)
    BY <1>2, <2>3 DEF SnapshotTables, SnapshotDocuments, SnapshotNodes, Jobs
  <2>5. UNCHANGED <<target, index, files, dump, taken, disturbed>>
    BY <1>2 DEF SnapshotTables, SnapshotDocuments, SnapshotNodes
  <2> QED  BY <1>t, <2>4, <2>5, GoTyped, TypedAgain
<1>3. ASSUME NEW a \in Admins, SaveFile(a) PROVE BackupsTyped'
  <2>1. job[a] \in SnapJobs
    BY <1>t, <1>3, JobFacts DEF SaveFile, Works, SnapSteps
  <2>2. /\ job[a].data \in Content /\ job[a].id \in Ids /\ job[a].loaded \in Listing
        /\ <<job[a].at, job[a].type>> \in Paths
    BY <2>1 DEF SnapJobs, Paths
  <2>3. PICK path \in Paths : path = <<job[a].at, job[a].type>>
    BY <2>2
  <2>4. PICK new : new = [list |-> job[a].loaded.list \cup {[id |-> job[a].id, path |-> path]},
                          last |-> IF job[a].type = "full" THEN job[a].id ELSE job[a].loaded.last]
    OBVIOUS
  <2>5. new \in Listing
    BY <1>t, <2>2, <2>4 DEF Listing, Infos, Ids
  <2>6. [step |-> "index", new |-> new] \in Jobs
    BY <2>5 DEF Jobs, IndexJobs
  <2>7. /\ Go(a, [step |-> "index", new |-> new]) /\ UNCHANGED <<target, index, dump>>
        /\ files' = [files EXCEPT ![path] = job[a].data]
        /\ taken' = [taken EXCEPT ![job[a].id] = job[a].data]
        /\ disturbed' = (disturbed \/ files[path] # NoContent)
    BY <1>3, <2>3, <2>4 DEF SaveFile
  <2>8. /\ files' \in [Paths -> Content \cup {NoContent}]
        /\ taken' \in [Ids -> Content \cup {NoContent}]
    BY <1>t, <2>2, <2>7
  <2>9. disturbed' \in BOOLEAN
    BY <2>7
  <2> QED  BY <1>t, <2>6, <2>7, <2>8, <2>9, GoTyped, TypedAgain
<1>4. ASSUME NEW a \in Admins, SaveIndex(a) PROVE BackupsTyped'
  <2>1. job[a] \in IndexJobs
    BY <1>t, <1>4, JobFacts DEF SaveIndex, Works
  <2>2. job[a].new \in Indexes
    BY <2>1, ContentFacts DEF IndexJobs
  <2>3. /\ index' = job[a].new /\ Go(a, NoJob)
        /\ UNCHANGED <<target, files, dump, taken, disturbed>>
    BY <1>4 DEF SaveIndex
  <2> QED  BY <1>t, <2>2, <2>3, GoTyped, TypedAgain
<1>5. ASSUME NEW a \in Admins, DeleteBackup(a) PROVE BackupsTyped'
  <2>1. PICK i \in index.list : /\ index # Torn /\ files' = Unlink({i})
                                /\ Ask(a, [step |-> "index", new |-> Without({i})])
                                /\ UNCHANGED <<target, index, dump>>
    BY <1>5 DEF DeleteBackup
  <2>2. index \in Listing
    BY <1>t, <2>1, ContentFacts
  <2>3. Without({i}) \in Listing
    <3>1. index.list \ {i} \in SUBSET Infos /\ index.last \in 0..MaxAdminOps
      BY <2>2, ContentFacts
    <3>2. LatestFull(index.list \ {i}) \in 0..MaxAdminOps
      BY <3>1, LatestIsFull
    <3> QED  BY <3>1, <3>2 DEF Without, Listing
  <2>4. [step |-> "index", new |-> Without({i})] \in Jobs
    BY <2>3 DEF Jobs, IndexJobs
  <2>5. files' \in [Paths -> Content \cup {NoContent}]
    BY <1>t, <2>1, UnlinkTyped
  <2> QED  BY <1>t, <2>1, <2>4, <2>5, AskTyped, TypedAgain
<1>6. ASSUME NEW a \in Admins, Prune(a) PROVE BackupsTyped'
  <2>1. PICK n \in {0, 1} :
          LET rest == Kept(index.list, "full", 1) \cup Kept(index.list, "incr", n)
          IN  /\ index # Torn /\ files' = Unlink(index.list \ rest)
              /\ Ask(a, [step |-> "index", new |-> [list |-> rest, last |-> LatestFull(rest)]])
              /\ UNCHANGED <<target, index, dump>>
    BY <1>6 DEF Prune
  <2>2. PICK rest : rest = Kept(index.list, "full", 1) \cup Kept(index.list, "incr", n)
    OBVIOUS
  <2>3. rest \in SUBSET Infos
    BY <1>t, <2>1, <2>2, ContentFacts DEF Kept
  <2>4. [step |-> "index", new |-> [list |-> rest, last |-> LatestFull(rest)]] \in Jobs
    BY <2>3, LatestIsFull DEF Jobs, IndexJobs, Listing
  <2>5. /\ files' = Unlink(index.list \ rest) /\ UNCHANGED <<target, index, dump>>
        /\ Ask(a, [step |-> "index", new |-> [list |-> rest, last |-> LatestFull(rest)]])
    BY <2>1, <2>2
  <2>6. files' \in [Paths -> Content \cup {NoContent}]
    BY <1>t, <2>5, UnlinkTyped
  <2> QED  BY <1>t, <2>4, <2>5, <2>6, AskTyped, TypedAgain
<1>7. ASSUME NEW a \in Admins, RestoreLoad(a) PROVE BackupsTyped'
  <2>1. PICK i \in index.list, overwrite \in BOOLEAN :
          /\ index # Torn /\ files[i.path] # NoContent
          /\ Ask(a, [step |-> "remove", id |-> i.id, data |-> files[i.path],
                     overwrite |-> overwrite])
          /\ UNCHANGED <<target, index, files, dump>>
    BY <1>7 DEF RestoreLoad
  <2>2. i.id \in Ids /\ i.path \in Paths
    BY <1>t, <2>1, ContentFacts DEF Infos
  <2>3. files[i.path] \in Content
    BY <1>t, <2>1, <2>2
  <2>4. [step |-> "remove", id |-> i.id, data |-> files[i.path], overwrite |-> overwrite] \in Jobs
    BY <2>2, <2>3 DEF Jobs, RemoveJobs
  <2> QED  BY <1>t, <2>1, <2>4, AskTyped, TypedAgain
<1>8. ASSUME NEW a \in Admins, RestoreRemove(a) PROVE BackupsTyped'
  <2>1. job[a] \in RemoveJobs
    BY <1>t, <1>8, JobFacts DEF RestoreRemove, Works
  <2>2. [step |-> "open", id |-> job[a].id, data |-> job[a].data] \in Jobs
    BY <2>1 DEF Jobs, RemoveJobs, OpenJobs
  <2>3. NoTarget \in Targets
    BY <1>t, ContentFacts DEF NoTarget, Targets
  <2>4. /\ target' \in Targets /\ Go(a, [step |-> "open", id |-> job[a].id, data |-> job[a].data])
        /\ UNCHANGED <<index, files, dump, taken, disturbed>>
    BY <1>t, <1>8, <2>3 DEF RestoreRemove
  <2> QED  BY <1>t, <2>2, <2>4, GoTyped, TypedAgain
<1>9. ASSUME NEW a \in Admins, RestoreOpen(a) PROVE BackupsTyped'
  <2>1. job[a] \in OpenJobs
    BY <1>t, <1>9, JobFacts DEF RestoreOpen, Works
  <2>2. [step |-> "insertTables", data |-> job[a].data] \in Jobs
    BY <2>1 DEF Jobs, OpenJobs, InsertJobs, InsertSteps
  <2>3. [step |-> "begun", id |-> job[a].id, by |-> {a}, data |-> target.data] \in Targets
    BY <1>t, <2>1 DEF Targets, OpenJobs, Ids
  <2>4. target' \in Targets /\ \E j \in Jobs : Go(a, j)
    BY <1>t, <1>9, <2>2, <2>3 DEF RestoreOpen
  <2>5. UNCHANGED <<index, files, dump, taken, disturbed>>
    BY <1>9 DEF RestoreOpen
  <2> QED  BY <1>t, <2>4, <2>5, GoTyped, TypedAgain
<1>10. ASSUME NEW a \in Admins, Restore(a) PROVE BackupsTyped'
  <2>1. job[a] \in InsertJobs
    BY <1>t, <1>10, JobFacts DEF Restore, Works, InsertSteps
  <2>2. /\ [job[a] EXCEPT !.step = "insertDocuments"] \in Jobs
        /\ [job[a] EXCEPT !.step = "insertNodes"] \in Jobs
    BY <2>1 DEF Jobs, InsertJobs, InsertSteps
  <2>3. job[a].data \in Content /\ target.data \in Content
    BY <1>t, <2>1 DEF InsertJobs, Targets
  <2>4. ASSUME NEW ts \in SUBSET BTabs, NEW by \in SUBSET Admins
        PROVE  [target EXCEPT !.by = by, !.data.tabs = @ \cup ts] \in Targets
    BY <1>t, <2>3 DEF Targets, Content
  <2>5. ASSUME NEW ds \in SUBSET BDocs, NEW by \in SUBSET Admins
        PROVE  [target EXCEPT !.by = by, !.data.home = Over(job[a].data.home, @, ds)] \in Targets
    <3>1. Over(job[a].data.home, target.data.home, ds) \in [BDocs -> BTabs \cup {NoTab}]
      BY <2>3, OverTyped
    <3> QED  BY <1>t, <2>3, <3>1 DEF Targets, Content
  <2>6. [target EXCEPT !.step = "done", !.by = {}, !.data.pages = @ \cup job[a].data.pages] \in Targets
    BY <1>t, <2>3 DEF Targets, Content
  <2>7. /\ [target EXCEPT !.data.tabs = @ \cup job[a].data.tabs] \in Targets
        /\ [target EXCEPT !.data.home = Over(job[a].data.home, @, BDocs)] \in Targets
    <3>1. Over(job[a].data.home, target.data.home, BDocs) \in [BDocs -> BTabs \cup {NoTab}]
      BY <2>3, OverTyped
    <3> QED  BY <1>t, <2>3, <3>1 DEF Targets, Content
  <2>8. job[a].data.tabs \in SUBSET BTabs /\ Restorable(target.data.tabs, job[a].data) \in SUBSET BDocs
    BY <2>3, ContentFacts DEF Restorable
  <2>9. target' \in Targets /\ \E j \in Jobs : Go(a, j)
    <3>1. CASE Works(a, "insertTables")
      <4>1. \/ target' = [target EXCEPT !.data.tabs = @ \cup job[a].data.tabs]
            \/ \E ts \in SUBSET BTabs : target' = [target EXCEPT !.by = {}, !.data.tabs = @ \cup ts]
        BY <1>10, <2>8, <3>1 DEF Restore, Works
      <4>2. target' \in Targets
        <5>1. \A ts \in SUBSET BTabs : [target EXCEPT !.by = {}, !.data.tabs = @ \cup ts] \in Targets
          BY <2>4
        <5> QED  BY <2>7, <4>1, <5>1
      <4> QED  BY <1>10, <1>t, <2>2, <3>1, <4>2 DEF Restore, Works
    <3>2. CASE Works(a, "insertDocuments")
      <4>1. \/ target' = [target EXCEPT !.data.home = Over(job[a].data.home, @, BDocs)]
            \/ \E ds \in SUBSET BDocs :
                 target' = [target EXCEPT !.by = {}, !.data.home = Over(job[a].data.home, @, ds)]
        BY <1>10, <2>8, <3>2 DEF Restore, Works
      <4>2. target' \in Targets
        <5>1. \A ds \in SUBSET BDocs :
                [target EXCEPT !.by = {}, !.data.home = Over(job[a].data.home, @, ds)] \in Targets
          BY <2>5
        <5> QED  BY <2>7, <4>1, <5>1
      <4> QED  BY <1>10, <1>t, <2>2, <3>2, <4>2 DEF Restore, Works
    <3>3. CASE Works(a, "insertNodes")
      BY <1>10, <1>t, <2>6, <3>3 DEF Restore, Works
    <3> QED  BY <1>10, <3>1, <3>2, <3>3 DEF Restore
  <2>10. UNCHANGED <<index, files, dump, taken, disturbed>>
    BY <1>10 DEF Restore
  <2> QED  BY <1>t, <2>9, <2>10, GoTyped, TypedAgain
<1>11. ASSUME NEW a \in Admins, RestoreUnlinked(a) PROVE BackupsTyped'
  <2>1. Go(a, NoJob) /\ UNCHANGED <<target, index, files, dump, taken, disturbed>>
    BY <1>11 DEF RestoreUnlinked
  <2> QED  BY <1>t, <2>1, GoTyped, TypedAgain
<1>12. ASSUME NEW a \in Admins, Export(a) PROVE BackupsTyped'
  <2>1. Ask(a, NoJob) /\ UNCHANGED <<target, index, files>>
    BY <1>12 DEF Export
  <2>2. dump' \in Content
    BY <1>12, <1>t DEF Export, Content
  <2> QED  BY <1>t, <2>1, <2>2, AskTyped, TypedAgain
<1>13. ASSUME NEW a \in Admins, Import(a) PROVE BackupsTyped'
  <2>1. live' \in Content /\ adminOps' \in 0..MaxAdminOps
    BY <1>13, <1>t DEF Import, Content
  <2>2. UNCHANGED <<target, index, files, dump, job, second, writes, taken, disturbed>>
    BY <1>13 DEF Import
  <2> QED  BY <1>t, <2>1, <2>2, TypedAgain
<1>14. CASE Write
  <2>1. writes' \in 0..MaxWrites
    <3>1. writes < MaxWrites /\ writes' = writes + 1
      BY <1>14 DEF Write
    <3> QED  BY <1>t, <3>1
  <2>2. live' \in Content
    <3>1. ASSUME NEW t \in BTabs, live' = [live EXCEPT !.tabs = @ \cup {t}] PROVE live' \in Content
      BY <1>t, <3>1 DEF Content
    <3>2. ASSUME NEW gone \in SUBSET BDocs, NEW t,
                 live' = [tabs |-> live.tabs \ {t}, pages |-> live.pages \ gone,
                          home |-> [d \in BDocs |-> IF d \in gone THEN NoTab ELSE live.home[d]]]
          PROVE  live' \in Content
      BY <1>t, <3>2 DEF Content
    <3>3. ASSUME NEW d \in BDocs, NEW t \in live.tabs, live' = [live EXCEPT !.home[d] = t]
          PROVE  live' \in Content
      BY <1>t, <3>3 DEF Content
    <3>4. ASSUME NEW d \in BDocs, live' = [live EXCEPT !.pages = @ \cup {d}] PROVE live' \in Content
      BY <1>t, <3>4 DEF Content
    <3>5. ASSUME NEW d \in BDocs, live' = [live EXCEPT !.home[d] = NoTab, !.pages = @ \ {d}]
          PROVE  live' \in Content
      BY <1>t, <3>5 DEF Content
    <3> QED  BY <1>14, <3>1, <3>2, <3>3, <3>4, <3>5 DEF Write
  <2>3. UNCHANGED <<target, index, files, dump, job, second, adminOps, taken, disturbed>>
    BY <1>14 DEF Write
  <2> QED  BY <1>t, <2>1, <2>2, <2>3, TypedAgain
<1>15. CASE Tick
  <2>1. second' \in 0..MaxSecond
        /\ UNCHANGED <<live, target, index, files, dump, job, adminOps, writes, taken, disturbed>>
    BY <1>15, <1>t DEF Tick
  <2> QED  BY <1>t, <2>1, TypedAgain
<1>16. CASE BackupsCrash
  <2>1. /\ writes' \in 0..MaxWrites /\ job' \in [Admins -> Jobs] /\ disturbed' \in BOOLEAN
        /\ UNCHANGED <<live, files, dump, second, adminOps, taken>>
    BY <1>16, <1>t DEF BackupsCrash
  <2>2. index' \in Indexes
    BY <1>16, <1>t DEF BackupsCrash, Indexes
  <2>3. target' \in Targets
    BY <1>16, <1>t DEF BackupsCrash, Targets
  <2> QED  BY <1>t, <2>1, <2>2, <2>3, TypedAgain
<1>17. CASE UNCHANGED backupVars
  BY <1>17, <1>t, TypedAgain DEF backupVars
<1> QED
  BY <1>1, <1>2, <1>3, <1>4, <1>5, <1>6, <1>7, <1>8, <1>9, <1>10, <1>11, <1>12, <1>13, <1>14,
     <1>15, <1>16, <1>17 DEF BackupsNext

\* Initially everything has its type.
LEMMA BackupsTypedInit == BackupsInit => BackupsTyped
<1> SUFFICES ASSUME BackupsInit PROVE BackupsTyped
  OBVIOUS
<1>1. live \in Content
  BY DEF BackupsInit, Content
<1>2. dump \in Content /\ NoTarget \in Targets /\ target = NoTarget
  BY ContentFacts, BackupsAssumption DEF BackupsInit, NoTarget, Targets
<1>3. target.data \in Content /\ target.step = "none" /\ target.id = 0 /\ target.by = {}
  BY <1>2, ContentFacts DEF NoTarget
<1>4. index \in Indexes
  BY BackupsAssumption DEF BackupsInit, Indexes
<1>5. /\ job \in [Admins -> Jobs] /\ files \in [Paths -> Content \cup {NoContent}]
      /\ taken \in [Ids -> Content \cup {NoContent}] /\ disturbed \in BOOLEAN
      /\ second = 0 /\ adminOps = 0 /\ writes = 0
  BY DEF BackupsInit, Jobs
<1> QED  BY <1>1, <1>2, <1>3, <1>4, <1>5, BackupsAssumption DEF BackupsTyped, BackupsTypeOK

\* The types hold throughout.
LEMMA BackupsTypedAlways == BackupsSpec => []BackupsTyped
BY BackupsTypedInit, BackupsTypedStep, PTL DEF BackupsSpec
-----------------------------------------------------------------------------
\* One administrator's work changes to work whose index is sound.
LEMMA IndexesKept ==
  ASSUME BackupsTyped, IndexesSound, NEW a \in Admins, NEW j,
         job' = [job EXCEPT ![a] = j],
         j.step \in SnapSteps => NamesLastFull(j.loaded),
         j.step = "index" => NamesLastFull(j.new),
         index' # Torn => NamesLastFull(index')
  PROVE  IndexesSound'
<1>1. job'[a] = j /\ \A b \in Admins \ {a} : job'[b] = job[b]
  BY TypedFacts
<1>2. \A b \in Admins : /\ job'[b].step \in SnapSteps => NamesLastFull(job'[b].loaded)
                        /\ job'[b].step = "index" => NamesLastFull(job'[b].new)
  BY <1>1 DEF IndexesSound, Snapshotting, Works
<1> QED  BY <1>2 DEF IndexesSound, Snapshotting, Works, NamesLastFull, Fulls

\* Without a backup that is deleted the index still names a full backup of its list.
LEMMA WithoutSound ==
  ASSUME index \in Listing, NamesLastFull(index), NEW i \in index.list
  PROVE  NamesLastFull(Without({i}))
<1>1. index.list \in SUBSET Infos /\ index.list \ {i} \in SUBSET Infos
  BY ContentFacts
<1>2. \A k \in Infos : k.id # 0
  BY DEF Infos, Ids
<1>3. CASE i.id = index.last
  <2>1. Without({i}) = [list |-> index.list \ {i}, last |-> LatestFull(index.list \ {i})]
    BY <1>3 DEF Without
  <2> QED  BY <1>1, <2>1, LatestIsFull
<1>4. CASE i.id # index.last
  <2>1. Without({i}) = [list |-> index.list \ {i}, last |-> index.last]
    BY <1>4 DEF Without
  <2>2. /\ index.last = 0 => Fulls(index.list \ {i}) = {}
        /\ index.last # 0 => \E k \in Fulls(index.list \ {i}) : k.id = index.last
    BY <1>4 DEF NamesLastFull, Fulls
  <2>3. Without({i}).list = index.list \ {i} /\ Without({i}).last = index.last
    BY <2>1
  <2> QED  BY <2>2, <2>3 DEF NamesLastFull
<1> QED  BY <1>3, <1>4

\* Every action keeps the indexes sound, on disk and in memory.
LEMMA IndexesSoundStep == BackupsTyped /\ IndexesSound /\ [BackupsNext]_backupVars => IndexesSound'
<1> SUFFICES ASSUME BackupsTyped, IndexesSound, [BackupsNext]_backupVars PROVE IndexesSound'
  OBVIOUS
<1>t. job \in [Admins -> Jobs] /\ index \in Indexes
  BY TypedFacts
<1>i. index # Torn => NamesLastFull(index) /\ index \in Listing
  BY <1>t, ContentFacts DEF IndexesSound
<1>1. ASSUME NEW a \in Admins, BeginBackup(a) PROVE IndexesSound'
  <2>1. PICK type \in Types :
          /\ index # Torn
          /\ Ask(a, [step |-> "tables", id |-> adminOps + 1, type |-> type, loaded |-> index,
                     data |-> Empty, at |-> 0])
    BY <1>1 DEF BeginBackup
  <2>2. UNCHANGED index
    BY <1>1 DEF BeginBackup
  <2>3. PICK j : j = [step |-> "tables", id |-> adminOps + 1, type |-> type, loaded |-> index,
                      data |-> Empty, at |-> 0]
    OBVIOUS
  <2>4. job' = [job EXCEPT ![a] = j] /\ j.step = "tables" /\ j.loaded = index
    BY <2>1, <2>3 DEF Ask, Carry
  <2> QED  BY <1>i, <2>1, <2>2, <2>4, IndexesKept
<1>2. ASSUME NEW a \in Admins, SnapshotTables(a) \/ SnapshotDocuments(a) \/ SnapshotNodes(a)
      PROVE  IndexesSound'
  <2>1. job[a] \in SnapJobs /\ NamesLastFull(job[a].loaded) /\ UNCHANGED index
    BY <1>t, <1>2, JobFacts
       DEF SnapshotTables, SnapshotDocuments, SnapshotNodes, Works, SnapSteps, IndexesSound, Snapshotting
  <2>2. \E j : /\ job' = [job EXCEPT ![a] = j] /\ j.loaded = job[a].loaded
               /\ j.step \in {"documents", "nodes", "file"}
    <3>1. /\ [job[a] EXCEPT !.step = "documents", !.data.tabs = live.tabs].loaded = job[a].loaded
          /\ [job[a] EXCEPT !.step = "documents", !.data.tabs = live.tabs].step = "documents"
          /\ [job[a] EXCEPT !.step = "nodes", !.data.home = live.home].loaded = job[a].loaded
          /\ [job[a] EXCEPT !.step = "nodes", !.data.home = live.home].step = "nodes"
          /\ [job[a] EXCEPT !.step = "file", !.at = second,
               !.data.pages = {d \in live.pages : job[a].data.home[d] # NoTab}].loaded = job[a].loaded
          /\ [job[a] EXCEPT !.step = "file", !.at = second,
               !.data.pages = {d \in live.pages : job[a].data.home[d] # NoTab}].step = "file"
      BY <2>1 DEF SnapJobs
    <3>2. CASE SnapshotTables(a)
      BY <3>1, <3>2 DEF SnapshotTables, Go, Carry
    <3>3. CASE SnapshotDocuments(a)
      BY <3>1, <3>3 DEF SnapshotDocuments, Go, Carry
    <3>4. CASE SnapshotNodes(a)
      BY <3>1, <3>4 DEF SnapshotNodes, Go, Carry
    <3> QED  BY <1>2, <3>2, <3>3, <3>4
  <2>3. PICK j : /\ job' = [job EXCEPT ![a] = j] /\ j.loaded = job[a].loaded
                 /\ j.step \in {"documents", "nodes", "file"}
    BY <2>2
  <2>4. j.step # "index"
    BY <2>3
  <2> QED  BY <1>i, <2>1, <2>3, <2>4, IndexesKept
<1>3. ASSUME NEW a \in Admins, SaveFile(a) PROVE IndexesSound'
  <2>1. job[a] \in SnapJobs /\ NamesLastFull(job[a].loaded) /\ UNCHANGED index
    BY <1>t, <1>3, JobFacts DEF SaveFile, Works, SnapSteps, IndexesSound, Snapshotting
  <2>2. job[a].id # 0 /\ job[a].type \in Types
    BY <2>1 DEF SnapJobs, Ids
  <2>3. PICK path : path = <<job[a].at, job[a].type>>
    OBVIOUS
  <2>4. PICK i : i = [id |-> job[a].id, path |-> path]
    OBVIOUS
  <2>5. PICK new : new = [list |-> job[a].loaded.list \cup {i},
                          last |-> IF job[a].type = "full" THEN job[a].id ELSE job[a].loaded.last]
    OBVIOUS
  <2>6. job' = [job EXCEPT ![a] = [step |-> "index", new |-> new]]
    BY <1>3, <2>3, <2>4, <2>5 DEF SaveFile, Go, Carry
  <2>7. NamesLastFull(new)
    <3>1. i.path[2] = job[a].type /\ i.id = job[a].id
      BY <2>3, <2>4
    <3>2. CASE job[a].type = "full"
      <4>1. i \in Fulls(new.list) /\ new.last = i.id
        BY <2>5, <3>1, <3>2 DEF Fulls
      <4> QED  BY <2>2, <3>1, <4>1 DEF NamesLastFull
    <3>3. CASE job[a].type # "full"
      <4>1. Fulls(new.list) = Fulls(job[a].loaded.list) /\ new.last = job[a].loaded.last
        BY <2>5, <3>1, <3>3 DEF Fulls
      <4> QED  BY <2>1, <4>1 DEF NamesLastFull
    <3> QED  BY <3>2, <3>3
  <2>8. PICK j : j = [step |-> "index", new |-> new]
    OBVIOUS
  <2>9. j.step = "index" /\ j.step \notin SnapSteps /\ j.new = new
    BY <2>8 DEF SnapSteps
  <2> QED  BY <1>i, <2>1, <2>6, <2>7, <2>8, <2>9, IndexesKept
<1>4. ASSUME NEW a \in Admins, SaveIndex(a) PROVE IndexesSound'
  <2>1. NamesLastFull(job[a].new) /\ index' = job[a].new
    BY <1>4 DEF SaveIndex, IndexesSound
  <2>2. job' = [job EXCEPT ![a] = NoJob]
    BY <1>4 DEF SaveIndex, Go, Carry
  <2>3. NoJob.step \notin SnapSteps /\ NoJob.step # "index"
    BY DEF NoJob, SnapSteps
  <2> QED  BY <2>1, <2>2, <2>3, IndexesKept
<1>5. ASSUME NEW a \in Admins, DeleteBackup(a) PROVE IndexesSound'
  <2>1. PICK i \in index.list : /\ index # Torn /\ UNCHANGED index
                                /\ job' = [job EXCEPT ![a] = [step |-> "index", new |-> Without({i})]]
    BY <1>5 DEF DeleteBackup, Ask, Carry
  <2>2. NamesLastFull(Without({i}))
    BY <1>i, <2>1, WithoutSound
  <2>3. PICK j : j = [step |-> "index", new |-> Without({i})]
    OBVIOUS
  <2>4. j.step = "index" /\ j.step \notin SnapSteps /\ j.new = Without({i})
    BY <2>3 DEF SnapSteps
  <2> QED  BY <1>i, <2>1, <2>2, <2>3, <2>4, IndexesKept
<1>6. ASSUME NEW a \in Admins, Prune(a) PROVE IndexesSound'
  <2>1. PICK n \in {0, 1} :
          LET rest == Kept(index.list, "full", 1) \cup Kept(index.list, "incr", n)
          IN  /\ index # Torn
              /\ Ask(a, [step |-> "index", new |-> [list |-> rest, last |-> LatestFull(rest)]])
    BY <1>6 DEF Prune
  <2>2. PICK rest : rest = Kept(index.list, "full", 1) \cup Kept(index.list, "incr", n)
    OBVIOUS
  <2>3. PICK new : new = [list |-> rest, last |-> LatestFull(rest)]
    OBVIOUS
  <2>4. index # Torn /\ job' = [job EXCEPT ![a] = [step |-> "index", new |-> new]]
    BY <2>1, <2>2, <2>3 DEF Ask, Carry
  <2>5. rest \in SUBSET Infos
    BY <1>i, <2>2, <2>4, ContentFacts DEF Kept
  <2>6. NamesLastFull(new)
    BY <2>3, <2>5, LatestIsFull
  <2>7. UNCHANGED index
    BY <1>6 DEF Prune
  <2>8. PICK j : j = [step |-> "index", new |-> new]
    OBVIOUS
  <2>9. j.step = "index" /\ j.step \notin SnapSteps /\ j.new = new
    BY <2>8 DEF SnapSteps
  <2> QED  BY <1>i, <2>4, <2>6, <2>7, <2>8, <2>9, IndexesKept
<1>7. ASSUME NEW a \in Admins, UNCHANGED index,
             \E j : job' = [job EXCEPT ![a] = j] /\ j.step \notin SnapSteps /\ j.step # "index"
      PROVE  IndexesSound'
  BY <1>7, <1>i, IndexesKept
<1>8. ASSUME NEW a \in Admins,
             \/ RestoreLoad(a) \/ RestoreRemove(a) \/ RestoreOpen(a) \/ RestoreUnlinked(a)
             \/ Export(a)
      PROVE  IndexesSound'
  <2>1. UNCHANGED index
    BY <1>8 DEF RestoreLoad, RestoreRemove, RestoreOpen, RestoreUnlinked, Export
  <2>2. \E j : /\ job' = [job EXCEPT ![a] = j]
               /\ j.step \in {"remove", "open", "insertTables", "none"}
    <3>1. CASE RestoreLoad(a)
      <4>1. PICK i \in index.list, overwrite \in BOOLEAN :
              Ask(a, [step |-> "remove", id |-> i.id, data |-> files[i.path],
                      overwrite |-> overwrite])
        BY <3>1 DEF RestoreLoad
      <4>2. PICK j : j = [step |-> "remove", id |-> i.id, data |-> files[i.path],
                          overwrite |-> overwrite]
        OBVIOUS
      <4>3. job' = [job EXCEPT ![a] = j] /\ j.step = "remove"
        BY <4>1, <4>2 DEF Ask, Carry
      <4> QED  BY <4>3
    <3>2. CASE RestoreRemove(a)
      <4>1. PICK j : j = [step |-> "open", id |-> job[a].id, data |-> job[a].data]
        OBVIOUS
      <4>2. job' = [job EXCEPT ![a] = j] /\ j.step = "open"
        BY <3>2, <4>1 DEF RestoreRemove, Go, Carry
      <4> QED  BY <4>2
    <3>3. CASE RestoreOpen(a) \/ RestoreUnlinked(a) \/ Export(a)
      BY <3>3 DEF RestoreOpen, RestoreUnlinked, Export, Ask, Go, Carry, NoJob
    <3> QED  BY <1>8, <3>1, <3>2, <3>3
  <2> QED  BY <1>7, <2>1, <2>2 DEF SnapSteps
<1>9. ASSUME NEW a \in Admins, Restore(a) PROVE IndexesSound'
  <2>1. job[a] \in InsertJobs
    BY <1>t, <1>9, JobFacts DEF Restore, Works, InsertSteps
  <2>2. \/ job' = [job EXCEPT ![a] = [job[a] EXCEPT !.step = "insertDocuments"]]
        \/ job' = [job EXCEPT ![a] = [job[a] EXCEPT !.step = "insertNodes"]]
        \/ job' = [job EXCEPT ![a] = NoJob]
    BY <1>9 DEF Restore, Go, Carry
  <2>3. UNCHANGED index /\ \E j : job' = [job EXCEPT ![a] = j]
                                  /\ j.step \in {"insertDocuments", "insertNodes", "none"}
    <3>1. PICK j, k : /\ j = [job[a] EXCEPT !.step = "insertDocuments"]
                      /\ k = [job[a] EXCEPT !.step = "insertNodes"]
      OBVIOUS
    <3>2. j.step = "insertDocuments" /\ k.step = "insertNodes" /\ NoJob.step = "none"
      BY <2>1, <3>1 DEF InsertJobs, NoJob
    <3>3. UNCHANGED index
      BY <1>9 DEF Restore
    <3> QED  BY <2>2, <3>1, <3>2, <3>3
  <2> QED  BY <1>7, <2>3 DEF SnapSteps
<1>10. ASSUME UNCHANGED <<index, job>> PROVE IndexesSound'
  BY <1>10 DEF IndexesSound, Snapshotting, Works, NamesLastFull, Fulls
<1>11. CASE Write \/ Tick \/ (\E a \in Admins : Import(a)) \/ UNCHANGED backupVars
  <2>1. UNCHANGED <<index, job>>
    BY <1>11 DEF Write, Tick, Import, backupVars
  <2> QED  BY <1>10, <2>1
<1>12. CASE BackupsCrash
  <2>1. index' \in {index, Torn} /\ \A a \in Admins : job'[a].step = "none"
    BY <1>12 DEF BackupsCrash, NoJob
  <2> QED  BY <1>i, <2>1 DEF IndexesSound, Snapshotting, Works, SnapSteps, NamesLastFull, Fulls
<1> QED
  BY <1>1, <1>2, <1>3, <1>4, <1>5, <1>6, <1>8, <1>9, <1>11, <1>12 DEF BackupsNext

\* Initially there are no backups.
LEMMA IndexesSoundInit == BackupsInit => IndexesSound
BY DEF BackupsInit, IndexesSound, Snapshotting, Works, SnapSteps, NamesLastFull, Fulls, NoJob
-----------------------------------------------------------------------------
\* The steps at which an administrator carries a whole snapshot.
CarrySteps == {"file", "remove", "open"} \cup InsertSteps

\* One administrator's work goes on; the target changes for nobody else that has it open.
LEMMA TargetKept ==
  ASSUME BackupsTyped, TargetSound, NEW a \in Admins, NEW j,
         job' = [job EXCEPT ![a] = j],
         j.step \in CarrySteps => Linked(j.data),
         j.step = "insertNodes" /\ target'.by = {a} =>
           \A d \in BDocs : j.data.home[d] # NoTab => target'.data.home[d] # NoTab,
         \A p \in Paths : files'[p] # NoContent => Linked(files'[p]),
         Housed(target'.data), Linked(target'.data),
         \A b \in Admins \ {a} : target'.by = {b} => target' = target
  PROVE  TargetSound'
<1>1. job'[a] = j /\ \A b \in Admins \ {a} : job'[b] = job[b]
  BY TypedFacts
<1>2. ASSUME NEW b \in Admins
      PROVE  /\ job'[b].step \in CarrySteps => Linked(job'[b].data)
             /\ job'[b].step = "insertNodes" /\ target'.by = {b} =>
                  \A d \in BDocs : job'[b].data.home[d] # NoTab => target'.data.home[d] # NoTab
  <2>1. CASE b = a
    BY <1>1, <2>1
  <2>2. CASE b # a
    <3>1. job'[b] = job[b] /\ (target'.by = {b} => target' = target)
      BY <1>1, <2>2
    <3>2. job[b].step \in CarrySteps => Linked(job[b].data)
      BY DEF TargetSound, CarrySteps, Works, Inserting
    <3>3. job[b].step = "insertNodes" /\ target.by = {b} =>
            \A d \in BDocs : job[b].data.home[d] # NoTab => target.data.home[d] # NoTab
      BY DEF TargetSound, Works
    <3> QED  BY <3>1, <3>2, <3>3
  <2> QED  BY <2>1, <2>2
<1>3. \A b \in Admins : job'[b].step \in CarrySteps =>
        \A d \in job'[b].data.pages : job'[b].data.home[d] # NoTab
  BY <1>2 DEF Linked
<1>4. \A p \in Paths : files'[p] # NoContent => \A d \in files'[p].pages : files'[p].home[d] # NoTab
  BY DEF Linked
<1>5. /\ \A d \in BDocs : HasHome(target'.data.tabs, target'.data, d)
      /\ \A d \in target'.data.pages : target'.data.home[d] # NoTab
  BY DEF Housed, Linked
<1> QED
  BY <1>2, <1>3, <1>4, <1>5 DEF TargetSound, CarrySteps, Works, Inserting, Linked, Housed, HasHome

\* The same when neither the target nor the files change.
LEMMA TargetIdle ==
  ASSUME BackupsTyped, TargetSound, NEW a \in Admins, NEW j,
         job' = [job EXCEPT ![a] = j], UNCHANGED <<target, files>>,
         j.step \in CarrySteps => Linked(j.data), j.step # "insertNodes"
  PROVE  TargetSound'
BY TargetKept DEF TargetSound

\* Files that are deleted are gone, the others are as they were.
LEMMA UnlinkSound ==
  ASSUME BackupsTyped, TargetSound, NEW gone, files' = Unlink(gone)
  PROVE  \A p \in Paths : files'[p] # NoContent => Linked(files'[p])
BY DEF TargetSound, Unlink

\* What a restore finds and leaves in the target when it inserts documents of a snapshot.
LEMMA OverSound ==
  ASSUME NEW c \in Content, NEW d \in Content, Housed(c), Linked(c),
         NEW ds \in SUBSET BDocs, \A e \in ds : HasHome(c.tabs, d, e)
  PROVE  /\ Housed([c EXCEPT !.home = Over(d.home, @, ds)])
         /\ Linked([c EXCEPT !.home = Over(d.home, @, ds)])
         /\ \A e \in ds : d.home[e] # NoTab => Over(d.home, c.home, ds)[e] # NoTab
<1>1. PICK n : n = [c EXCEPT !.home = Over(d.home, @, ds)]
  OBVIOUS
<1>2. n.tabs = c.tabs /\ n.pages = c.pages /\ n.home = Over(d.home, c.home, ds)
  BY <1>1 DEF Content
<1>3. \A e \in BDocs : n.home[e] = IF e \in ds /\ d.home[e] # NoTab THEN d.home[e] ELSE c.home[e]
  BY <1>2 DEF Over
<1>4. c.pages \subseteq BDocs
  BY ContentFacts
<1>5. Housed(n)
  BY <1>2, <1>3 DEF Housed, HasHome
<1>6. Linked(n)
  BY <1>2, <1>3, <1>4 DEF Linked
<1>7. \A e \in ds : d.home[e] # NoTab => Over(d.home, c.home, ds)[e] # NoTab
  BY <1>2, <1>3
<1> QED  BY <1>1, <1>5, <1>6, <1>7

\* No step of a snapshot or a restore leaves nodes without documents or documents without tables.
LEMMA TargetSoundStep == BackupsTyped /\ TargetSound /\ [BackupsNext]_backupVars => TargetSound'
<1> SUFFICES ASSUME BackupsTyped, TargetSound, [BackupsNext]_backupVars PROVE TargetSound'
  OBVIOUS
<1>t. /\ job \in [Admins -> Jobs] /\ index \in Indexes /\ target \in Targets
      /\ target.data \in Content /\ live \in Content
      /\ files \in [Paths -> Content \cup {NoContent}]
  BY TypedFacts
<1>s. Housed(target.data) /\ Linked(target.data)
      /\ \A p \in Paths : files[p] # NoContent => Linked(files[p])
  BY DEF TargetSound
<1>e. /\ Housed(NoTarget.data) /\ Linked(NoTarget.data) /\ NoTarget.by = {}
  BY DEF NoTarget, Empty, Housed, HasHome, Linked
<1>n. NoJob.step = "none" /\ "none" \notin CarrySteps
  BY DEF NoJob, CarrySteps, InsertSteps
<1>1. ASSUME NEW a \in Admins, BeginBackup(a) PROVE TargetSound'
  <2>1. PICK type \in Types :
          Ask(a, [step |-> "tables", id |-> adminOps + 1, type |-> type, loaded |-> index,
                  data |-> Empty, at |-> 0])
    BY <1>1 DEF BeginBackup
  <2>2. PICK j : j = [step |-> "tables", id |-> adminOps + 1, type |-> type, loaded |-> index,
                      data |-> Empty, at |-> 0]
    OBVIOUS
  <2>3. job' = [job EXCEPT ![a] = j] /\ j.step = "tables"
    BY <2>1, <2>2 DEF Ask, Carry
  <2>4. UNCHANGED <<target, files>>
    BY <1>1 DEF BeginBackup
  <2> QED  BY <2>3, <2>4, TargetIdle DEF CarrySteps, InsertSteps
<1>2. ASSUME NEW a \in Admins, SnapshotTables(a) \/ SnapshotDocuments(a) PROVE TargetSound'
  <2>1. job[a] \in SnapJobs
    BY <1>t, <1>2, JobFacts DEF SnapshotTables, SnapshotDocuments, Works, SnapSteps
  <2>2. PICK i, k : /\ i = [job[a] EXCEPT !.step = "documents", !.data.tabs = live.tabs]
                    /\ k = [job[a] EXCEPT !.step = "nodes", !.data.home = live.home]
    OBVIOUS
  <2>3. i.step = "documents" /\ k.step = "nodes"
    BY <2>1, <2>2 DEF SnapJobs
  <2>4. job' = [job EXCEPT ![a] = i] \/ job' = [job EXCEPT ![a] = k]
    BY <1>2, <2>2 DEF SnapshotTables, SnapshotDocuments, Go, Carry
  <2>5. UNCHANGED <<target, files>>
    BY <1>2 DEF SnapshotTables, SnapshotDocuments
  <2> QED  BY <2>3, <2>4, <2>5, TargetIdle DEF CarrySteps, InsertSteps
<1>3. ASSUME NEW a \in Admins, SnapshotNodes(a) PROVE TargetSound'
  <2>1. job[a] \in SnapJobs
    BY <1>t, <1>3, JobFacts DEF SnapshotNodes, Works, SnapSteps
  <2>2. job[a].data \in Content
    BY <2>1 DEF SnapJobs
  <2>3. PICK j : j = [job[a] EXCEPT !.step = "file", !.at = second,
                        !.data.pages = {d \in live.pages : job[a].data.home[d] # NoTab}]
    OBVIOUS
  <2>4. /\ j.step = "file" /\ j.data.home = job[a].data.home
        /\ j.data.pages = {d \in live.pages : job[a].data.home[d] # NoTab}
    BY <2>1, <2>2, <2>3 DEF SnapJobs, Content
  <2>5. Linked(j.data)
    BY <2>4 DEF Linked
  <2>6. job' = [job EXCEPT ![a] = j] /\ UNCHANGED <<target, files>>
    BY <1>3, <2>3 DEF SnapshotNodes, Go, Carry
  <2> QED  BY <2>4, <2>5, <2>6, TargetIdle
<1>4. ASSUME NEW a \in Admins, SaveFile(a) PROVE TargetSound'
  <2>1. job[a] \in SnapJobs /\ Linked(job[a].data)
    BY <1>t, <1>4, JobFacts DEF SaveFile, Works, SnapSteps, TargetSound
  <2>2. <<job[a].at, job[a].type>> \in Paths /\ job[a].data \in Content
    BY <2>1 DEF SnapJobs, Paths
  <2>3. PICK path \in Paths : path = <<job[a].at, job[a].type>>
    BY <2>2
  <2>4. files' = [files EXCEPT ![path] = job[a].data] /\ UNCHANGED target
    BY <1>4, <2>3 DEF SaveFile
  <2>5. \A p \in Paths : files'[p] # NoContent => Linked(files'[p])
    BY <1>t, <1>s, <2>1, <2>4
  <2>6. PICK j : job' = [job EXCEPT ![a] = j] /\ j.step = "index"
    <3>1. \E new : job' = [job EXCEPT ![a] = [step |-> "index", new |-> new]]
      BY <1>4 DEF SaveFile, Go, Carry
    <3>2. PICK new : job' = [job EXCEPT ![a] = [step |-> "index", new |-> new]]
      BY <3>1
    <3>3. PICK j : j = [step |-> "index", new |-> new]
      OBVIOUS
    <3>4. j.step = "index" /\ job' = [job EXCEPT ![a] = j]
      BY <3>2, <3>3
    <3> QED  BY <3>4
  <2> QED  BY <1>s, <2>4, <2>5, <2>6, TargetKept DEF CarrySteps, InsertSteps
<1>5. ASSUME NEW a \in Admins,
             \/ SaveIndex(a) \/ RestoreUnlinked(a) \/ Export(a)
      PROVE  TargetSound'
  <2>1. job' = [job EXCEPT ![a] = NoJob] /\ UNCHANGED <<target, files>>
    BY <1>5 DEF SaveIndex, RestoreUnlinked, Export, Ask, Go, Carry
  <2> QED  BY <1>n, <2>1, TargetIdle
<1>6. ASSUME NEW a \in Admins, DeleteBackup(a) \/ Prune(a) PROVE TargetSound'
  <2>1. PICK gone, new : /\ files' = Unlink(gone) /\ UNCHANGED target
                         /\ job' = [job EXCEPT ![a] = [step |-> "index", new |-> new]]
    BY <1>6 DEF DeleteBackup, Prune, Ask, Carry
  <2>2. \A p \in Paths : files'[p] # NoContent => Linked(files'[p])
    BY <2>1, UnlinkSound
  <2>3. PICK j : j = [step |-> "index", new |-> new]
    OBVIOUS
  <2>4. j.step = "index"
    BY <2>3
  <2> QED  BY <1>s, <2>1, <2>2, <2>3, <2>4, TargetKept DEF CarrySteps, InsertSteps
<1>7. ASSUME NEW a \in Admins, RestoreLoad(a) PROVE TargetSound'
  <2>1. PICK i \in index.list, overwrite \in BOOLEAN :
          /\ index # Torn /\ files[i.path] # NoContent
          /\ Ask(a, [step |-> "remove", id |-> i.id, data |-> files[i.path],
                     overwrite |-> overwrite])
          /\ UNCHANGED <<target, index, files, dump>>
    BY <1>7 DEF RestoreLoad
  <2>2. i.path \in Paths
    BY <1>t, <2>1, ContentFacts DEF Infos
  <2>3. PICK j : j = [step |-> "remove", id |-> i.id, data |-> files[i.path],
                      overwrite |-> overwrite]
    OBVIOUS
  <2>4. j.step = "remove" /\ Linked(j.data) /\ job' = [job EXCEPT ![a] = j]
    BY <1>s, <2>1, <2>2, <2>3 DEF Ask, Carry
  <2> QED  BY <2>1, <2>4, TargetIdle
<1>8. ASSUME NEW a \in Admins, RestoreRemove(a) PROVE TargetSound'
  <2>1. Linked(job[a].data)
    BY <1>8 DEF RestoreRemove, TargetSound
  <2>2. PICK j : j = [step |-> "open", id |-> job[a].id, data |-> job[a].data]
    OBVIOUS
  <2>3. j.step = "open" /\ Linked(j.data) /\ job' = [job EXCEPT ![a] = j] /\ UNCHANGED files
    BY <1>8, <2>1, <2>2 DEF RestoreRemove, Go, Carry
  <2>4. target' = NoTarget \/ target' = target
    BY <1>8 DEF RestoreRemove
  <2>5. \A b \in Admins \ {a} : target'.by = {b} => target' = target
    BY <1>e, <2>4
  <2>6. Housed(target'.data) /\ Linked(target'.data)
    BY <1>s, <1>e, <2>4
  <2>7. \A p \in Paths : files'[p] # NoContent => Linked(files'[p])
    BY <1>s, <2>3
  <2> QED  BY <2>3, <2>5, <2>6, <2>7, TargetKept
<1>9. ASSUME NEW a \in Admins, RestoreOpen(a) PROVE TargetSound'
  <2>1. Linked(job[a].data) /\ UNCHANGED files
    BY <1>9 DEF RestoreOpen, TargetSound
  <2>2. CASE target.by = {}
    <3>1. PICK j : j = [step |-> "insertTables", data |-> job[a].data]
      OBVIOUS
    <3>2. j.step = "insertTables" /\ Linked(j.data) /\ job' = [job EXCEPT ![a] = j]
      BY <1>9, <2>1, <2>2, <3>1 DEF RestoreOpen, Go, Carry
    <3>3. target'.by = {a} /\ target'.data = target.data
      BY <1>9, <2>2 DEF RestoreOpen
    <3> QED  BY <1>s, <2>1, <3>2, <3>3, TargetKept
  <2>3. CASE target.by # {}
    <3>1. job' = [job EXCEPT ![a] = NoJob] /\ UNCHANGED <<target, files>>
      BY <1>9, <2>1, <2>3 DEF RestoreOpen, Go, Carry
    <3> QED  BY <1>n, <3>1, TargetIdle
  <2> QED  BY <2>2, <2>3
<1>10. ASSUME NEW a \in Admins, Restore(a) PROVE TargetSound'
  <2> DEFINE data == job[a].data
             good == Restorable(target.data.tabs, data)
             clash == data.tabs \cap target.data.tabs
  <2>1. job[a] \in InsertJobs
    BY <1>t, <1>10, JobFacts DEF Restore, Works, InsertSteps
  <2>2. data \in Content /\ Linked(data)
    BY <1>10, <2>1 DEF InsertJobs, Restore, Works, TargetSound, Inserting, InsertSteps
  <2>3. target.by = {a} /\ UNCHANGED files
    BY <1>10 DEF Restore
  <2>4. \A p \in Paths : files'[p] # NoContent => Linked(files'[p])
    BY <1>s, <2>3
  <2>5. PICK i, k : /\ i = [job[a] EXCEPT !.step = "insertDocuments"]
                    /\ k = [job[a] EXCEPT !.step = "insertNodes"]
    OBVIOUS
  <2>6. /\ i.step = "insertDocuments" /\ i.data = data
        /\ k.step = "insertNodes" /\ k.data = data
    BY <2>1, <2>5 DEF InsertJobs
  <2>7. NoJob.step \notin CarrySteps
    BY DEF NoJob, CarrySteps, InsertSteps
  <2>8. ASSUME NEW ts, target'.data = [target.data EXCEPT !.tabs = @ \cup ts]
        PROVE  Housed(target'.data) /\ Linked(target'.data)
    <3>1. /\ target'.data.tabs = target.data.tabs \cup ts
          /\ target'.data.home = target.data.home /\ target'.data.pages = target.data.pages
      BY <1>t, <2>8 DEF Content
    <3> QED  BY <1>s, <3>1 DEF Housed, Linked, HasHome
  <2>9. ASSUME NEW ds \in SUBSET BDocs, \A e \in ds : HasHome(target.data.tabs, data, e),
               target'.data = [target.data EXCEPT !.home = Over(data.home, @, ds)]
        PROVE  /\ Housed(target'.data) /\ Linked(target'.data)
               /\ \A e \in ds : data.home[e] # NoTab => target'.data.home[e] # NoTab
    <3>1. target'.data.home = Over(data.home, target.data.home, ds)
      BY <1>t, <2>9 DEF Content
    <3>2. PICK c \in Content, d \in Content : c = target.data /\ d = data
      BY <1>t, <2>2
    <3> QED  BY <1>s, <2>9, <3>1, <3>2, OverSound
  <2>10. CASE Works(a, "insertTables") /\ clash = {}
    <3>1. /\ target' = [target EXCEPT !.data.tabs = @ \cup data.tabs]
          /\ job' = [job EXCEPT ![a] = i]
      BY <1>10, <2>5, <2>10 DEF Restore, Works, Go, Carry
    <3>2. target'.by = {a} /\ target'.data = [target.data EXCEPT !.tabs = @ \cup data.tabs]
      BY <1>t, <2>3, <3>1 DEF Targets
    <3> QED  BY <2>2, <2>4, <2>6, <2>8, <3>1, <3>2, TargetKept
  <2>11. CASE Works(a, "insertTables") /\ clash # {}
    <3>1. PICK ts : target' = [target EXCEPT !.by = {}, !.data.tabs = @ \cup ts]
      BY <1>10, <2>11 DEF Restore, Works
    <3>2. job' = [job EXCEPT ![a] = NoJob]
      BY <1>10, <2>11 DEF Restore, Works, Go, Carry
    <3>3. target'.by = {} /\ target'.data = [target.data EXCEPT !.tabs = @ \cup ts]
      BY <1>t, <3>1 DEF Targets
    <3> QED  BY <2>4, <2>7, <2>8, <3>2, <3>3, TargetKept DEF CarrySteps, InsertSteps
  <2>12. CASE Works(a, "insertDocuments") /\ good = BDocs
    <3>1. /\ target' = [target EXCEPT !.data.home = Over(data.home, @, BDocs)]
          /\ job' = [job EXCEPT ![a] = k]
      BY <1>10, <2>5, <2>12 DEF Restore, Works, Go, Carry
    <3>2. target'.by = {a} /\ target'.data = [target.data EXCEPT !.home = Over(data.home, @, BDocs)]
      BY <1>t, <2>3, <3>1 DEF Targets
    <3>3. \A e \in BDocs : HasHome(target.data.tabs, data, e)
      BY <2>12 DEF Restorable
    <3> QED  BY <2>2, <2>4, <2>6, <2>9, <3>1, <3>2, <3>3, TargetKept
  <2>13. CASE Works(a, "insertDocuments") /\ good # BDocs
    <3>1. PICK ds \in SUBSET good :
            target' = [target EXCEPT !.by = {}, !.data.home = Over(data.home, @, ds)]
      BY <1>10, <2>13 DEF Restore, Works
    <3>2. job' = [job EXCEPT ![a] = NoJob]
      BY <1>10, <2>13 DEF Restore, Works, Go, Carry
    <3>3. target'.by = {} /\ target'.data = [target.data EXCEPT !.home = Over(data.home, @, ds)]
      BY <1>t, <3>1 DEF Targets
    <3>4. ds \in SUBSET BDocs /\ \A e \in ds : HasHome(target.data.tabs, data, e)
      BY DEF Restorable
    <3> QED  BY <2>4, <2>7, <2>9, <3>2, <3>3, <3>4, TargetKept DEF CarrySteps, InsertSteps
  <2>14. CASE Works(a, "insertNodes")
    <3>1. /\ target' = [target EXCEPT !.step = "done", !.by = {}, !.data.pages = @ \cup data.pages]
          /\ job' = [job EXCEPT ![a] = NoJob]
      BY <1>10, <2>14 DEF Restore, Works, Go, Carry
    <3>2. /\ target'.by = {} /\ target'.data.tabs = target.data.tabs
          /\ target'.data.home = target.data.home
          /\ target'.data.pages = target.data.pages \cup data.pages
      BY <1>t, <3>1 DEF Targets, Content
    <3>3. \A d \in BDocs : data.home[d] # NoTab => target.data.home[d] # NoTab
      BY <2>3, <2>14 DEF TargetSound
    <3>4. data.pages \subseteq BDocs
      BY <2>2, ContentFacts
    <3>5. Housed(target'.data) /\ Linked(target'.data)
      BY <1>s, <2>2, <3>2, <3>3, <3>4 DEF Housed, Linked, HasHome
    <3> QED  BY <2>4, <2>7, <3>1, <3>2, <3>5, TargetKept DEF CarrySteps, InsertSteps
  <2> QED  BY <1>10, <2>10, <2>11, <2>12, <2>13, <2>14 DEF Restore
<1>11. CASE Write \/ Tick \/ (\E a \in Admins : Import(a)) \/ UNCHANGED backupVars
  <2>1. UNCHANGED <<target, files, job>>
    BY <1>11 DEF Write, Tick, Import, backupVars
  <2> QED  BY <2>1 DEF TargetSound, Works, Inserting, Linked, Housed, HasHome
<1>12. CASE BackupsCrash
  <2>1. /\ \A a \in Admins : job'[a].step = "none"
        /\ target' = [target EXCEPT !.by = {}] /\ UNCHANGED files
    BY <1>12 DEF BackupsCrash, NoJob
  <2>2. target'.data = target.data
    BY <1>t, <2>1 DEF Targets
  <2>3. "none" \notin {"file", "remove", "open", "insertNodes"} /\ "none" \notin InsertSteps
    BY DEF InsertSteps
  <2> QED
    BY <1>s, <2>1, <2>2, <2>3 DEF TargetSound, Works, Inserting, Linked, Housed, HasHome
<1> QED
  BY <1>1, <1>2, <1>3, <1>4, <1>5, <1>6, <1>7, <1>8, <1>9, <1>10, <1>11, <1>12 DEF BackupsNext

\* Nothing is restored at the start.
LEMMA TargetSoundInit == BackupsInit => TargetSound
<1> SUFFICES ASSUME BackupsInit PROVE TargetSound
  OBVIOUS
<1>1. /\ target = NoTarget /\ files = [p \in Paths |-> NoContent]
      /\ \A a \in Admins : job[a].step = "none"
  BY DEF BackupsInit, NoJob
<1>2. Housed(target.data) /\ Linked(target.data)
  BY <1>1 DEF NoTarget, Empty, Housed, HasHome, Linked
<1> QED  BY <1>1, <1>2 DEF TargetSound, Works, Inserting, InsertSteps
-----------------------------------------------------------------------------
\* No number is given twice when an administrator goes on that takes no new snapshot.
LEMMA NumberedKept ==
  ASSUME BackupsTyped, Numbered, NEW a \in Admins, NEW j,
         job' = [job EXCEPT ![a] = j],
         j.step \in SnapSteps => Snapshotting(a) /\ j.id = job[a].id,
         UNCHANGED taken, adminOps' \in {adminOps, adminOps + 1},
         target'.step = "none" => target' = NoTarget
  PROVE  Numbered'
<1>1. job'[a] = j /\ \A b \in Admins \ {a} : job'[b] = job[b]
  BY TypedFacts
<1>2. \A b \in Admins : job'[b].step \in SnapSteps => Snapshotting(b) /\ job'[b].id = job[b].id
  BY <1>1 DEF Snapshotting
<1>3. \A b \in Admins : Snapshotting(b) => job[b].id \in Nat
  BY TypedFacts, JobFacts DEF Snapshotting, SnapJobs, Ids
<1>4. adminOps \in Nat /\ adminOps' >= adminOps
  BY TypedFacts
<1>5. \A i \in Ids : i > adminOps' => taken'[i] = NoContent
  BY <1>4 DEF Numbered, Ids
<1>6. ASSUME NEW b \in Admins, job'[b].step \in SnapSteps
      PROVE  /\ job'[b].id <= adminOps' /\ taken'[job'[b].id] = NoContent
             /\ \A c \in Admins : job'[c].step \in SnapSteps /\ job'[c].id = job'[b].id => c = b
  <2>1. Snapshotting(b) /\ job'[b].id = job[b].id
    BY <1>2, <1>6
  <2>2. /\ job[b].id <= adminOps /\ taken[job[b].id] = NoContent
        /\ \A c \in Admins : Snapshotting(c) /\ job[c].id = job[b].id => c = b
    BY <2>1 DEF Numbered
  <2>3. job'[b].id <= adminOps'
    BY <1>3, <1>4, <2>1, <2>2
  <2> QED  BY <1>2, <2>1, <2>2, <2>3
<1> QED  BY <1>5, <1>6 DEF Numbered, Snapshotting, NoTarget, NoContent, Empty

\* Each action numbers backups in order.
LEMMA NumberedStep == BackupsTyped /\ Numbered /\ [BackupsNext]_backupVars => Numbered'
<1> SUFFICES ASSUME BackupsTyped, Numbered, [BackupsNext]_backupVars PROVE Numbered'
  OBVIOUS
<1>t. /\ job \in [Admins -> Jobs] /\ target \in Targets /\ adminOps \in Nat /\ MaxAdminOps \in Nat
      /\ taken \in [Ids -> Content \cup {NoContent}]
  BY TypedFacts
<1>g. target.step = "none" => target = NoTarget
  BY DEF Numbered
<1>n. NoJob.step \notin SnapSteps
  BY DEF NoJob, SnapSteps
<1>1. ASSUME NEW a \in Admins, BeginBackup(a) PROVE Numbered'
  <2>1. PICK type \in Types :
          Ask(a, [step |-> "tables", id |-> adminOps + 1, type |-> type, loaded |-> index,
                  data |-> Empty, at |-> 0])
    BY <1>1 DEF BeginBackup
  <2>2. PICK j : j = [step |-> "tables", id |-> adminOps + 1, type |-> type, loaded |-> index,
                      data |-> Empty, at |-> 0]
    OBVIOUS
  <2>3. /\ job' = [job EXCEPT ![a] = j] /\ j.id = adminOps + 1 /\ ~Snapshotting(a)
        /\ adminOps' = adminOps + 1 /\ adminOps < MaxAdminOps
        /\ UNCHANGED <<taken, target>>
    BY <1>1, <2>1, <2>2 DEF BeginBackup, Ask, Carry, Works, Snapshotting, SnapSteps
  <2>4. job'[a] = j /\ \A b \in Admins \ {a} : job'[b] = job[b]
    BY <1>t, <2>3
  <2>5. \A b \in Admins : Snapshotting(b) => /\ job[b].id \in Nat /\ job[b].id <= adminOps
                                             /\ taken[job[b].id] = NoContent
    BY <1>t, JobFacts DEF Numbered, Snapshotting, SnapJobs, Ids
  <2>6. taken[adminOps + 1] = NoContent
    <3>1. adminOps + 1 \in Ids /\ adminOps + 1 > adminOps
      BY <1>t, <2>3 DEF Ids
    <3> QED  BY <3>1 DEF Numbered
  <2>7. \A i \in Ids : i > adminOps' => taken'[i] = NoContent
    BY <1>t, <2>3 DEF Numbered, Ids
  <2>8. ASSUME NEW b \in Admins, job'[b].step \in SnapSteps
        PROVE  /\ job'[b].id <= adminOps' /\ taken'[job'[b].id] = NoContent
               /\ \A c \in Admins : job'[c].step \in SnapSteps /\ job'[c].id = job'[b].id => c = b
    <3>1. CASE b = a
      <4>1. job'[b].id = adminOps + 1 /\ taken'[adminOps + 1] = NoContent
        BY <2>3, <2>4, <2>6, <3>1
      <4>2. \A c \in Admins \ {a} : job'[c].step \in SnapSteps => job'[c].id <= adminOps /\ job'[c].id \in Nat
        BY <2>4, <2>5 DEF Snapshotting
      <4>3. \A c \in Admins \ {a} : job'[c].step \in SnapSteps => job'[c].id # adminOps + 1
        BY <1>t, <4>2
      <4> QED  BY <1>t, <2>3, <3>1, <4>1, <4>3
    <3>2. CASE b # a
      <4>1. /\ job'[b] = job[b] /\ Snapshotting(b)
        BY <2>4, <2>8, <3>2 DEF Snapshotting
      <4>2. /\ job[b].id \in Nat /\ job[b].id <= adminOps /\ taken[job[b].id] = NoContent
            /\ \A c \in Admins : Snapshotting(c) /\ job[c].id = job[b].id => c = b
        BY <2>5, <4>1 DEF Numbered
      <4>3. job'[b].id <= adminOps' /\ job'[a].id # job'[b].id
        BY <1>t, <2>3, <2>4, <4>1, <4>2
      <4> QED  BY <2>3, <2>4, <4>1, <4>2, <4>3 DEF Snapshotting
    <3> QED  BY <3>1, <3>2
  <2>9. target'.step = "none" => target' = NoTarget
    BY <1>g, <2>3
  <2> QED  BY <2>7, <2>8, <2>9 DEF Numbered, Snapshotting, NoTarget, NoContent, Empty
<1>2. ASSUME NEW a \in Admins, SnapshotTables(a) \/ SnapshotDocuments(a) \/ SnapshotNodes(a)
      PROVE  Numbered'
  <2>1. job[a] \in SnapJobs /\ Snapshotting(a)
    BY <1>t, <1>2, JobFacts
       DEF SnapshotTables, SnapshotDocuments, SnapshotNodes, Works, SnapSteps, Snapshotting
  <2>2. PICK i, j, k : /\ i = [job[a] EXCEPT !.step = "documents", !.data.tabs = live.tabs]
                       /\ j = [job[a] EXCEPT !.step = "nodes", !.data.home = live.home]
                       /\ k = [job[a] EXCEPT !.step = "file", !.at = second,
                                 !.data.pages = {d \in live.pages : job[a].data.home[d] # NoTab}]
    OBVIOUS
  <2>3. i.id = job[a].id /\ j.id = job[a].id /\ k.id = job[a].id
    BY <2>1, <2>2 DEF SnapJobs
  <2>4. job' \in {[job EXCEPT ![a] = i], [job EXCEPT ![a] = j], [job EXCEPT ![a] = k]}
    BY <1>2, <2>2 DEF SnapshotTables, SnapshotDocuments, SnapshotNodes, Go, Carry
  <2>5. UNCHANGED <<taken, adminOps, target>>
    BY <1>2 DEF SnapshotTables, SnapshotDocuments, SnapshotNodes, Go
  <2> QED  BY <1>g, <2>1, <2>3, <2>4, <2>5, NumberedKept
<1>3. ASSUME NEW a \in Admins, SaveFile(a) PROVE Numbered'
  <2>1. job[a] \in SnapJobs /\ Snapshotting(a)
    BY <1>t, <1>3, JobFacts DEF SaveFile, Works, SnapSteps, Snapshotting
  <2>2. job[a].id \in Ids /\ job[a].id <= adminOps
    BY <2>1 DEF SnapJobs, Numbered
  <2>3. /\ taken' = [taken EXCEPT ![job[a].id] = job[a].data]
        /\ UNCHANGED <<adminOps, target>>
    BY <1>3 DEF SaveFile, Go
  <2>4. PICK new : job' = [job EXCEPT ![a] = [step |-> "index", new |-> new]]
    BY <1>3 DEF SaveFile, Go, Carry
  <2>5. job'[a].step = "index" /\ \A b \in Admins \ {a} : job'[b] = job[b]
    BY <1>t, <2>4
  <2>6. \A i \in Ids : i > adminOps' => taken'[i] = NoContent
    BY <1>t, <2>2, <2>3 DEF Numbered, Ids
  <2>7. ASSUME NEW b \in Admins, job'[b].step \in SnapSteps
        PROVE  /\ job'[b].id <= adminOps' /\ taken'[job'[b].id] = NoContent
               /\ \A c \in Admins : job'[c].step \in SnapSteps /\ job'[c].id = job'[b].id => c = b
    <3>1. b # a /\ job'[b] = job[b] /\ Snapshotting(b)
      BY <2>5, <2>7 DEF SnapSteps, Snapshotting
    <3>2. /\ job[b].id <= adminOps /\ taken[job[b].id] = NoContent
          /\ \A c \in Admins : Snapshotting(c) /\ job[c].id = job[b].id => c = b
      BY <3>1 DEF Numbered
    <3>3. job[b].id \in Ids
      BY <1>t, <3>1, JobFacts DEF Snapshotting, SnapJobs
    <3>4. job[b].id # job[a].id
      BY <2>1, <3>1, <3>2
    <3>5. \A c \in Admins : job'[c].step \in SnapSteps => Snapshotting(c) /\ job'[c].id = job[c].id
      BY <2>5 DEF SnapSteps, Snapshotting
    <3> QED  BY <1>t, <2>2, <2>3, <3>1, <3>2, <3>3, <3>4, <3>5
  <2>8. target'.step = "none" => target' = NoTarget
    BY <1>g, <2>3
  <2> QED  BY <2>6, <2>7, <2>8 DEF Numbered, Snapshotting, NoTarget, NoContent, Empty
<1>4. ASSUME NEW a \in Admins,
             \E j : job' = [job EXCEPT ![a] = j] /\ j.step \notin SnapSteps,
             UNCHANGED taken, adminOps' \in {adminOps, adminOps + 1},
             target'.step = "none" => target' = NoTarget
      PROVE  Numbered'
  BY <1>4, NumberedKept
<1>5. ASSUME NEW a \in Admins,
             SaveIndex(a) \/ RestoreUnlinked(a) \/ Export(a)
      PROVE  Numbered'
  <2>1. job' = [job EXCEPT ![a] = NoJob] /\ UNCHANGED <<target, taken>>
    BY <1>5 DEF SaveIndex, RestoreUnlinked, Export, Ask, Go, Carry
  <2>2. adminOps' \in {adminOps, adminOps + 1}
    BY <1>5 DEF SaveIndex, RestoreUnlinked, Export, Ask, Go
  <2> QED  BY <1>g, <1>n, <1>4, <2>1, <2>2
<1>6. ASSUME NEW a \in Admins, DeleteBackup(a) \/ Prune(a) PROVE Numbered'
  <2>1. PICK new : job' = [job EXCEPT ![a] = [step |-> "index", new |-> new]]
    BY <1>6 DEF DeleteBackup, Prune, Ask, Carry
  <2>2. UNCHANGED <<target, taken>> /\ adminOps' = adminOps + 1
    BY <1>6 DEF DeleteBackup, Prune, Ask
  <2>3. PICK j : j = [step |-> "index", new |-> new]
    OBVIOUS
  <2>4. j.step \notin SnapSteps
    BY <2>3 DEF SnapSteps
  <2> QED  BY <1>g, <1>4, <2>1, <2>2, <2>3, <2>4
<1>7. ASSUME NEW a \in Admins, RestoreLoad(a) PROVE Numbered'
  <2>1. PICK i \in index.list, overwrite \in BOOLEAN :
          Ask(a, [step |-> "remove", id |-> i.id, data |-> files[i.path], overwrite |-> overwrite])
    BY <1>7 DEF RestoreLoad
  <2>2. PICK j : j = [step |-> "remove", id |-> i.id, data |-> files[i.path],
                      overwrite |-> overwrite]
    OBVIOUS
  <2>3. j.step \notin SnapSteps /\ job' = [job EXCEPT ![a] = j]
    BY <2>1, <2>2 DEF Ask, Carry, SnapSteps
  <2>4. UNCHANGED <<target, taken>> /\ adminOps' = adminOps + 1
    BY <1>7, <2>1 DEF RestoreLoad, Ask
  <2> QED  BY <1>g, <1>4, <2>3, <2>4
<1>8. ASSUME NEW a \in Admins, RestoreRemove(a) PROVE Numbered'
  <2>1. PICK j : j = [step |-> "open", id |-> job[a].id, data |-> job[a].data]
    OBVIOUS
  <2>2. j.step \notin SnapSteps /\ job' = [job EXCEPT ![a] = j]
    BY <1>8, <2>1 DEF RestoreRemove, Go, Carry, SnapSteps
  <2>3. UNCHANGED <<taken, adminOps>> /\ (target' = NoTarget \/ target' = target)
    BY <1>8 DEF RestoreRemove, Go
  <2> QED  BY <1>g, <1>4, <2>2, <2>3
<1>9. ASSUME NEW a \in Admins, RestoreOpen(a) PROVE Numbered'
  <2>1. PICK j : j = [step |-> "insertTables", data |-> job[a].data]
    OBVIOUS
  <2>2. j.step \notin SnapSteps /\ job' \in {[job EXCEPT ![a] = j], [job EXCEPT ![a] = NoJob]}
    BY <1>9, <2>1 DEF RestoreOpen, Go, Carry, SnapSteps
  <2>3. UNCHANGED <<taken, adminOps>> /\ (target'.step = "begun" \/ target' = target)
    BY <1>9 DEF RestoreOpen, Go
  <2>4. target'.step = "none" => target' = NoTarget
    BY <1>g, <2>3
  <2> QED  BY <1>n, <1>4, <2>2, <2>3, <2>4
<1>10. ASSUME NEW a \in Admins, Restore(a) PROVE Numbered'
  <2>1. job[a] \in InsertJobs /\ target.step # "none"
    <3>1. NoTarget.by = {} /\ target.by = {a}
      BY <1>10 DEF NoTarget, Restore
    <3>2. job[a] \in InsertJobs
      BY <1>t, <1>10, JobFacts DEF Restore, Works, InsertSteps
    <3> QED  BY <1>g, <3>1, <3>2
  <2>2. PICK i, k : /\ i = [job[a] EXCEPT !.step = "insertDocuments"]
                    /\ k = [job[a] EXCEPT !.step = "insertNodes"]
    OBVIOUS
  <2>3. i.step \notin SnapSteps /\ k.step \notin SnapSteps
    BY <2>1, <2>2 DEF InsertJobs, SnapSteps
  <2>4. job' \in {[job EXCEPT ![a] = i], [job EXCEPT ![a] = k], [job EXCEPT ![a] = NoJob]}
    BY <1>10, <2>2 DEF Restore, Go, Carry
  <2>5. UNCHANGED <<taken, adminOps>>
    BY <1>10 DEF Restore, Go
  <2>6. target'.step # "none"
    BY <1>10, <1>t, <2>1 DEF Restore, Targets
  <2> QED  BY <1>n, <1>4, <2>3, <2>4, <2>5, <2>6
<1>11. ASSUME UNCHANGED <<target, taken, job>>, adminOps' \in {adminOps, adminOps + 1}
       PROVE  Numbered'
  <2>1. \A i \in Ids : i > adminOps' => taken'[i] = NoContent
    BY <1>t, <1>11 DEF Numbered, Ids
  <2>2. \A b \in Admins : Snapshotting(b) => job[b].id \in Nat /\ job[b].id <= adminOps'
    BY <1>t, <1>11, JobFacts DEF Numbered, Snapshotting, SnapJobs, Ids
  <2> QED  BY <1>11, <2>1, <2>2 DEF Numbered, Snapshotting, NoTarget, NoContent, Empty
<1>12. CASE Write \/ Tick \/ (\E a \in Admins : Import(a)) \/ UNCHANGED backupVars
  <2>1. UNCHANGED <<target, taken, job>> /\ adminOps' \in {adminOps, adminOps + 1}
    BY <1>12 DEF Write, Tick, Import, backupVars
  <2> QED  BY <1>11, <2>1
<1>13. CASE BackupsCrash
  <2>1. /\ \A a \in Admins : job'[a].step \notin SnapSteps
        /\ target' = [target EXCEPT !.by = {}] /\ UNCHANGED <<taken, adminOps>>
    BY <1>13, <1>n DEF BackupsCrash
  <2>2. target'.step = "none" => target' = NoTarget
    <3>1. target'.step = target.step
      BY <1>t, <2>1 DEF Targets
    <3>2. [NoTarget EXCEPT !.by = {}] = NoTarget
      BY DEF NoTarget
    <3> QED  BY <1>g, <2>1, <3>1, <3>2
  <2>3. \A i \in Ids : i > adminOps' => taken'[i] = NoContent
    BY <2>1 DEF Numbered
  <2> QED  BY <2>1, <2>2, <2>3 DEF Numbered, Snapshotting, NoTarget, NoContent, Empty
<1> QED
  BY <1>1, <1>2, <1>3, <1>5, <1>6, <1>7, <1>8, <1>9, <1>10, <1>12, <1>13 DEF BackupsNext

\* Initially no number has been given.
LEMMA NumberedInit == BackupsInit => Numbered
<1> SUFFICES ASSUME BackupsInit PROVE Numbered
  OBVIOUS
<1>1. /\ target = NoTarget /\ \A i \in Ids : taken[i] = NoContent
      /\ \A a \in Admins : job[a].step = "none"
  BY DEF BackupsInit, NoJob
<1> QED  BY <1>1 DEF Numbered, Snapshotting, SnapSteps
-----------------------------------------------------------------------------
\* Quiet is kept when the only administrator at work goes on and its new work fits.
LEMMA QuietKept ==
  ASSUME BackupsTyped, NEW a \in Admins, NEW j,
         \A b \in Admins \ {a} : job[b] = NoJob,
         job' = [job EXCEPT ![a] = j],
         index' # Torn,
         j.step # "index" =>
           \A i \in index'.list : /\ files'[i.path] = taken'[i.id] /\ taken'[i.id] \in Content
                                  /\ \A k \in index'.list : k.path = i.path => k = i,
         j.step = "index" =>
           \A i \in j.new.list : /\ files'[i.path] = taken'[i.id] /\ taken'[i.id] \in Content
                                 /\ \A k \in j.new.list : k.path = i.path => k = i,
         target'.step = "done" => /\ target'.data = taken'[target'.id] /\ target'.id # 0
                                  /\ target'.data \in Content,
         j.step \in SnapSteps => j.loaded = index',
         j.step = "remove" => /\ j.data = taken'[j.id]
                              /\ target'.step # "none" => j.overwrite,
         j.step = "open" => j.data = taken'[j.id] /\ target' = NoTarget,
         j.step \in InsertSteps => /\ target'.by = {a} /\ target'.step = "begun" /\ target'.id # 0
                                   /\ j.data = taken'[target'.id]
                                   /\ target'.data = Restored(j.step, j.data)
  PROVE  Quiet'
<1>1. job'[a] = j /\ \A b \in Admins \ {a} : job'[b] = NoJob
  BY TypedFacts
<1>2. /\ NoJob.step \notin SnapSteps /\ NoJob.step \notin InsertSteps
      /\ NoJob.step \notin {"index", "remove", "open"}
  BY DEF NoJob, SnapSteps, InsertSteps
<1>3. \A b, c \in Admins : job'[b] # NoJob /\ job'[c] # NoJob => b = c
  BY <1>1
<1>4. (\A b \in Admins : job'[b].step # "index") =>
        \A i \in index'.list : /\ files'[i.path] = taken'[i.id] /\ taken'[i.id] \in Content
                               /\ \A k \in index'.list : k.path = i.path => k = i
  BY <1>1
<1>5. ASSUME NEW b \in Admins
      PROVE  /\ job'[b].step = "index" =>
                  \A i \in job'[b].new.list :
                    /\ files'[i.path] = taken'[i.id] /\ taken'[i.id] \in Content
                    /\ \A k \in job'[b].new.list : k.path = i.path => k = i
             /\ job'[b].step \in SnapSteps => job'[b].loaded = index'
             /\ job'[b].step = "remove" => /\ job'[b].data = taken'[job'[b].id]
                                           /\ target'.step # "none" => job'[b].overwrite
             /\ job'[b].step = "open" => job'[b].data = taken'[job'[b].id] /\ target' = NoTarget
             /\ job'[b].step \in InsertSteps =>
                  /\ target'.by = {b} /\ target'.step = "begun" /\ target'.id # 0
                  /\ job'[b].data = taken'[target'.id]
                  /\ target'.data = Restored(job'[b].step, job'[b].data)
  <2>1. CASE b = a
    BY <1>1, <2>1
  <2>2. CASE b # a
    BY <1>1, <1>2, <2>2
  <2> QED  BY <2>1, <2>2
<1> QED
  BY <1>3, <1>4, <1>5
     DEF Quiet, Works, Snapshotting, Inserting, Stored, Restored, Torn, NoJob, NoTarget, Empty,
         Content, SnapSteps, InsertSteps

\* How far a restore has got at each of its steps.
LEMMA RestoredFacts ==
  ASSUME NEW x
  PROVE  /\ Restored("insertTables", x) = Empty
         /\ Restored("insertDocuments", x) = [Empty EXCEPT !.tabs = x.tabs]
         /\ Restored("insertNodes", x) = [Empty EXCEPT !.tabs = x.tabs, !.home = x.home]
BY DEF Restored

\* When backups are deleted that are listed, those that stay keep their files.
LEMMA StoredRest ==
  ASSUME NEW list \in SUBSET Infos, NEW rest \in SUBSET list, Stored(list),
         files' = Unlink(list \ rest), UNCHANGED taken
  PROVE  \A i \in rest : /\ files'[i.path] = taken'[i.id] /\ taken'[i.id] \in Content
                         /\ \A k \in rest : k.path = i.path => k = i
<1> SUFFICES ASSUME NEW i \in rest
             PROVE  /\ files'[i.path] = taken'[i.id] /\ taken'[i.id] \in Content
                    /\ \A k \in rest : k.path = i.path => k = i
  OBVIOUS
<1>1. i.path \in Paths /\ ~\E k \in list \ rest : k.path = i.path
  BY DEF Stored, Infos
<1>2. files'[i.path] = files[i.path]
  BY <1>1 DEF Unlink
<1> QED  BY <1>2 DEF Stored

\* Undisturbed, each action leaves what the next one relies on.
LEMMA UndisturbedStep ==
  BackupsTyped /\ Numbered /\ Undisturbed /\ [BackupsNext]_backupVars => Undisturbed'
<1> SUFFICES ASSUME BackupsTyped, Numbered, Undisturbed, [BackupsNext]_backupVars, ~disturbed'
             PROVE  Quiet'
  BY DEF Undisturbed
<1>t. /\ job \in [Admins -> Jobs] /\ target \in Targets /\ index \in Indexes
      /\ target.data \in Content /\ MaxAdminOps \in Nat
      /\ files \in [Paths -> Content \cup {NoContent}]
      /\ taken \in [Ids -> Content \cup {NoContent}]
  BY TypedFacts
<1>n. /\ NoJob.step \notin SnapSteps /\ NoJob.step \notin InsertSteps
      /\ NoJob.step \notin {"index", "remove", "open"} /\ NoJob.step = "none"
  BY DEF NoJob, SnapSteps, InsertSteps
<1>q. ASSUME Quiet
      PROVE  /\ index # Torn /\ index \in Listing /\ index.list \in SUBSET Infos
             /\ target.step = "done" => /\ target.data = taken[target.id] /\ target.id # 0
                                        /\ target.data \in Content
             /\ (\A a \in Admins : job[a].step # "index") => Stored(index.list)
             /\ target.step = "none" => target = NoTarget
  <2>1. index # Torn /\ index \in Listing
    BY <1>t, <1>q, ContentFacts DEF Quiet
  <2>2. target.step = "done" => /\ target.data = taken[target.id] /\ target.id # 0
                                /\ target.data \in Content
    BY <1>q DEF Quiet
  <2>3. (\A a \in Admins : job[a].step # "index") => Stored(index.list)
    BY <1>q DEF Quiet, Works
  <2>4. target.step = "none" => target = NoTarget
    BY DEF Numbered
  <2> QED  BY <2>1, <2>2, <2>3, <2>4, ContentFacts
\* Who begins is alone, and so is who goes on.
<1>a. ASSUME NEW a \in Admins, NEW j, Ask(a, j)
      PROVE  /\ Quiet /\ \A b \in Admins : job[b] = NoJob
             /\ \A b \in Admins : job[b].step # "index"
             /\ job' = [job EXCEPT ![a] = j] /\ UNCHANGED taken
  <2>1. ~disturbed /\ \A b \in Admins : job[b] = NoJob
    BY <1>a DEF Ask
  <2> QED  BY <1>a, <1>n, <2>1 DEF Ask, Carry, Undisturbed
<1>g. ASSUME NEW a \in Admins, ~disturbed, job[a] # NoJob
      PROVE  Quiet /\ \A b \in Admins \ {a} : job[b] = NoJob
  BY <1>g DEF Undisturbed, Quiet
<1>1. ASSUME NEW a \in Admins, BeginBackup(a) PROVE Quiet'
  <2>1. PICK type \in Types :
          Ask(a, [step |-> "tables", id |-> adminOps + 1, type |-> type, loaded |-> index,
                  data |-> Empty, at |-> 0])
    BY <1>1 DEF BeginBackup
  <2>2. PICK j : j = [step |-> "tables", id |-> adminOps + 1, type |-> type, loaded |-> index,
                      data |-> Empty, at |-> 0]
    OBVIOUS
  <2>3. j.step = "tables" /\ j.loaded = index
    BY <2>2
  <2>4. /\ Quiet /\ \A b \in Admins : job[b] = NoJob
        /\ \A b \in Admins : job[b].step # "index"
        /\ job' = [job EXCEPT ![a] = j] /\ UNCHANGED taken
    BY <2>1, <2>2, <1>a
  <2>5. UNCHANGED <<index, files, target>>
    BY <1>1 DEF BeginBackup
  <2>6. Stored(index.list)
    BY <1>q, <2>4
  <2>7. j.step \notin InsertSteps
    BY <2>3 DEF InsertSteps
  <2> QED  BY <1>q, <2>3, <2>4, <2>5, <2>6, <2>7, QuietKept DEF Stored
<1>2. ASSUME NEW a \in Admins, SnapshotTables(a) \/ SnapshotDocuments(a) \/ SnapshotNodes(a)
      PROVE  Quiet'
  <2>1. job[a] \in SnapJobs /\ job[a].step \in SnapSteps /\ job[a] # NoJob
    BY <1>t, <1>2, <1>n, JobFacts
       DEF SnapshotTables, SnapshotDocuments, SnapshotNodes, Works, SnapSteps
  <2>2. PICK i, j, k : /\ i = [job[a] EXCEPT !.step = "documents", !.data.tabs = live.tabs]
                       /\ j = [job[a] EXCEPT !.step = "nodes", !.data.home = live.home]
                       /\ k = [job[a] EXCEPT !.step = "file", !.at = second,
                                 !.data.pages = {d \in live.pages : job[a].data.home[d] # NoTab}]
    OBVIOUS
  <2>3. /\ i.loaded = job[a].loaded /\ i.step = "documents"
        /\ j.loaded = job[a].loaded /\ j.step = "nodes"
        /\ k.loaded = job[a].loaded /\ k.step = "file"
    BY <2>1, <2>2 DEF SnapJobs
  <2>4. job' \in {[job EXCEPT ![a] = i], [job EXCEPT ![a] = j], [job EXCEPT ![a] = k]}
    BY <1>2, <2>2 DEF SnapshotTables, SnapshotDocuments, SnapshotNodes, Go, Carry
  <2>5. PICK l : /\ job' = [job EXCEPT ![a] = l] /\ l.loaded = job[a].loaded
                 /\ l.step \in {"documents", "nodes", "file"}
    BY <2>3, <2>4
  <2>6. UNCHANGED <<taken, target, index, files, disturbed>>
    BY <1>2 DEF SnapshotTables, SnapshotDocuments, SnapshotNodes, Go
  <2>7. Quiet /\ \A b \in Admins \ {a} : job[b] = NoJob
    BY <1>g, <2>1, <2>6
  <2>8. \A b \in Admins : job[b].step # "index"
    BY <1>n, <2>1, <2>7 DEF SnapSteps
  <2>9. Stored(index.list) /\ job[a].loaded = index
    BY <1>q, <2>1, <2>7, <2>8 DEF Quiet, Snapshotting
  <2>10. l.step \notin InsertSteps /\ l.step \notin {"index", "remove", "open"}
    BY <2>5 DEF InsertSteps
  <2> QED  BY <1>q, <2>5, <2>6, <2>7, <2>9, <2>10, QuietKept DEF Stored
<1>3. ASSUME NEW a \in Admins, SaveFile(a) PROVE Quiet'
  <2>1. job[a] \in SnapJobs /\ job[a].step = "file" /\ job[a] # NoJob
    BY <1>t, <1>3, <1>n, JobFacts DEF SaveFile, Works, SnapSteps
  <2>2. /\ job[a].id \in Ids /\ <<job[a].at, job[a].type>> \in Paths /\ job[a].data \in Content
    BY <2>1 DEF SnapJobs, Paths
  <2>3. PICK path \in Paths : path = <<job[a].at, job[a].type>>
    BY <2>2
  <2>4. PICK i : i = [id |-> job[a].id, path |-> path]
    OBVIOUS
  <2>5. PICK new : new = [list |-> job[a].loaded.list \cup {i},
                          last |-> IF job[a].type = "full" THEN job[a].id ELSE job[a].loaded.last]
    OBVIOUS
  <2>6. PICK j : j = [step |-> "index", new |-> new]
    OBVIOUS
  <2>7. /\ job' = [job EXCEPT ![a] = j]
        /\ files' = [files EXCEPT ![path] = job[a].data]
        /\ taken' = [taken EXCEPT ![job[a].id] = job[a].data]
        /\ files[path] = NoContent /\ ~disturbed
        /\ UNCHANGED <<target, index>>
    BY <1>3, <2>3, <2>4, <2>5, <2>6 DEF SaveFile, Go, Carry
  <2>8. Quiet /\ \A b \in Admins \ {a} : job[b] = NoJob
    BY <1>g, <2>1, <2>7
  <2>9. /\ Stored(index.list) /\ job[a].loaded = index /\ taken[job[a].id] = NoContent
        /\ index.list \in SUBSET Infos
    <3>1. \A b \in Admins : job[b].step # "index"
      BY <1>n, <2>1, <2>8
    <3>2. Snapshotting(a)
      BY <2>1 DEF Snapshotting, SnapSteps
    <3> QED  BY <1>q, <2>8, <3>1, <3>2 DEF Quiet, Numbered
  <2>10. new.list = index.list \cup {i} /\ i.path = path /\ i.id = job[a].id
    BY <2>4, <2>5, <2>9
  <2>11. ASSUME NEW k \in index.list
         PROVE  /\ files'[k.path] = taken'[k.id] /\ taken'[k.id] \in Content /\ k.path # path
    <3>1. k.path \in Paths /\ k.id \in Ids
      BY <2>9 DEF Infos
    <3>2. files[k.path] = taken[k.id] /\ taken[k.id] \in Content
      BY <2>9 DEF Stored
    <3>3. k.path # path /\ k.id # job[a].id
      BY <2>7, <2>9, <3>2, ContentFacts
    <3> QED  BY <1>t, <2>2, <2>7, <3>1, <3>2, <3>3
  <2>12. files'[i.path] = taken'[i.id] /\ taken'[i.id] \in Content
    BY <1>t, <2>2, <2>7, <2>10
  <2>13. \A k \in new.list : /\ files'[k.path] = taken'[k.id] /\ taken'[k.id] \in Content
                             /\ \A l \in new.list : l.path = k.path => l = k
    <3>1. \A k, l \in index.list : l.path = k.path => l = k
      BY <2>9 DEF Stored
    <3> QED  BY <2>10, <2>11, <2>12, <3>1
  <2>14. j.step = "index" /\ j.new = new /\ j.step \notin SnapSteps /\ j.step \notin InsertSteps
    BY <2>6 DEF SnapSteps, InsertSteps
  <2>15. target'.step = "done" => /\ target'.data = taken'[target'.id] /\ target'.id # 0
                                  /\ target'.data \in Content
    <3> SUFFICES ASSUME target.step = "done"
                 PROVE  target.data = taken'[target.id] /\ target.id # 0 /\ target.data \in Content
      BY <2>7
    <3>1. target.data = taken[target.id] /\ target.id # 0 /\ target.data \in Content
      BY <1>q, <2>8
    <3>2. target.id \in Ids /\ target.id # job[a].id
      BY <1>t, <2>9, <3>1, ContentFacts DEF Targets, Ids
    <3> QED  BY <1>t, <2>7, <3>1, <3>2
  <2>16. index' # Torn
    BY <1>q, <2>7, <2>8
  <2> QED  BY <2>7, <2>8, <2>13, <2>14, <2>15, <2>16, QuietKept
<1>4. ASSUME NEW a \in Admins, SaveIndex(a) PROVE Quiet'
  <2>1. job[a] \in IndexJobs /\ job[a] # NoJob /\ job[a].step = "index"
    BY <1>t, <1>4, <1>n, JobFacts DEF SaveIndex, Works
  <2>2. /\ index' = job[a].new /\ job' = [job EXCEPT ![a] = NoJob]
        /\ UNCHANGED <<target, files, taken, disturbed>>
    BY <1>4 DEF SaveIndex, Go, Carry
  <2>3. Quiet /\ \A b \in Admins \ {a} : job[b] = NoJob
    BY <1>g, <2>1, <2>2
  <2>4. Stored(job[a].new.list) /\ job[a].new # Torn
    BY <2>1, <2>3, ContentFacts DEF Quiet, Works, IndexJobs
  <2> QED  BY <1>n, <1>q, <2>2, <2>3, <2>4, QuietKept DEF Stored
\* Deleting and pruning.
<1>d. ASSUME NEW a \in Admins, NEW rest, NEW last,
             Ask(a, [step |-> "index", new |-> [list |-> rest, last |-> last]]),
             rest \subseteq index.list, files' = Unlink(index.list \ rest),
             UNCHANGED <<target, index>>
      PROVE  Quiet'
  <2>1. PICK new : new = [list |-> rest, last |-> last]
    OBVIOUS
  <2>2. PICK j : j = [step |-> "index", new |-> new]
    OBVIOUS
  <2>3. j.step = "index" /\ j.new.list = rest /\ j.step \notin SnapSteps /\ j.step \notin InsertSteps
    BY <2>1, <2>2 DEF SnapSteps, InsertSteps
  <2>4. /\ Quiet /\ \A b \in Admins : job[b] = NoJob
        /\ \A b \in Admins : job[b].step # "index"
        /\ job' = [job EXCEPT ![a] = j] /\ UNCHANGED taken
    BY <1>d, <2>1, <2>2, <1>a
  <2>5. Stored(index.list) /\ index.list \in SUBSET Infos /\ index # Torn
    BY <1>q, <2>4
  <2>6. \A i \in rest : /\ files'[i.path] = taken'[i.id] /\ taken'[i.id] \in Content
                        /\ \A k \in rest : k.path = i.path => k = i
    <3>1. PICK list : list = index.list
      OBVIOUS
    <3> QED  BY <1>d, <2>4, <2>5, <3>1, StoredRest
  <2> QED  BY <1>d, <1>q, <2>3, <2>4, <2>5, <2>6, QuietKept
<1>5. ASSUME NEW a \in Admins, DeleteBackup(a) PROVE Quiet'
  <2>1. PICK i \in index.list : /\ files' = Unlink({i})
                                /\ Ask(a, [step |-> "index", new |-> Without({i})])
                                /\ UNCHANGED <<target, index>>
    BY <1>5 DEF DeleteBackup
  <2>2. \E last : Without({i}) = [list |-> index.list \ {i}, last |-> last]
    BY DEF Without
  <2>3. index.list \ (index.list \ {i}) = {i}
    BY <2>1
  <2> QED  BY <1>d, <2>1, <2>2, <2>3
<1>6. ASSUME NEW a \in Admins, Prune(a) PROVE Quiet'
  <2>1. PICK n \in {0, 1} :
          LET rest == Kept(index.list, "full", 1) \cup Kept(index.list, "incr", n)
          IN  /\ files' = Unlink(index.list \ rest)
              /\ Ask(a, [step |-> "index", new |-> [list |-> rest, last |-> LatestFull(rest)]])
              /\ UNCHANGED <<target, index>>
    BY <1>6 DEF Prune
  <2>2. PICK rest : rest = Kept(index.list, "full", 1) \cup Kept(index.list, "incr", n)
    OBVIOUS
  <2>3. rest \subseteq index.list
    BY <2>2 DEF Kept
  <2> QED  BY <1>d, <2>1, <2>2, <2>3
<1>7. ASSUME NEW a \in Admins, RestoreLoad(a) PROVE Quiet'
  <2>1. PICK i \in index.list, overwrite \in BOOLEAN :
          /\ target.step # "none" => overwrite
          /\ Ask(a, [step |-> "remove", id |-> i.id, data |-> files[i.path],
                     overwrite |-> overwrite])
          /\ UNCHANGED <<target, index, files>>
    BY <1>7 DEF RestoreLoad
  <2>2. PICK j : j = [step |-> "remove", id |-> i.id, data |-> files[i.path],
                      overwrite |-> overwrite]
    OBVIOUS
  <2>3. /\ Quiet /\ \A b \in Admins : job[b] = NoJob
        /\ \A b \in Admins : job[b].step # "index"
        /\ job' = [job EXCEPT ![a] = j] /\ UNCHANGED taken
    BY <2>1, <2>2, <1>a
  <2>4. Stored(index.list)
    BY <1>q, <2>3
  <2>5. /\ j.step = "remove" /\ j.data = taken[j.id] /\ (target.step # "none" => j.overwrite)
        /\ j.step \notin SnapSteps /\ j.step \notin InsertSteps
    BY <2>1, <2>2, <2>4 DEF Stored, SnapSteps, InsertSteps
  <2> QED  BY <1>q, <2>1, <2>3, <2>4, <2>5, QuietKept DEF Stored
<1>8. ASSUME NEW a \in Admins, RestoreRemove(a) PROVE Quiet'
  <2>1. PICK j : j = [step |-> "open", id |-> job[a].id, data |-> job[a].data]
    OBVIOUS
  <2>2. /\ job' = [job EXCEPT ![a] = j] /\ job[a].step = "remove" /\ job[a] # NoJob
        /\ UNCHANGED <<index, files, taken, disturbed>>
    BY <1>8, <1>n, <2>1 DEF RestoreRemove, Works, Go, Carry
  <2>3. Quiet /\ \A b \in Admins \ {a} : job[b] = NoJob
    BY <1>g, <2>2
  <2>4. job[a].data = taken[job[a].id] /\ (target.step # "none" => job[a].overwrite)
    BY <2>2, <2>3 DEF Quiet, Works
  <2>5. target' = NoTarget
    BY <1>8, <1>q, <2>3, <2>4 DEF RestoreRemove
  <2>6. Stored(index.list)
    BY <1>n, <1>q, <2>2, <2>3
  <2>7. /\ j.step = "open" /\ j.data = taken[j.id]
        /\ j.step \notin SnapSteps /\ j.step \notin InsertSteps /\ NoTarget.step # "done"
    BY <2>1, <2>4 DEF SnapSteps, InsertSteps, NoTarget
  <2> QED  BY <1>q, <2>2, <2>3, <2>5, <2>6, <2>7, QuietKept DEF Stored
<1>9. ASSUME NEW a \in Admins, RestoreOpen(a) PROVE Quiet'
  <2>1. job[a] \in OpenJobs /\ job[a].step = "open" /\ job[a] # NoJob
    BY <1>t, <1>9, <1>n, JobFacts DEF RestoreOpen, Works
  <2>2. UNCHANGED <<index, files, taken, disturbed>>
    BY <1>9 DEF RestoreOpen
  <2>3. Quiet /\ \A b \in Admins \ {a} : job[b] = NoJob
    BY <1>g, <2>1, <2>2
  <2>4. job[a].data = taken[job[a].id] /\ target = NoTarget /\ job[a].id # 0
    BY <2>1, <2>3 DEF Quiet, Works, OpenJobs, Ids
  <2>5. target.by = {} /\ target.data = Empty
    BY <2>4 DEF NoTarget
  <2>6. PICK j : j = [step |-> "insertTables", data |-> job[a].data]
    OBVIOUS
  <2>7. /\ job' = [job EXCEPT ![a] = j]
        /\ target' = [step |-> "begun", id |-> job[a].id, by |-> {a}, data |-> Empty]
    BY <1>9, <2>5, <2>6 DEF RestoreOpen, Go, Carry
  <2>8. /\ target'.step = "begun" /\ target'.id = job[a].id /\ target'.by = {a}
        /\ target'.data = Empty
    BY <2>7
  <2>9. /\ j.step = "insertTables" /\ j.data = job[a].data /\ j.step \notin SnapSteps
        /\ Restored("insertTables", j.data) = Empty
    BY <2>6, RestoredFacts DEF SnapSteps
  <2>10. Stored(index.list)
    BY <1>n, <1>q, <2>1, <2>3
  <2> QED  BY <1>q, <2>2, <2>3, <2>4, <2>7, <2>8, <2>9, <2>10, QuietKept DEF Stored
<1>10. ASSUME NEW a \in Admins, Restore(a) PROVE Quiet'
  <2> DEFINE data == job[a].data
  <2>1. job[a] \in InsertJobs /\ job[a].step \in InsertSteps /\ job[a] # NoJob
    BY <1>t, <1>10, <1>n, JobFacts DEF Restore, Works, InsertSteps
  <2>2. UNCHANGED <<index, files, taken, disturbed>>
    BY <1>10 DEF Restore
  <2>3. Quiet /\ \A b \in Admins \ {a} : job[b] = NoJob
    BY <1>g, <2>1, <2>2
  <2>4. /\ target.by = {a} /\ target.step = "begun" /\ target.id # 0 /\ data = taken[target.id]
        /\ target.data = Restored(job[a].step, data)
    BY <2>1, <2>3 DEF Quiet, Inserting
  <2>5. data \in Content /\ data.home \in [BDocs -> BTabs \cup {NoTab}]
    BY <2>1, ContentFacts DEF InsertJobs
  <2>6. Stored(index.list)
    <3>1. job[a].step # "index"
      BY <2>1 DEF InsertSteps
    <3> QED  BY <1>n, <1>q, <2>3, <3>1
  <2>7. PICK i, k : /\ i = [job[a] EXCEPT !.step = "insertDocuments"]
                    /\ k = [job[a] EXCEPT !.step = "insertNodes"]
    OBVIOUS
  <2>8. /\ i.step = "insertDocuments" /\ i.data = data /\ i.step \notin SnapSteps
        /\ k.step = "insertNodes" /\ k.data = data /\ k.step \notin SnapSteps
    BY <2>1, <2>7 DEF InsertJobs, SnapSteps
  <2>9. CASE job[a].step = "insertTables"
    <3>1. target.data = Empty
      BY <2>4, <2>9, RestoredFacts
    <3>2. target.data.tabs = {}
      BY <3>1 DEF Empty
    <3>3. /\ target' = [target EXCEPT !.data.tabs = @ \cup data.tabs]
          /\ job' = [job EXCEPT ![a] = i]
      BY <1>10, <2>7, <2>9, <3>2 DEF Restore, Works, Go, Carry
    <3>4. /\ target'.by = {a} /\ target'.step = "begun" /\ target'.id = target.id
          /\ target'.data = [target.data EXCEPT !.tabs = @ \cup data.tabs]
      BY <1>t, <2>4, <3>3 DEF Targets
    <3>5. target'.data = [Empty EXCEPT !.tabs = data.tabs]
      BY <3>1, <3>2, <3>4
    <3>6. target'.data = Restored("insertDocuments", data)
      BY <3>5, RestoredFacts
    <3> QED  BY <1>q, <2>2, <2>3, <2>4, <2>6, <2>8, <3>3, <3>4, <3>6, QuietKept DEF Stored
  <2>10. CASE job[a].step = "insertDocuments"
    <3>1. target.data = [Empty EXCEPT !.tabs = data.tabs]
      BY <2>4, <2>10, RestoredFacts
    <3>2. \/ /\ target' = [target EXCEPT !.data.home = Over(data.home, @, BDocs)]
             /\ job' = [job EXCEPT ![a] = k]
          \/ /\ \E ds : target' = [target EXCEPT !.by = {}, !.data.home = Over(data.home, @, ds)]
             /\ job' = [job EXCEPT ![a] = NoJob]
      BY <1>10, <2>7, <2>10 DEF Restore, Works, Go, Carry
    <3>3. ASSUME target' = [target EXCEPT !.data.home = Over(data.home, @, BDocs)],
                 job' = [job EXCEPT ![a] = k]
          PROVE  Quiet'
      <4>1. /\ target'.by = {a} /\ target'.step = "begun" /\ target'.id = target.id
            /\ target'.data = [target.data EXCEPT !.home = Over(data.home, target.data.home, BDocs)]
        BY <1>t, <2>4, <3>3 DEF Targets
      <4>2. target.data.home = [d \in BDocs |-> NoTab]
        BY <3>1 DEF Empty
      <4>3. Over(data.home, target.data.home, BDocs) = data.home
        BY <2>5, <4>2 DEF Over
      <4>4. target'.data = [Empty EXCEPT !.tabs = data.tabs, !.home = data.home]
        BY <3>1, <4>1, <4>3
      <4>5. target'.data = Restored("insertNodes", data)
        BY <4>4, RestoredFacts
      <4> QED  BY <1>q, <2>2, <2>3, <2>4, <2>6, <2>8, <3>3, <4>1, <4>5, QuietKept DEF Stored
    <3>4. ASSUME NEW ds, target' = [target EXCEPT !.by = {}, !.data.home = Over(data.home, @, ds)],
                 job' = [job EXCEPT ![a] = NoJob]
          PROVE  Quiet'
      <4>1. target'.step = "begun"
        BY <1>t, <2>4, <3>4 DEF Targets
      <4> QED  BY <1>n, <1>q, <2>2, <2>3, <2>6, <3>4, <4>1, QuietKept DEF Stored
    <3> QED  BY <3>2, <3>3, <3>4
  <2>11. CASE job[a].step = "insertNodes"
    <3>1. target.data = [Empty EXCEPT !.tabs = data.tabs, !.home = data.home]
      BY <2>4, <2>11, RestoredFacts
    <3>2. /\ target' = [target EXCEPT !.step = "done", !.by = {}, !.data.pages = @ \cup data.pages]
          /\ job' = [job EXCEPT ![a] = NoJob]
      BY <1>10, <2>11 DEF Restore, Works, Go, Carry
    <3>3. /\ target'.id = target.id
          /\ target'.data = [target.data EXCEPT !.pages = @ \cup data.pages]
      BY <1>t, <3>2 DEF Targets
    <3>4. target'.data = [tabs |-> data.tabs, home |-> data.home, pages |-> data.pages]
      <4>1. target.data = [tabs |-> data.tabs, home |-> data.home, pages |-> {}]
        BY <3>1 DEF Empty
      <4> QED  BY <3>3, <4>1
    <3>5. target'.data = data
      BY <2>5, <3>4 DEF Content
    <3> QED  BY <1>n, <1>q, <2>2, <2>3, <2>4, <2>5, <2>6, <3>2, <3>3, <3>5, QuietKept DEF Stored
  <2> QED  BY <2>1, <2>9, <2>10, <2>11 DEF InsertSteps
<1>11. ASSUME NEW a \in Admins, RestoreUnlinked(a) PROVE Quiet'
  <2>1. job[a].step \in InsertSteps /\ target.by # {a} /\ ~disturbed
    BY <1>11 DEF RestoreUnlinked, Works, InsertSteps
  <2>2. Quiet
    BY <1>g, <1>n, <2>1
  <2> QED  BY <2>1, <2>2 DEF Quiet, Inserting
<1>12. ASSUME NEW a \in Admins, Export(a) PROVE Quiet'
  <2>1. Ask(a, NoJob) /\ UNCHANGED <<target, index, files>>
    BY <1>12 DEF Export
  <2>2. /\ Quiet /\ \A b \in Admins : job[b] = NoJob
        /\ \A b \in Admins : job[b].step # "index"
        /\ job' = [job EXCEPT ![a] = NoJob] /\ UNCHANGED taken
    <3>1. PICK j : j = NoJob
      OBVIOUS
    <3> QED  BY <1>a, <2>1, <3>1
  <2>3. Stored(index.list)
    BY <1>q, <2>2
  <2> QED  BY <1>n, <1>q, <2>1, <2>2, <2>3, QuietKept DEF Stored
<1>13. CASE Write \/ Tick \/ (\E a \in Admins : Import(a)) \/ UNCHANGED backupVars
  <2>1. UNCHANGED <<target, files, index, job, taken, disturbed>>
    BY <1>13 DEF Write, Tick, Import, backupVars
  <2>2. Quiet
    BY <2>1 DEF Undisturbed
  <2> QED
    BY <2>1, <2>2 DEF Quiet, Works, Snapshotting, Inserting, Stored
<1>14. CASE BackupsCrash
  BY <1>14 DEF BackupsCrash
<1> QED
  BY <1>1, <1>2, <1>3, <1>4, <1>5, <1>6, <1>7, <1>8, <1>9, <1>10, <1>11, <1>12, <1>13, <1>14
     DEF BackupsNext

\* Initially nobody is at work and nothing is listed.
LEMMA UndisturbedInit == BackupsInit => Undisturbed
<1> SUFFICES ASSUME BackupsInit PROVE Quiet
  BY DEF Undisturbed
<1>1. /\ \A a \in Admins : job[a] = NoJob
      /\ index = [list |-> {}, last |-> 0] /\ target = NoTarget
  BY DEF BackupsInit
<1>2. index # Torn /\ index.list = {} /\ target.step # "done"
  BY <1>1 DEF Torn, NoTarget
<1>3. /\ NoJob.step \notin SnapSteps /\ NoJob.step \notin InsertSteps
      /\ NoJob.step \notin {"index", "remove", "open"}
  BY DEF NoJob, SnapSteps, InsertSteps
<1> QED  BY <1>1, <1>2, <1>3 DEF Quiet, Works, Snapshotting, Inserting, Stored
-----------------------------------------------------------------------------
\* The model's variables keep their types, so also the ids and paths of backups
\* their bounds.
THEOREM BackupsTypeCorrect == BackupsSpec => []BackupsTypeOK
<1>1. BackupsTyped => BackupsTypeOK
  BY DEF BackupsTyped
<1> QED  BY <1>1, BackupsTypedAlways, PTL

\* The backup index on disk names a listed full backup, or none when there is
\* none, whatever operations overlap and overwrite it; when no operations
\* overlapped, were cut off or shared a file name, every listed backup has the
\* snapshot that was taken for it on disk.
THEOREM BackupIndexesAreSound == BackupsSpec => []BackupIndexSound
<1>1. BackupsInit => BackupsTyped /\ IndexesSound /\ Numbered /\ Undisturbed
  BY BackupsTypedInit, IndexesSoundInit, NumberedInit, UndisturbedInit
<1>2. BackupsTyped /\ IndexesSound /\ Numbered /\ Undisturbed /\ [BackupsNext]_backupVars =>
        (BackupsTyped /\ IndexesSound /\ Numbered /\ Undisturbed)'
  BY BackupsTypedStep, IndexesSoundStep, NumberedStep, UndisturbedStep
<1>3. IndexesSound /\ Undisturbed => BackupIndexSound
  BY DEF IndexesSound, NamesLastFull, Undisturbed, Quiet, Stored, BackupIndexSound
<1> QED  BY <1>1, <1>2, <1>3, PTL DEF BackupsSpec

\* A restore that reports success leaves documents with tables and nodes with
\* documents, whatever was written during the snapshot and whoever else restored
\* to the same target; undisturbed, it leaves the snapshot that was taken.
THEOREM RestoresAreFaithful == BackupsSpec => []RestoreIsFaithful
<1>1. BackupsInit => BackupsTyped /\ TargetSound /\ Numbered /\ Undisturbed
  BY BackupsTypedInit, TargetSoundInit, NumberedInit, UndisturbedInit
<1>2. BackupsTyped /\ TargetSound /\ Numbered /\ Undisturbed /\ [BackupsNext]_backupVars =>
        (BackupsTyped /\ TargetSound /\ Numbered /\ Undisturbed)'
  BY BackupsTypedStep, TargetSoundStep, NumberedStep, UndisturbedStep
<1>3. TargetSound /\ Undisturbed => RestoreIsFaithful
  BY DEF TargetSound, Housed, Linked, Undisturbed, Quiet, RestoreIsFaithful
<1> QED  BY <1>1, <1>2, <1>3, PTL DEF BackupsSpec
-----------------------------------------------------------------------------
(***************************************************************************)
(* Plugins in the ingestion pipeline                                       *)
(***************************************************************************)

\* The plugin stages alone.
StagesSpec == StagesInit /\ [][StagesNext]_stageVars

StageNames == {"discover", "extract", "process", "chunk", "summarize", "done", "failed", "panicked"}

Documents ==
  [stage : StageNames, source : Sources, by : Plugs \cup {NoPlug}, through : Seq(Plugs), at : Nat,
   chunker : Plugs \cup {NoPlug}, summary : [PlugNodes -> Plugs \cup {NoPlug}]]

StagesTyped ==
  /\ manifest \in [Plugs -> Manifests] /\ unread \subseteq Plugs
  /\ strays \subseteq Plugs /\ gaveError \subseteq Plugs
  /\ registry \in Seq(Plugs) /\ doc \in Documents

\* The registry lists every plugin read so far that loads once, higher priorities first.
RegistrySound ==
  /\ Distinct(registry)
  /\ Listed(registry) = {p \in Plugs \ unread : manifest[p].loads}
  /\ \A i, j \in DOMAIN registry :
       i < j => manifest[registry[i]].priority >= manifest[registry[j]].priority

Passed == {i \in ByKind("post_processor") : i <= doc.at}

\* A document in the chain went through the processors up to its position, in their order.
ThroughSound ==
  /\ Listed(doc.through) = {registry[i] : i \in Passed}
  /\ \A k, l \in DOMAIN doc.through : \A i, j \in Passed :
       k < l /\ doc.through[k] = registry[i] /\ doc.through[l] = registry[j] => i < j

\* What is known of the document on the way to the stages that StagesUseTheBest speaks of.
OnTheWay ==
  /\ doc.stage # "discover" => unread = {}
  /\ doc.stage = "extract" => doc.source # "text"
  /\ doc.stage \in {"discover", "extract"} => doc.at = 0 /\ doc.through = <<>>
  /\ doc.stage = "process" =>
       ThroughSound /\ (doc.source # "text" => doc.by \in Top(Fit("extractor", doc.source)))
  /\ doc.stage \in {"discover", "extract", "process", "chunk"} => doc.chunker = NoPlug

StagesInv == StagesTyped /\ RegistrySound /\ OnTheWay /\ StagesUseTheBest
-----------------------------------------------------------------------------
\* Finitely many positions have a least one.
LEMMA LeastExists ==
  ASSUME NEW n \in Nat, NEW S \in SUBSET (0..n), S # {}
  PROVE  \E i \in S : \A j \in S : i <= j
<1> DEFINE Under(i) == {k \in 0..n : k < i}
           T == {Under(i) : i \in S}
<1>1. IsWellFoundedOn(StrictSubsetOrdering(0..n), SUBSET (0..n))
  <2>1. IsFiniteSet(0..n)
    BY FS_Interval
  <2> QED
    BY <2>1, FS_StrictSubsetOrderingWellFounded, FS_FiniteSubsetsOfFinite
<1>2. T \subseteq SUBSET (0..n) /\ T # {}
  OBVIOUS
<1>3. PICK x \in T : \A y \in T : <<y, x>> \notin StrictSubsetOrdering(0..n)
  <2> HIDE DEF T
  <2> QED
    BY <1>1, <1>2, WFMin
<1>4. PICK i \in S : x = Under(i)
  BY <1>3
<1>5. \A j \in S : i <= j
  <2> SUFFICES ASSUME NEW j \in S, j < i PROVE FALSE
    OBVIOUS
  <2>1. Under(j) \subseteq Under(i) /\ j \in Under(i) /\ j \notin Under(j)
    OBVIOUS
  <2>2. <<Under(j), Under(i)>> \in StrictSubsetOrdering(0..n)
    BY <2>1 DEF StrictSubsetOrdering
  <2> QED
    BY <1>3, <1>4, <2>2
<1> QED
  BY <1>5

\* The registry as a function of its positions.
LEMMA RegistryFacts ==
  ASSUME StagesTyped
  PROVE  /\ Len(registry) \in Nat /\ DOMAIN registry = 1..Len(registry)
         /\ \A i \in DOMAIN registry : registry[i] \in Plugs
         /\ \A p \in Plugs : manifest[p] \in Manifests /\ manifest[p].priority \in Nat
<1>1. ASSUME NEW m \in Manifests PROVE m.priority \in Nat
  <2>1. m.priority \in {1, 2}
    <3>1. CASE m \in [kind : {"extractor"}, priority : {1, 2}, loads : {TRUE},
                      handles : {{"file"}, {"url"}, {"file", "url"}}]
      BY <3>1
    <3>2. CASE m \in [kind : Kinds \ {"extractor"}, priority : {1, 2}, loads : {TRUE}, handles : {{}}]
      BY <3>2
    <3>3. CASE m \in [kind : {"extractor"}, priority : {2}, loads : {FALSE}, handles : {{"file"}}]
      BY <3>3
    <3> QED
      BY <3>1, <3>2, <3>3 DEF Manifests
  <2> QED
    BY <2>1
<1> QED
  BY <1>1, LenProperties DEF StagesTyped

\* The foremost of some positions is one of them, and no plugin listed at them outranks the one there.
LEMMA ForemostIsTop ==
  ASSUME StagesTyped, RegistrySound, NEW is \in SUBSET DOMAIN registry, is # {}
  PROVE  /\ Foremost(is) \in is /\ \A i \in is : Foremost(is) <= i
         /\ registry[Foremost(is)] \in Plugs
         /\ registry[Foremost(is)] \in Top({registry[i] : i \in is})
<1>1. /\ Len(registry) \in Nat /\ DOMAIN registry = 1..Len(registry)
      /\ \A i \in DOMAIN registry : registry[i] \in Plugs /\ manifest[registry[i]].priority \in Nat
  BY RegistryFacts
<1>2. is \in SUBSET (0..Len(registry))
  BY <1>1
<1>3. \E i \in is : \A j \in is : i <= j
  BY <1>1, <1>2, LeastExists
<1>4. Foremost(is) \in is /\ \A i \in is : Foremost(is) <= i
  BY <1>3 DEF Foremost
<1>5. \A i \in is : manifest[registry[i]].priority <= manifest[registry[Foremost(is)]].priority
  <2> TAKE i \in is
  <2>1. CASE i = Foremost(is)
    BY <1>1, <2>1
  <2>2. CASE Foremost(is) < i
    BY <1>1, <1>4, <2>2 DEF RegistrySound
  <2> QED
    BY <1>1, <1>4, <2>1, <2>2
<1> QED
  BY <1>1, <1>4, <1>5 DEF Top

\* Once every subdirectory is read, the positions that a stage looks at list the plugins fit for it.
LEMMA ListedAreFit ==
  ASSUME StagesTyped, RegistrySound, unread = {}
  PROVE  /\ \A kind \in Kinds \ {"extractor"} : \A source \in Sources :
              Fit(kind, source) = {registry[i] : i \in ByKind(kind)}
         /\ \A source \in Sources : Fit("extractor", source) = {registry[i] : i \in ExtractorsFor(source)}
         /\ \A kind : ByKind(kind) \subseteq DOMAIN registry
         /\ \A source : ExtractorsFor(source) \subseteq DOMAIN registry
BY RegistryFacts DEF Fit, ByKind, ExtractorsFor, RegistrySound, Listed
-----------------------------------------------------------------------------
\* The plugins of at least some priority are the front of the registry.
LEMMA FrontIsBefore ==
  ASSUME StagesTyped, RegistrySound, NEW p \in Plugs, NEW n, n = Len(registry),
         NEW S, S = {i \in DOMAIN registry : manifest[registry[i]].priority >= manifest[p].priority}
  PROVE  Cardinality(S) \in 0..n /\ S = 1..Cardinality(S)
<1> DEFINE K == {k \in 0..n : \A i \in 1..n : i > k => i \notin S}
<1>1. /\ n \in Nat /\ DOMAIN registry = 1..n /\ S \subseteq 1..n
      /\ \A i \in 1..n : registry[i] \in Plugs /\ manifest[registry[i]].priority \in Nat
      /\ manifest[p].priority \in Nat
  BY RegistryFacts
<1>2. n \in K
  BY <1>1
<1>3. PICK k \in K : \A j \in K : k <= j
  <2>1. K \in SUBSET (0..n) /\ K # {}
    BY <1>2
  <2> HIDE DEF K
  <2> QED
    BY <1>1, <2>1, LeastExists
<1>4. k = 0 \/ k \in S
  <2> SUFFICES ASSUME k # 0, k \notin S PROVE FALSE
    OBVIOUS
  <2>1. k \in 0..n /\ \A i \in 1..n : i > k => i \notin S
    OBVIOUS
  <2>2. k - 1 \in 0..n /\ \A i \in 1..n : i > k - 1 => i \notin S
    BY <1>1, <2>1
  <2>3. k <= k - 1
    BY <1>3, <2>2
  <2> QED
    BY <2>1, <2>3
<1>5. \A i \in 1..k : i \in S
  <2> TAKE i \in 1..k
  <2>1. k \in S /\ k \in 1..n /\ i \in 1..n
    BY <1>1, <1>4
  <2>2. CASE i = k
    BY <2>1, <2>2
  <2>3. CASE i < k
    <3>1. manifest[registry[i]].priority >= manifest[registry[k]].priority
      BY <1>1, <2>1, <2>3 DEF RegistrySound
    <3> QED
      BY <1>1, <2>1, <3>1
  <2> QED
    BY <1>1, <2>2, <2>3
<1>6. S = 1..k
  BY <1>1, <1>5
<1>7. Cardinality(1..k) = k
  BY <1>1, FS_Interval
<1> QED
  BY <1>1, <1>6, <1>7

\* A plugin is put behind those of at least its priority, and before the others.
LEMMA RegisterFacts ==
  ASSUME StagesTyped, RegistrySound, NEW p \in Plugs, p \notin Listed(registry)
  PROVE  /\ Register(p) \in Seq(Plugs)
         /\ Distinct(Register(p)) /\ Listed(Register(p)) = Listed(registry) \cup {p}
         /\ \A i, j \in DOMAIN Register(p) :
              i < j => manifest[Register(p)[i]].priority >= manifest[Register(p)[j]].priority
<1>a. PICK n : n = Len(registry)
  OBVIOUS
<1>b. PICK S : S = {i \in DOMAIN registry : manifest[registry[i]].priority >= manifest[p].priority}
  OBVIOUS
<1>c. PICK b : b = Cardinality(S)
  OBVIOUS
<1>1. b \in 0..n /\ S = 1..b /\ n \in Nat
  BY <1>a, <1>b, <1>c, FrontIsBefore, RegistryFacts
<1>2. /\ registry \in Seq(Plugs) /\ DOMAIN registry = 1..n
      /\ \A i \in 1..n : registry[i] \in Plugs /\ manifest[registry[i]].priority \in Nat
      /\ manifest[p].priority \in Nat
  BY <1>a, RegistryFacts DEF StagesTyped
<1>d. PICK r : r = Register(p)
  OBVIOUS
<1>3. r = SubSeq(registry, 1, b) \o <<p>> \o SubSeq(registry, b + 1, n)
  BY <1>a, <1>b, <1>c, <1>d DEF Register
<1>4. /\ SubSeq(registry, 1, b) \in Seq(Plugs) /\ Len(SubSeq(registry, 1, b)) = b
      /\ \A i \in 1..b : SubSeq(registry, 1, b)[i] = registry[i]
  <2>1. \A i \in 1..b : registry[i] \in Plugs
    BY <1>1, <1>2
  <2> QED
    BY <1>1, <2>1, SubSeqProperties
<1>5. /\ SubSeq(registry, b + 1, n) \in Seq(Plugs) /\ Len(SubSeq(registry, b + 1, n)) = n - b
      /\ \A i \in 1..(n - b) : SubSeq(registry, b + 1, n)[i] = registry[b + i]
  <2>1. \A i \in (b + 1)..n : registry[i] \in Plugs
    BY <1>1, <1>2
  <2>2. b + 1 \in Int /\ n \in Int /\ n - (b + 1) + 1 = n - b /\ \A i \in 1..(n - b) : (b + 1) + i - 1 = b + i
    BY <1>1
  <2> QED
    BY <1>1, <2>1, <2>2, SubSeqProperties
<1>6. /\ r \in Seq(Plugs) /\ Len(r) = n + 1
      /\ \A i \in 1..(n + 1) : r[i] = IF i <= b THEN registry[i] ELSE IF i = b + 1 THEN p ELSE registry[i - 1]
  <2>a. PICK s : s = SubSeq(registry, 1, b)
    OBVIOUS
  <2>b. PICK t : t = SubSeq(registry, b + 1, n)
    OBVIOUS
  <2>1. s \in Seq(Plugs) /\ Len(s) = b /\ t \in Seq(Plugs) /\ Len(t) = n - b
    BY <1>4, <1>5, <2>a, <2>b
  <2>2. <<p>> \in Seq(Plugs) /\ Len(<<p>>) = 1 /\ <<p>>[1] = p
    OBVIOUS
  <2>3. /\ s \o <<p>> \in Seq(Plugs) /\ Len(s \o <<p>>) = b + 1
        /\ \A i \in 1..(b + 1) : (s \o <<p>>)[i] = IF i <= b THEN s[i] ELSE <<p>>[i - b]
    BY <2>1, <2>2, ConcatProperties
  <2>4. /\ r \in Seq(Plugs) /\ Len(r) = (b + 1) + (n - b)
        /\ \A i \in 1..((b + 1) + (n - b)) : r[i] = IF i <= b + 1 THEN (s \o <<p>>)[i] ELSE t[i - (b + 1)]
    <3>1. r = (s \o <<p>>) \o t
      BY <1>3, <2>a, <2>b
    <3>2. PICK u : u = s \o <<p>>
      OBVIOUS
    <3>3. u \in Seq(Plugs) /\ Len(u) = b + 1 /\ t \in Seq(Plugs) /\ Len(t) = n - b /\ r = u \o t
      BY <2>1, <2>3, <3>1, <3>2
    <3>4. /\ u \o t \in Seq(Plugs) /\ Len(u \o t) = Len(u) + Len(t)
          /\ \A i \in 1..(Len(u) + Len(t)) : (u \o t)[i] = IF i <= Len(u) THEN u[i] ELSE t[i - Len(u)]
      BY <3>3, ConcatProperties
    <3> QED
      BY <3>2, <3>3, <3>4
  <2>5. (b + 1) + (n - b) = n + 1
    BY <1>1
  <2>6. ASSUME NEW i \in 1..(n + 1)
        PROVE  r[i] = IF i <= b THEN registry[i] ELSE IF i = b + 1 THEN p ELSE registry[i - 1]
    <3>1. CASE i <= b
      <4>1. i \in 1..b /\ i \in 1..(b + 1) /\ i <= b + 1
        BY <1>1, <3>1
      <4> QED
        BY <1>4, <2>a, <2>3, <2>4, <2>5, <3>1, <4>1
    <3>2. CASE i = b + 1
      <4>1. i \in 1..(b + 1) /\ i <= b + 1 /\ ~(i <= b) /\ i - b = 1
        BY <1>1, <3>2
      <4> QED
        BY <2>2, <2>3, <2>4, <2>5, <3>2, <4>1
    <3>3. CASE i > b + 1
      <4>1. ~(i <= b) /\ i # b + 1 /\ ~(i <= b + 1) /\ i - (b + 1) \in 1..(n - b) /\ b + (i - (b + 1)) = i - 1
        BY <1>1, <3>3
      <4> QED
        BY <1>5, <2>b, <2>4, <2>5, <4>1
    <3> QED
      BY <1>1, <3>1, <3>2, <3>3
  <2> QED
    BY <2>4, <2>5, <2>6
<1> DEFINE was(i) == IF i <= b THEN i ELSE i - 1
<1>7. /\ DOMAIN r = 1..(n + 1) /\ b + 1 \in 1..(n + 1) /\ r[b + 1] = p
      /\ \A i \in 1..(n + 1) : i # b + 1 => was(i) \in 1..n /\ r[i] = registry[was(i)]
  BY <1>1, <1>6
<1>8. \A j \in 1..n : \E i \in 1..(n + 1) : i # b + 1 /\ was(i) = j
  <2> TAKE j \in 1..n
  <2>1. CASE j <= b
    BY <1>1, <2>1
  <2>2. CASE j > b
    <3>1. j + 1 \in 1..(n + 1) /\ j + 1 # b + 1 /\ was(j + 1) = j
      BY <1>1, <2>2
    <3> QED
      BY <3>1
  <2> QED
    BY <1>1, <2>1, <2>2
<1>9. \A i, j \in 1..(n + 1) : i # b + 1 /\ j # b + 1 /\ i < j => was(i) < was(j)
  BY <1>1
<1>10. \A j \in 1..n : registry[j] # p
  BY <1>2 DEF Listed
<1> HIDE DEF was
<1>11. Listed(r) = Listed(registry) \cup {p}
  <2>1. \A x : x \in Listed(r) => x \in Listed(registry) \cup {p}
    BY <1>2, <1>7 DEF Listed
  <2>2. \A x : x \in Listed(registry) => x \in Listed(r)
    BY <1>2, <1>7, <1>8 DEF Listed
  <2>3. p \in Listed(r)
    BY <1>7 DEF Listed
  <2> QED
    BY <2>1, <2>2, <2>3
<1>12. Distinct(r)
  <2> SUFFICES ASSUME NEW i \in 1..(n + 1), NEW j \in 1..(n + 1), i < j PROVE r[i] # r[j]
    BY <1>1, <1>7 DEF Distinct
  <2>1. CASE i = b + 1 \/ j = b + 1
    BY <1>7, <1>10, <2>1
  <2>2. CASE i # b + 1 /\ j # b + 1
    BY <1>2, <1>7, <1>9, <2>2 DEF RegistrySound, Distinct
  <2> QED
    BY <2>1, <2>2
<1>13. ASSUME NEW i \in 1..(n + 1), NEW j \in 1..(n + 1), i < j
       PROVE  manifest[r[i]].priority >= manifest[r[j]].priority
  <2>1. CASE i = b + 1
    <3>1. j # b + 1 /\ was(j) \in 1..n /\ was(j) \notin S
      BY <1>1, <1>7, <1>13, <2>1 DEF was
    <3>2. ~(manifest[registry[was(j)]].priority >= manifest[p].priority)
      BY <1>2, <1>b, <3>1
    <3> QED
      BY <1>2, <1>7, <2>1, <3>1, <3>2
  <2>2. CASE j = b + 1
    <3>1. i # b + 1 /\ was(i) \in S
      BY <1>1, <1>7, <1>13, <2>2 DEF was
    <3> QED
      BY <1>2, <1>b, <1>7, <2>2, <3>1
  <2>3. CASE i # b + 1 /\ j # b + 1
    BY <1>2, <1>7, <1>9, <1>13, <2>3 DEF RegistrySound
  <2> QED
    BY <2>1, <2>2, <2>3
<1> QED
  BY <1>d, <1>6, <1>7, <1>11, <1>12, <1>13
-----------------------------------------------------------------------------
\* A plugin that loads joins the registry; one that does not leaves it alone.
LEMMA DiscoverStep == StagesInv /\ Discover => StagesInv'
<1> SUFFICES ASSUME StagesInv, Discover PROVE StagesInv'
  OBVIOUS
<1>1. PICK p \in unread :
        /\ unread' = unread \ {p}
        /\ registry' = IF manifest[p].loads THEN Register(p) ELSE registry
        /\ UNCHANGED <<manifest, doc, strays, gaveError>>
  BY DEF Discover
<1>2. StagesTyped /\ RegistrySound /\ p \in Plugs /\ p \notin Listed(registry) /\ doc.stage = "discover"
  BY <1>1 DEF StagesInv, StagesTyped, RegistrySound, OnTheWay
<1>3. StagesTyped' /\ RegistrySound'
  <2>1. CASE manifest[p].loads
    <3>1. registry' = Register(p) /\ manifest' = manifest
      BY <1>1, <2>1
    <3>2. StagesTyped'
      BY <1>1, <1>2, <3>1, RegisterFacts DEF StagesTyped
    <3>3. Distinct(registry') /\ Listed(registry') = Listed(registry) \cup {p}
      BY <1>2, <3>1, RegisterFacts
    <3>4. Listed(registry') = {q \in Plugs \ unread' : manifest'[q].loads}
      BY <1>1, <1>2, <2>1, <3>3 DEF RegistrySound
    <3>5. \A i, j \in DOMAIN registry' :
            i < j => manifest'[registry'[i]].priority >= manifest'[registry'[j]].priority
      BY <1>2, <3>1, RegisterFacts
    <3> QED
      BY <3>2, <3>3, <3>4, <3>5 DEF RegistrySound, Listed, Distinct
  <2>2. CASE ~manifest[p].loads
    BY <1>1, <1>2, <2>2 DEF StagesTyped, RegistrySound, Listed, Distinct
  <2> QED
    BY <2>1, <2>2
<1>4. OnTheWay' /\ StagesUseTheBest'
  BY <1>1, <1>2 DEF StagesInv, OnTheWay, StagesUseTheBest
<1> QED
  BY <1>3, <1>4 DEF StagesInv

\* A step of a document leaves the registry alone; errors are never forgotten.
LEMMA AdvanceFacts ==
  ASSUME StagesInv, NEW d \in Documents, Advance(d), strays' \subseteq Plugs, gaveError' \subseteq Plugs
  PROVE  /\ StagesTyped' /\ RegistrySound' /\ doc' = d
         /\ \A kind : \A source : Fit(kind, source)' = Fit(kind, source)
         /\ \A ps : Top(ps)' = Top(ps)
BY DEF StagesInv, StagesTyped, RegistrySound, Advance, Listed, Distinct, Fit, Top

\* A call leaves its result in the history.
LEMMA InvokeFacts ==
  ASSUME StagesTyped, NEW p \in Plugs, NEW result, Invoke(p, result)
  PROVE  /\ strays' \subseteq Plugs /\ gaveError' \subseteq Plugs /\ gaveError \subseteq gaveError'
         /\ result # "ok" => p \in gaveError'
BY DEF StagesTyped, Invoke

\* A panic of the task leaves a document that no stage goes on with.
LEMMA Panicked ==
  ASSUME StagesInv, doc.stage # "discover", NEW p \in Plugs, Invoke(p, "panic"),
         Advance([doc EXCEPT !.stage = "panicked"])
  PROVE  StagesInv'
<1> PICK d : d = [doc EXCEPT !.stage = "panicked"]
  OBVIOUS
<1>1. d \in Documents /\ d.stage = "panicked"
  BY DEF StagesInv, StagesTyped, Documents, StageNames
<1>2. StagesTyped' /\ RegistrySound' /\ doc' = d
  BY <1>1, AdvanceFacts, InvokeFacts DEF StagesInv
<1>3. OnTheWay' /\ StagesUseTheBest'
  BY <1>1, <1>2 DEF StagesInv, OnTheWay, StagesUseTheBest, Advance
<1> QED
  BY <1>2, <1>3 DEF StagesInv

\* A document is accepted.
LEMMA AcceptSourceStep == StagesInv /\ (\E source \in Sources : AcceptSource(source)) => StagesInv'
<1> SUFFICES ASSUME StagesInv, NEW source \in Sources, AcceptSource(source) PROVE StagesInv'
  OBVIOUS
<1> PICK d : d = [doc EXCEPT !.source = source, !.stage = IF source = "text" THEN "process" ELSE "extract"]
  OBVIOUS
<1>1. unread = {} /\ doc.stage = "discover" /\ Advance(d) /\ NotInvoked
  BY DEF AcceptSource
<1>2. d \in Documents
  BY DEF StagesInv, StagesTyped, Documents, StageNames
<1>3. /\ StagesTyped' /\ RegistrySound' /\ doc' = d /\ unread' = {}
  BY <1>1, <1>2, AdvanceFacts DEF StagesInv, StagesTyped, NotInvoked, Advance
<1>4. d.at = 0 /\ d.through = <<>> /\ d.chunker = NoPlug /\ d.source = source
      /\ d.stage = (IF source = "text" THEN "process" ELSE "extract")
  BY <1>1 DEF StagesInv, OnTheWay, StagesTyped, Documents
<1>5. ThroughSound'
  <2>1. Passed' = {}
    BY <1>3, <1>4, RegistryFacts DEF Passed, ByKind, Advance, StagesTyped
  <2> QED
    BY <1>3, <1>4, <2>1 DEF ThroughSound, Listed
<1>6. OnTheWay'
  BY <1>3, <1>4, <1>5 DEF OnTheWay
<1>7. StagesUseTheBest'
  BY <1>3, <1>4 DEF StagesUseTheBest
<1> QED
  BY <1>3, <1>6, <1>7 DEF StagesInv

\* The first extractor makes the document, or the document fails.
LEMMA ExtractStep == StagesInv /\ Extract => StagesInv'
<1> SUFFICES ASSUME StagesInv, Extract PROVE StagesInv'
  OBVIOUS
<1> PICK fit : fit = ExtractorsFor(doc.source)
  OBVIOUS
<1> PICK first : first = registry[Foremost(fit)]
  OBVIOUS
<1>1. /\ doc.stage = "extract" /\ unread = {} /\ doc.source \in Sources /\ doc.source # "text"
      /\ doc.at = 0 /\ doc.through = <<>> /\ doc.chunker = NoPlug /\ doc \in Documents
      /\ StagesTyped /\ RegistrySound
  BY DEF StagesInv, OnTheWay, StagesTyped, Documents, Extract
<1>2. /\ Fit("extractor", doc.source) = {registry[i] : i \in fit} /\ fit \subseteq DOMAIN registry
  BY <1>1, ListedAreFit
<1>3. fit # {} => first \in Plugs /\ first \in Top(Fit("extractor", doc.source))
  BY <1>1, <1>2, ForemostIsTop
<1>4. CASE Advance([doc EXCEPT !.stage = "failed"]) /\ (fit = {} \/ first \in gaveError') /\ strays' \subseteq Plugs
           /\ gaveError' \subseteq Plugs
  <2> PICK d : d = [doc EXCEPT !.stage = "failed"]
    OBVIOUS
  <2>1. d \in Documents /\ d.stage = "failed" /\ d.source = doc.source
    BY <1>1 DEF Documents, StageNames
  <2>2. /\ StagesTyped' /\ RegistrySound' /\ doc' = d
        /\ \A kind, source : Fit(kind, source)' = Fit(kind, source)
        /\ \A ps : Top(ps)' = Top(ps)
    BY <1>4, <2>1, AdvanceFacts
  <2>3. OnTheWay'
    BY <1>1, <1>4, <2>1, <2>2 DEF OnTheWay, Advance
  <2>4. StagesUseTheBest'
    BY <1>1, <1>2, <1>3, <1>4, <2>1, <2>2 DEF StagesUseTheBest
  <2> QED
    BY <2>2, <2>3, <2>4 DEF StagesInv
<1>5. CASE fit # {} /\ Invoke(first, "ok") /\ Advance([doc EXCEPT !.stage = "process", !.by = first])
  <2> PICK d : d = [doc EXCEPT !.stage = "process", !.by = first]
    OBVIOUS
  <2>1. /\ d \in Documents /\ d.stage = "process" /\ d.source = doc.source /\ d.by = first
        /\ d.at = 0 /\ d.through = <<>> /\ d.chunker = NoPlug
    BY <1>1, <1>3, <1>5 DEF Documents, StageNames
  <2>2. /\ StagesTyped' /\ RegistrySound' /\ doc' = d /\ unread' = {}
        /\ \A kind, source : Fit(kind, source)' = Fit(kind, source)
        /\ \A ps : Top(ps)' = Top(ps)
    BY <1>1, <1>3, <1>5, <2>1, AdvanceFacts, InvokeFacts DEF Advance
  <2>3. ThroughSound'
    <3>1. Passed' = {}
      BY <2>1, <2>2, RegistryFacts DEF Passed, ByKind, StagesTyped
    <3> QED
      BY <2>1, <2>2, <3>1 DEF ThroughSound, Listed
  <2>4. OnTheWay'
    BY <1>3, <1>5, <2>1, <2>2, <2>3 DEF OnTheWay
  <2>5. StagesUseTheBest'
    BY <2>1, <2>2 DEF StagesUseTheBest
  <2> QED
    BY <2>2, <2>4, <2>5 DEF StagesInv
<1>6. CASE fit = {} /\ Advance([doc EXCEPT !.stage = "failed"]) /\ NotInvoked
  BY <1>1, <1>4, <1>6 DEF NotInvoked, StagesTyped
<1>7. ASSUME NEW result \in {"error", "timeout", "panic"},
             fit # {}, Invoke(first, result), Advance([doc EXCEPT !.stage = "failed"])
      PROVE  StagesInv'
  BY <1>1, <1>3, <1>4, <1>7, InvokeFacts
<1> QED
  BY <1>5, <1>6, <1>7 DEF Extract

\* The next processor of the chain appends its name, or the chain gives the text back as it was.
LEMMA PostProcessStep == StagesInv /\ PostProcess => StagesInv'
<1> SUFFICES ASSUME StagesInv, PostProcess PROVE StagesInv'
  OBVIOUS
<1> PICK all : all = ByKind("post_processor")
  OBVIOUS
<1> PICK left : left = {i \in all : i > doc.at}
  OBVIOUS
<1> PICK next : next = Foremost(left)
  OBVIOUS
<1> PICK p : p = registry[next]
  OBVIOUS
<1>1. /\ doc.stage = "process" /\ unread = {} /\ doc.source \in Sources /\ ThroughSound
      /\ doc.source # "text" => doc.by \in Top(Fit("extractor", doc.source))
      /\ doc.chunker = NoPlug /\ doc \in Documents /\ doc.at \in Nat /\ doc.through \in Seq(Plugs)
      /\ StagesTyped /\ RegistrySound
  BY DEF StagesInv, OnTheWay, StagesTyped, Documents, PostProcess
<1>2. /\ Fit("post_processor", doc.source) = {registry[i] : i \in all} /\ all \subseteq DOMAIN registry
      /\ Len(registry) \in Nat /\ DOMAIN registry = 1..Len(registry)
      /\ \A i \in DOMAIN registry : registry[i] \in Plugs
  BY <1>1, ListedAreFit, RegistryFacts DEF Kinds
<1>3. left # {} => /\ next \in left /\ (\A i \in left : next <= i) /\ next \in all /\ next > doc.at
                   /\ p \in Plugs /\ p \in Fit("post_processor", doc.source)
  <2>1. left \subseteq all /\ left \subseteq DOMAIN registry
    BY <1>2
  <2> QED
    BY <1>1, <1>2, <2>1, ForemostIsTop
<1>4. Passed = {i \in all : i <= doc.at}
  BY DEF Passed
<1>5. CASE left # {} /\ Invoke(p, "ok") /\ Advance([doc EXCEPT !.through = Append(@, p), !.at = next])
  <2>a. PICK d : d = [doc EXCEPT !.through = Append(doc.through, p), !.at = next]
    OBVIOUS
  <2>b. PICK s : s = doc.through
    OBVIOUS
  <2>c. PICK n : n = Len(s)
    OBVIOUS
  <2>1. /\ n \in Nat /\ DOMAIN s = 1..n /\ Append(s, p) \in Seq(Plugs) /\ DOMAIN Append(s, p) = 1..(n + 1)
        /\ \A k \in 1..n : Append(s, p)[k] = s[k]
        /\ Append(s, p)[n + 1] = p
    <3>1. s \in Seq(Plugs) /\ p \in Plugs
      BY <1>1, <1>3, <1>5, <2>b
    <3> QED
      BY <2>c, <3>1, AppendProperties, LenProperties
  <2>2. /\ d \in Documents /\ d.stage = "process" /\ d.source = doc.source /\ d.by = doc.by
        /\ d.at = next /\ d.through = Append(s, p) /\ d.chunker = NoPlug
    <3>1. next \in Nat
      BY <1>2, <1>3, <1>5
    <3> QED
      BY <1>1, <2>a, <2>b, <2>1, <3>1 DEF Documents
  <2>3. /\ StagesTyped' /\ RegistrySound' /\ doc' = d /\ unread' = {} /\ registry' = registry
        /\ manifest' = manifest
        /\ \A kind, source : Fit(kind, source)' = Fit(kind, source)
        /\ \A ps : Top(ps)' = Top(ps)
    BY <1>1, <1>3, <1>5, <2>a, <2>2, AdvanceFacts, InvokeFacts DEF Advance
  <2>4. Passed' = Passed \cup {next} /\ next \notin Passed
    <3>1. Passed' = {i \in all : i <= next}
      BY <2>2, <2>3 DEF Passed, ByKind
    <3>2. \A i \in all : i <= next <=> i <= doc.at \/ i = next
      <4> SUFFICES ASSUME NEW i \in all PROVE i <= next <=> i <= doc.at \/ i = next
        OBVIOUS
      <4>1. i \in Nat /\ next \in Nat /\ doc.at \in Nat /\ next > doc.at
        BY <1>1, <1>2, <1>3, <1>5
      <4>2. i > doc.at => next <= i
        BY <1>3, <1>5
      <4> QED
        BY <4>1, <4>2
    <3>3. next \in all /\ ~(next <= doc.at)
      BY <1>1, <1>2, <1>3, <1>5
    <3> QED
      BY <1>4, <3>1, <3>2, <3>3
  <2>5. \A k \in 1..n : \A i \in Passed' : s[k] = registry[i] => i \in Passed
    <3> SUFFICES ASSUME NEW k \in 1..n, NEW i \in Passed', s[k] = registry[i] PROVE i \in Passed
      OBVIOUS
    <3>1. PICK j \in Passed : s[k] = registry[j]
      <4>1. s[k] \in Listed(s)
        BY <2>1 DEF Listed
      <4>2. Listed(s) = {registry[j] : j \in Passed}
        BY <1>1, <2>b DEF ThroughSound
      <4> QED
        BY <4>1, <4>2
    <3>2. i \in DOMAIN registry /\ j \in DOMAIN registry
      BY <1>2, <1>3, <1>4, <1>5, <2>4
    <3> QED
      BY <1>1, <3>1, <3>2 DEF RegistrySound, Distinct
  <2>6. Listed(Append(s, p)) = Listed(s) \cup {p}
    <3>1. /\ Listed(Append(s, p)) = {Append(s, p)[k] : k \in 1..(n + 1)}
          /\ Listed(s) = {s[k] : k \in 1..n}
      BY <2>1 DEF Listed
    <3>2. \A k \in 1..(n + 1) : k \in 1..n \/ k = n + 1
      BY <2>1
    <3>3. n + 1 \in 1..(n + 1) /\ \A k \in 1..n : k \in 1..(n + 1)
      BY <2>1
    <3>4. \A x : x \in Listed(Append(s, p)) => x \in Listed(s) \cup {p}
      BY <2>1, <3>1, <3>2
    <3>5. \A x \in Listed(s) : x \in Listed(Append(s, p))
      BY <2>1, <3>1, <3>3
    <3>6. p \in Listed(Append(s, p))
      BY <2>1, <3>1, <3>3
    <3> QED
      BY <3>4, <3>5, <3>6
  <2>7. Listed(doc.through)' = {registry'[i] : i \in Passed'}
    <3>1. Listed(s) = {registry[i] : i \in Passed}
      BY <1>1, <2>b DEF ThroughSound
    <3>2. Listed(doc.through)' = Listed(Append(s, p))
      BY <2>2, <2>3 DEF Listed
    <3> HIDE DEF Passed
    <3>3. {registry'[i] : i \in Passed'} = {registry[i] : i \in Passed} \cup {p}
      BY <2>3, <2>4
    <3> QED
      BY <2>6, <3>1, <3>2, <3>3
  <2>8. ASSUME NEW k \in 1..(n + 1), NEW l \in 1..(n + 1), NEW i \in Passed', NEW j \in Passed',
               k < l, Append(s, p)[k] = registry[i], Append(s, p)[l] = registry[j]
        PROVE  i < j
    <3>1. k \in 1..n /\ s[k] = registry[i] /\ i \in Passed
      BY <2>1, <2>5, <2>8
    <3>2. CASE l \in 1..n
      BY <1>1, <2>b, <2>1, <2>5, <2>8, <3>1, <3>2 DEF ThroughSound
    <3>3. CASE l = n + 1
      <4>1. p = registry[j] /\ j \in DOMAIN registry /\ next \in DOMAIN registry
        BY <1>2, <1>3, <1>4, <1>5, <2>1, <2>4, <2>8, <3>3
      <4>2. j = next
        BY <1>1, <4>1 DEF RegistrySound, Distinct
      <4> QED
        BY <1>1, <1>2, <1>3, <1>4, <1>5, <3>1, <4>2
    <3> QED
      BY <2>1, <3>2, <3>3
  <2>9. ThroughSound'
    <3>1. doc'.through = Append(s, p) /\ DOMAIN doc'.through = 1..(n + 1) /\ registry' = registry
      BY <2>1, <2>2, <2>3
    <3>2. \A k, l \in DOMAIN doc'.through : \A i, j \in Passed' :
            k < l /\ doc'.through[k] = registry'[i] /\ doc'.through[l] = registry'[j] => i < j
      BY <2>8, <3>1
    <3> QED
      BY <2>7, <3>2 DEF ThroughSound
  <2>10. OnTheWay'
    BY <1>1, <2>2, <2>3, <2>9 DEF OnTheWay
  <2>11. StagesUseTheBest'
    BY <2>2, <2>3 DEF StagesUseTheBest
  <2> QED
    BY <2>3, <2>10, <2>11 DEF StagesInv
<1>6. CASE left = {} /\ Advance([doc EXCEPT !.stage = "chunk"]) /\ NotInvoked
  <2> PICK d : d = [doc EXCEPT !.stage = "chunk"]
    OBVIOUS
  <2>1. /\ d \in Documents /\ d.stage = "chunk" /\ d.source = doc.source /\ d.by = doc.by
        /\ d.through = doc.through /\ d.chunker = NoPlug
    BY <1>1 DEF Documents, StageNames
  <2>2. /\ StagesTyped' /\ RegistrySound' /\ doc' = d /\ unread' = {} /\ manifest' = manifest
        /\ \A kind, source : Fit(kind, source)' = Fit(kind, source)
        /\ \A ps : Top(ps)' = Top(ps)
    BY <1>1, <1>6, <2>1, AdvanceFacts DEF NotInvoked, StagesTyped, Advance
  <2>3. OnTheWay'
    BY <2>1, <2>2 DEF OnTheWay
  <2>4. Passed = all
    BY <1>1, <1>2, <1>4, <1>6
  <2>5. Listed(doc.through) = Fit("post_processor", doc.source)
    BY <1>1, <1>2, <2>4 DEF ThroughSound
  <2>6. ASSUME NEW k \in DOMAIN doc.through, NEW l \in DOMAIN doc.through, k < l
        PROVE  /\ doc.through[k] # doc.through[l]
               /\ manifest[doc.through[k]].priority >= manifest[doc.through[l]].priority
    <3>1. PICK i \in Passed : doc.through[k] = registry[i]
      BY <1>1 DEF ThroughSound, Listed
    <3>2. PICK j \in Passed : doc.through[l] = registry[j]
      BY <1>1 DEF ThroughSound, Listed
    <3>3. i < j
      BY <1>1, <2>6, <3>1, <3>2 DEF ThroughSound
    <3>4. i \in DOMAIN registry /\ j \in DOMAIN registry /\ i \in Nat /\ j \in Nat
      BY <1>2, <1>4
    <3> QED
      BY <1>1, <3>1, <3>2, <3>3, <3>4 DEF RegistrySound, Distinct
  <2>7. Distinct(doc.through)
    <3>1. \A k, l \in DOMAIN doc.through : k = l \/ k < l \/ l < k
      BY <1>1, LenProperties
    <3> QED
      BY <2>6, <3>1 DEF Distinct
  <2>8. StagesUseTheBest'
    BY <1>1, <2>1, <2>2, <2>5, <2>6, <2>7 DEF StagesUseTheBest, Listed, Distinct
  <2> QED
    BY <2>2, <2>3, <2>8 DEF StagesInv
<1>7. ASSUME NEW result \in {"error", "timeout"}, left # {}, Invoke(p, result), Advance(ChainFailed)
      PROVE  StagesInv'
  <2>a. PICK d : d = ChainFailed
    OBVIOUS
  <2>1. /\ d \in Documents /\ d.stage = "chunk" /\ d.source = doc.source /\ d.by = doc.by
        /\ d.through = <<>> /\ d.chunker = NoPlug
    <3>1. <<>> \in Seq(Plugs)
      OBVIOUS
    <3> QED
      BY <1>1, <2>a, <3>1 DEF Documents, StageNames, ChainFailed
  <2>2. /\ StagesTyped' /\ RegistrySound' /\ doc' = d /\ unread' = {} /\ p \in gaveError'
        /\ \A kind, source : Fit(kind, source)' = Fit(kind, source)
        /\ \A ps : Top(ps)' = Top(ps)
    BY <1>1, <1>3, <1>7, <2>a, <2>1, AdvanceFacts, InvokeFacts DEF Advance
  <2>3. OnTheWay'
    BY <2>1, <2>2 DEF OnTheWay
  <2>4. StagesUseTheBest'
    BY <1>1, <1>3, <1>7, <2>1, <2>2 DEF StagesUseTheBest
  <2> QED
    BY <2>2, <2>3, <2>4 DEF StagesInv
<1>8. CASE left # {} /\ Invoke(p, "panic") /\ Advance([doc EXCEPT !.stage = "panicked"])
  BY <1>1, <1>3, <1>8, Panicked
<1> QED
  BY <1>5, <1>6, <1>7, <1>8 DEF PostProcess

\* The best chunker makes the chunks, or the pipeline does.
LEMMA ChunkTextStep == StagesInv /\ ChunkText => StagesInv'
<1> SUFFICES ASSUME StagesInv, ChunkText PROVE StagesInv'
  OBVIOUS
<1> PICK own : own = ByKind("chunker")
  OBVIOUS
<1> PICK first : first = registry[Foremost(own)]
  OBVIOUS
<1>1. /\ doc.stage = "chunk" /\ unread = {} /\ doc.source \in Sources
      /\ doc.chunker = NoPlug /\ doc \in Documents
      /\ StagesTyped /\ RegistrySound /\ StagesUseTheBest
  BY DEF StagesInv, OnTheWay, StagesTyped, Documents, ChunkText
<1>2. /\ Fit("chunker", doc.source) = {registry[i] : i \in own} /\ own \subseteq DOMAIN registry
  BY <1>1, ListedAreFit DEF Kinds
<1>3. own # {} => first \in Plugs /\ first \in Top(Fit("chunker", doc.source))
  BY <1>1, <1>2, ForemostIsTop
<1>4. ASSUME NEW d \in Documents, d.stage = "summarize", d.source = doc.source, d.by = doc.by,
             d.through = doc.through, Advance(d), strays' \subseteq Plugs, gaveError' \subseteq Plugs,
             gaveError \subseteq gaveError',
             \/ d.chunker \in Top(Fit("chunker", doc.source))
             \/ d.chunker = NoPlug /\ (own = {} \/ first \in gaveError')
      PROVE  StagesInv'
  <2>1. /\ StagesTyped' /\ RegistrySound' /\ doc' = d /\ unread' = {} /\ manifest' = manifest
        /\ \A kind, source : Fit(kind, source)' = Fit(kind, source)
        /\ \A ps : Top(ps)' = Top(ps)
    BY <1>1, <1>4, AdvanceFacts DEF Advance
  <2>2. OnTheWay'
    BY <1>4, <2>1 DEF OnTheWay
  <2>3. StagesUseTheBest'
    BY <1>1, <1>2, <1>3, <1>4, <2>1 DEF StagesUseTheBest, Listed, Distinct
  <2> QED
    BY <2>1, <2>2, <2>3 DEF StagesInv
<1>5. CASE own = {} /\ Advance([doc EXCEPT !.stage = "summarize"]) /\ NotInvoked
  <2> PICK d : d = [doc EXCEPT !.stage = "summarize"]
    OBVIOUS
  <2>1. /\ d \in Documents /\ d.stage = "summarize" /\ d.source = doc.source /\ d.by = doc.by
        /\ d.through = doc.through /\ d.chunker = NoPlug
    BY <1>1 DEF Documents, StageNames
  <2> QED
    BY <1>1, <1>4, <1>5, <2>1 DEF NotInvoked, StagesTyped
<1>6. CASE own # {} /\ Invoke(first, "ok") /\ Advance([doc EXCEPT !.stage = "summarize", !.chunker = first])
  <2> PICK d : d = [doc EXCEPT !.stage = "summarize", !.chunker = first]
    OBVIOUS
  <2>1. /\ d \in Documents /\ d.stage = "summarize" /\ d.source = doc.source /\ d.by = doc.by
        /\ d.through = doc.through /\ d.chunker = first
    BY <1>1, <1>3, <1>6 DEF Documents, StageNames
  <2> QED
    BY <1>1, <1>3, <1>4, <1>6, <2>1, InvokeFacts
<1>7. ASSUME NEW result \in {"error", "timeout"},
             own # {}, Invoke(first, result), Advance([doc EXCEPT !.stage = "summarize"])
      PROVE  StagesInv'
  <2> PICK d : d = [doc EXCEPT !.stage = "summarize"]
    OBVIOUS
  <2>1. /\ d \in Documents /\ d.stage = "summarize" /\ d.source = doc.source /\ d.by = doc.by
        /\ d.through = doc.through /\ d.chunker = NoPlug
    BY <1>1 DEF Documents, StageNames
  <2> QED
    BY <1>1, <1>3, <1>4, <1>7, <2>1, InvokeFacts
<1>8. CASE own # {} /\ Invoke(first, "panic") /\ Advance([doc EXCEPT !.stage = "panicked"])
  BY <1>1, <1>3, <1>8, Panicked
<1> QED
  BY <1>5, <1>6, <1>7, <1>8 DEF ChunkText

\* The summaries close the document.
LEMMA SummarizeStep == StagesInv /\ Summarize => StagesInv'
<1> SUFFICES ASSUME StagesInv, Summarize PROVE StagesInv'
  OBVIOUS
<1> PICK own : own = ByKind("summarizer")
  OBVIOUS
<1> PICK first : first = registry[Foremost(own)]
  OBVIOUS
<1>1. /\ doc.stage = "summarize" /\ unread = {} /\ doc.source \in Sources /\ doc \in Documents
      /\ StagesTyped /\ RegistrySound /\ StagesUseTheBest
  BY DEF StagesInv, OnTheWay, StagesTyped, Documents, Summarize
<1>2. own # {} => first \in Plugs
  <2>1. own \subseteq DOMAIN registry
    BY DEF ByKind
  <2> QED
    BY <1>1, <2>1, ForemostIsTop
<1>3. ASSUME NEW d \in Documents, d.stage = "done", d.source = doc.source, d.by = doc.by,
             d.through = doc.through, d.chunker = doc.chunker,
             Advance(d), strays' \subseteq Plugs, gaveError' \subseteq Plugs, gaveError \subseteq gaveError'
      PROVE  StagesInv'
  <2>1. /\ StagesTyped' /\ RegistrySound' /\ doc' = d /\ unread' = {} /\ manifest' = manifest
        /\ \A kind, source : Fit(kind, source)' = Fit(kind, source)
        /\ \A ps : Top(ps)' = Top(ps)
    BY <1>1, <1>3, AdvanceFacts DEF Advance
  <2>2. OnTheWay'
    BY <1>3, <2>1 DEF OnTheWay
  <2>3. StagesUseTheBest'
    BY <1>1, <1>3, <2>1 DEF StagesUseTheBest, Listed, Distinct
  <2> QED
    BY <2>1, <2>2, <2>3 DEF StagesInv
<1>4. CASE Advance([doc EXCEPT !.stage = "done"]) /\ NotInvoked
  <2> PICK d : d = [doc EXCEPT !.stage = "done"]
    OBVIOUS
  <2>1. /\ d \in Documents /\ d.stage = "done" /\ d.source = doc.source /\ d.by = doc.by
        /\ d.through = doc.through /\ d.chunker = doc.chunker
    BY <1>1 DEF Documents, StageNames
  <2> QED
    BY <1>1, <1>3, <1>4, <2>1 DEF NotInvoked, StagesTyped
<1>5. ASSUME NEW ns \in SUBSET PlugNodes, NEW result, own # {}, Invoke(first, result),
             Advance([doc EXCEPT !.stage = "done",
                                 !.summary = [n \in PlugNodes |-> IF n \in ns THEN first ELSE NoPlug]])
      PROVE  StagesInv'
  <2> PICK d : d = [doc EXCEPT !.stage = "done",
                               !.summary = [n \in PlugNodes |-> IF n \in ns THEN first ELSE NoPlug]]
    OBVIOUS
  <2>1. /\ d \in Documents /\ d.stage = "done" /\ d.source = doc.source /\ d.by = doc.by
        /\ d.through = doc.through /\ d.chunker = doc.chunker
    BY <1>1, <1>2, <1>5 DEF Documents, StageNames
  <2> QED
    BY <1>1, <1>2, <1>3, <1>5, <2>1, InvokeFacts
<1>6. CASE own # {} /\ Invoke(first, "panic") /\ Advance([doc EXCEPT !.stage = "panicked"])
  BY <1>1, <1>2, <1>6, Panicked
<1> QED
  BY <1>4, <1>5, <1>6 DEF Summarize

\* What the invariant says does not depend on the processes left to themselves.
LEMMA StraysApart ==
  ASSUME StagesInv, UNCHANGED <<manifest, unread, registry, doc, gaveError>>, strays' \subseteq Plugs
  PROVE  StagesInv'
<1>1. StagesTyped'
  BY DEF StagesInv, StagesTyped
<1>2. RegistrySound'
  BY DEF StagesInv, RegistrySound, Listed, Distinct
<1>3. Passed' = Passed /\ \A kind, source : Fit(kind, source)' = Fit(kind, source)
  BY DEF Passed, ByKind, Fit
<1>4. \A ps : Top(ps)' = Top(ps)
  BY DEF Top
<1>5. OnTheWay'
  BY <1>3, <1>4 DEF StagesInv, OnTheWay, ThroughSound, Listed
<1>6. StagesUseTheBest'
  BY <1>3, <1>4 DEF StagesInv, StagesUseTheBest, Listed, Distinct
<1> QED
  BY <1>1, <1>2, <1>5, <1>6 DEF StagesInv

\* A stray process exits.
LEMMA StrayExitsStep == StagesInv /\ StrayExits => StagesInv'
<1> SUFFICES ASSUME StagesInv, StrayExits PROVE StagesInv'
  OBVIOUS
<1>1. UNCHANGED <<manifest, unread, registry, doc, gaveError>> /\ strays' \subseteq Plugs
  BY DEF StrayExits, StagesInv, StagesTyped
<1> QED
  BY <1>1, StraysApart

\* Every step of the stages keeps the invariant.
LEMMA StagesStep == StagesInv /\ [StagesNext]_stageVars => StagesInv'
<1>1. StagesInv /\ UNCHANGED stageVars => StagesInv'
  <2> SUFFICES ASSUME StagesInv, UNCHANGED stageVars PROVE StagesInv'
    OBVIOUS
  <2>1. UNCHANGED <<manifest, unread, registry, doc, gaveError>> /\ strays' \subseteq Plugs
    BY DEF stageVars, StagesInv, StagesTyped
  <2> QED
    BY <2>1, StraysApart
<1> QED
  BY <1>1, DiscoverStep, StrayExitsStep, AcceptSourceStep, ExtractStep, PostProcessStep, ChunkTextStep,
     SummarizeStep DEF StagesNext

\* It holds of an empty registry and a document nobody has seen.
LEMMA StagesStart == StagesInit => StagesInv
<1> SUFFICES ASSUME StagesInit PROVE StagesInv
  OBVIOUS
<1>1. doc = NoDocument /\ doc.stage = "discover" /\ doc.at = 0 /\ doc.through = <<>> /\ doc.chunker = NoPlug
  BY DEF StagesInit, NoDocument
<1>2. doc \in Documents
  BY <1>1 DEF NoDocument, Documents, StageNames, Sources
<1> QED
  BY <1>1, <1>2 DEF StagesInit, StagesInv, StagesTyped, RegistrySound, OnTheWay, StagesUseTheBest, Listed, Distinct

\* The registry lists plugins of the directory, each at most once, and every other variable of the
\* stages has its type.
THEOREM StagesTypeCorrect == StagesSpec => []StagesTypeOK
<1>1. StagesInv => StagesTypeOK
  BY RangeEquality DEF StagesInv, StagesTyped, RegistrySound, StagesTypeOK, Documents, StageNames
<1> QED
  BY <1>1, StagesStart, StagesStep, PTL DEF StagesSpec

\* Whatever the order in which the plugins are found and whichever calls fail: every stage asks the
\* plugins that nobody outranks, and makes do without them only when they fail or there are none.
THEOREM StagesPickTheBest == StagesSpec => []StagesUseTheBest
<1>1. StagesInv => StagesUseTheBest
  BY DEF StagesInv
<1> QED
  BY <1>1, StagesStart, StagesStep, PTL DEF StagesSpec

(***************************************************************************)
(* The control plane: the parts next to each other                         *)
(***************************************************************************)

\* What the parts do next to each other each of them does alone: in every behaviour of MCControl each
\* part starts where it may start, and what another part does leaves it where it is.
THEOREM PartsAreAlone ==
  Spec => ReplicationSpec /\ RaftSpec /\ KeysSpec /\ BackupsSpec /\ StagesSpec
<1>1. Init => ReplicationInit /\ RaftInit /\ KeysInit /\ BackupsInit /\ StagesInit
  BY DEF Init
<1>2. [Next]_vars => /\ [ReplicationNext]_replicationVars /\ [RaftNext]_raftVars /\ [KeysNext]_keyVars
                     /\ [BackupsNext]_backupVars /\ [StagesNext]_stageVars
  <2> SUFFICES ASSUME [Next]_vars
               PROVE  /\ [ReplicationNext]_replicationVars /\ [RaftNext]_raftVars /\ [KeysNext]_keyVars
                      /\ [BackupsNext]_backupVars /\ [StagesNext]_stageVars
    OBVIOUS
  <2>1. CASE UNCHANGED vars
    BY <2>1 DEF vars
  <2>2. CASE Next
    BY <2>2 DEF Next
  <2> QED
    BY <2>1, <2>2
<1> QED
  BY <1>1, <1>2, PTL DEF Spec, ReplicationSpec, RaftSpec, KeysSpec, BackupsSpec, StagesSpec

\* Every variable of the control plane has its type, whichever part runs.
THEOREM ControlTypeCorrect == Spec => []TypeOK
<1>1. ReplicationTypeOK /\ RaftTypeOK /\ KeysTypeOK /\ BackupsTypeOK /\ StagesTypeOK => TypeOK
  BY DEF TypeOK
<1> QED
  BY <1>1, PartsAreAlone, ReplicationTypeCorrect, RaftTypeCorrect, KeysTypeCorrect, BackupsTypeCorrect,
     StagesTypeCorrect, PTL

\* What is proved of the parts alone holds of the control plane: listings of relations agree, replays
\* are harmless, one vote and one leader per term, revoked keys are refused and owners keep one,
\* backup indexes are sound, restores faithful, and the stages use the best plugins.
THEOREM ControlIsSafe ==
  Spec => [](/\ RelationReadsAgree /\ ReplayIsHarmless /\ OneVoteOneLeader /\ RevokedIsRefused
             /\ RotationNeverLocksOut /\ BackupIndexSound /\ RestoreIsFaithful /\ StagesUseTheBest)
<1> QED
  BY PartsAreAlone, RelationListingsAgree, ReplaysAreHarmless, OneVoteOneLeaderHolds, RevokedKeysAreRefused,
     OwnersKeepAKey, BackupIndexesAreSound, RestoresAreFaithful, StagesPickTheBest, PTL
==============================================================================
