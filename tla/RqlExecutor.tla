----------------------------- MODULE RqlExecutor -----------------------------
(***************************************************************************)
(* rql/executor: SELECT, UPDATE and DELETE against the documents of one    *)
(* table.  A SELECT takes its candidates from the metadata index where the *)
(* WHERE clause has equalities, and filters them afterwards; UPDATE and    *)
(* DELETE filter every document.  A document is its value of one metadata  *)
(* key and its tags.  Statements run one after the other here: DocStore    *)
(* interleaves the transactions they are made of.                          *)
(***************************************************************************)
EXTENDS Naturals, Sequences, FiniteSets, FiniteSetsExt, SequencesExt

CONSTANTS
  QDocs,        \* documents of the table
  Tags,         \* tags
  Gone,         \* stands for a deleted document
  Missing,      \* stands for a metadata key that a document does not have
  MaxStatements \* bound: statements executed

VARIABLES
  rows,   \* DOCUMENTS_TABLE: the document, or Gone
  metaIdx,\* IDX_METADATA: pairs of an index key and a document
  texts,  \* documents the full-text index has: deleting a document by RQL leaves it there
  answer, \* the last SELECT and what it returned
  executed

execVars == <<rows, metaIdx, texts, answer, executed>>

(***************************************************************************)
(* Values.  JSON keeps integers and floats apart, an RQL number is a float *)
(***************************************************************************)

Json == {<<"string", 1>>, <<"integer", 1>>, <<"float", 1>>, <<"object", 0>>, <<"null", 0>>}

\* The index key of a metadata value prints the number as JSON does: 1 and 1.0 are two keys.
MetadataKey(json) == json

\* json_to_value: objects are not supported as values and read as NULL.
JsonToValue(json) ==
  CASE json[1] \in {"integer", "float"} -> <<"number", json[2]>>
    [] json[1] = "object" -> <<"null", 0>>
    [] OTHER -> json

ToJson(value) == IF value[1] = "number" THEN <<"float", value[2]>> ELSE value

Document == [meta : Json \cup {<<Missing>>}, tags : SUBSET Tags]

\* get_field_value of metadata.key: None when the document does not have the key.
FieldValue(doc) == IF doc.meta = <<Missing>> THEN <<Missing>> ELSE JsonToValue(doc.meta)

ASSUME RqlAssumption == IsFiniteSet(QDocs) /\ Gone \notin Document /\ MaxStatements \in Nat

Present(d) == rows[d] # Gone

IndexEntries(d, doc) ==
  IF doc = Gone \/ doc.meta = <<Missing>> THEN {} ELSE {<<MetadataKey(doc.meta), d>>}

(***************************************************************************)
(* WHERE                                                                   *)
(***************************************************************************)

Comparisons ==
  [op : {"="}, right : {<<"number", 1>>}] \cup [op : {"<"}, right : {<<"number", 2>>}]
    \cup [op : {"=", "!="}, right : {<<"string", 1>>}]
    \cup [op : {"="}, right : {<<"null", 0>>}]
    \cup [op : {"in"}, right : {<<<<"string", 1>>, <<"number", 1>>>>}]
    \cup [op : {"is null"}]
    \cup [op : {"contains any", "contains all"}, right : {Tags}]

Conditions ==
  Comparisons
    \cup [op : {"and", "or"}, left : Comparisons, second : Comparisons]
    \cup [op : {"not"}, left : Comparisons]

MatchesComparison(doc, c) ==
  LET v == FieldValue(doc)
  IN  CASE c.op = "="  -> v = c.right
        [] c.op = "!=" -> v # c.right
        [] c.op = "<"  -> v[1] = "number" /\ v[2] < c.right[2]
        [] c.op = "in" -> v \in Range(c.right)
        [] c.op = "is null" -> v = <<Missing>>
        [] c.op = "contains all" -> c.right \subseteq doc.tags
        [] c.op = "contains any" -> c.right \cap doc.tags # {}

MatchesCondition(doc, c) ==
  CASE c.op = "and" -> MatchesComparison(doc, c.left) /\ MatchesComparison(doc, c.second)
    [] c.op = "or"  -> MatchesComparison(doc, c.left) \/ MatchesComparison(doc, c.second)
    [] c.op = "not" -> ~MatchesComparison(doc, c.left)
    [] OTHER -> MatchesComparison(doc, c)

\* The equalities a document must satisfy; to_search_filter looks into AND only.
Equalities(c) ==
  CASE c.op = "and" -> {x \in {c.left, c.second} : x.op = "="}
    [] c.op = "=" -> {c}
    [] OTHER -> {}

\* Mutant: the filter looks into OR as well.
SearchFilterOr(c) ==
  LET es == IF c.op = "or" THEN {x \in {c.left, c.second} : x.op = "="} ELSE Equalities(c)
  IN  IF es = {} THEN {} ELSE {IF c.op \in {"and", "or"} /\ c.second \in es THEN c.second
                               ELSE CHOOSE x \in es : TRUE}

\* One entry for the metadata key: the last equality written replaces the others.
SearchFilter(c) ==
  LET es == Equalities(c)
  IN  IF es = {} THEN {} ELSE {IF c.op = "and" /\ c.second \in es THEN c.second
                               ELSE CHOOSE x \in es : TRUE}

\* find_documents with the filter: the table's documents that the index lists under every key.
FindDocuments(filter) ==
  {d \in QDocs : Present(d) /\ \A e \in filter : <<MetadataKey(ToJson(e.right)), d>> \in metaIdx}

(***************************************************************************)
(* SELECT                                                                  *)
(***************************************************************************)

\* compare_json_sort_values: missing values last, values of two types are equal.
Before(a, b) ==
  LET x == rows[a].meta
      y == rows[b].meta
      Kind(j) == IF j[1] \in {"integer", "float"} THEN "number" ELSE j[1]
  IN  \/ y = <<Missing>> /\ x # <<Missing>>
      \/ /\ x # <<Missing>> /\ y # <<Missing>> /\ Kind(x) = Kind(y) /\ Kind(x) \in {"number", "string"}
         /\ x[2] < y[2]

Orders(ds) == SetToSeqs(ds)

InOrder(s, order) ==
  \A i, j \in DOMAIN s : i < j =>
    CASE order = "asc"  -> ~Before(s[j], s[i])
      [] order = "desc" -> ~Before(s[i], s[j])
      [] OTHER -> TRUE

\* The order the documents come in is that of a hash set, or of the scores; a sort by a relation
\* that is not an order leaves any arrangement.
Arranged(ds, order) ==
  LET good == {s \in Orders(ds) : InOrder(s, order)} IN IF good = {} THEN Orders(ds) ELSE good

\* skip and take
Page(s, limit) == IF limit = <<>> THEN s ELSE SubSeq(s, limit[2] + 1, Min({limit[2] + limit[1], Len(s)}))

\* COUNT(*) by the metadata key; documents without it are a group of their own.
Groups(s) ==
  LET Key(d) == FieldValue(rows[d])
  IN  [k \in {Key(d) : d \in Range(s)} |-> Cardinality({d \in Range(s) : Key(d) = k})]

\* apply_projection: SELECT * shows the document, SELECT metadata.key its value, null when missing.
Projected(d, fields) ==
  IF fields = "all" THEN rows[d]
  ELSE [meta |-> IF rows[d].meta = <<Missing>> THEN <<"null", 0>> ELSE rows[d].meta]

\* The clauses of a SELECT besides WHERE.
Plain == [search |-> FALSE, related |-> QDocs, order |-> "none", limit |-> <<>>, kind |-> "documents",
          fields |-> "all"]

Shapes ==
  {Plain,
   [Plain EXCEPT !.search = TRUE, !.order = "asc", !.fields = "meta"],
   [Plain EXCEPT !.order = "asc", !.limit = <<1, 1>>],
   [Plain EXCEPT !.order = "desc", !.limit = <<1, 0>>],
   [Plain EXCEPT !.kind = "groups"],
   [Plain EXCEPT !.kind = "explain", !.limit = <<1, 0>>]}
  \cup {[Plain EXCEPT !.search = TRUE, !.related = {d}, !.limit = <<2, 0>>] : d \in QDocs}

NoAnswer == [kind |-> "none"]

\* build_query_plan: a step for every clause, in this order.
PlanSteps(q) ==
  LET Step(present, name) == IF present THEN <<name>> ELSE <<>>
  IN  <<"TableScan">> \o Step(q.search, "BM25Search") \o <<"Filter">>
        \o Step(q.kind = "groups", "GroupBy") \o Step(q.kind = "groups", "Aggregate")
        \o Step(q.order # "none", "Sort") \o Step(q.limit # <<>>, "Limit")

\* analyze_condition_indexes compares the first segment of a path: metadata.key is "metadata", which
\* is no indexed field, so that EXPLAIN never names the index that a metadata equality is served by.
IndexesUsed(c, q) ==
  LET leaves == IF c.op \in {"and", "or"} THEN {c.left, c.second} ELSE IF c.op = "not" THEN {c.left} ELSE {c}
  IN  {"idx_table_docs"} \cup (IF q.search THEN {"bm25_full_text"} ELSE {})
        \cup (IF \E x \in leaves : x.op \in {"contains any", "contains all"} THEN {"idx_tag_docs"} ELSE {})

\* The candidates: those the full-text index finds and that still exist, or those of the filter.
Candidates(c, q) ==
  q.related \cap (IF q.search THEN {d \in texts : Present(d)} ELSE FindDocuments(SearchFilter(c)))

Select(c, q) ==
  LET found == {d \in Candidates(c, q) : MatchesCondition(rows[d], c)}
  IN  \E s \in Arranged(found, IF q.search THEN "none" ELSE q.order) :
        /\ answer' =
             [kind |-> q.kind, where |-> c, query |-> q,
              total |-> IF q.kind = "explain" THEN 0 ELSE Len(s),
              page |-> IF q.kind = "documents" THEN Page(s, q.limit) ELSE <<>>,
              shown |-> IF q.kind = "documents"
                        THEN [i \in DOMAIN Page(s, q.limit) |-> Projected(Page(s, q.limit)[i], q.fields)]
                        ELSE <<>>,
              plan |-> IF q.kind = "explain" THEN <<PlanSteps(q), IndexesUsed(c, q)>> ELSE <<>>,
              groups |-> IF q.kind = "groups" THEN Groups(s) ELSE <<>>]
        /\ UNCHANGED <<rows, metaIdx, texts>>

(***************************************************************************)
(* UPDATE and DELETE                                                       *)
(***************************************************************************)

Matching(c) == {d \in QDocs : Present(d) /\ MatchesCondition(rows[d], c)}

\* apply_assignments, then update_document for every row.
Assignments == [field : {"metadata"}, value : {<<"number", 1>>, <<"string", 1>>, <<"null", 0>>}]
                 \cup [field : {"tags"}, value : SUBSET Tags]

Assigned(doc, a) ==
  IF a.field = "tags" THEN [doc EXCEPT !.tags = a.value] ELSE [doc EXCEPT !.meta = ToJson(a.value)]

\* unindex_document_in_txn of the old values, index_document_in_txn of the new ones
Reindexed(ds, new) ==
  metaIdx' = (metaIdx \ UNION {IndexEntries(d, rows[d]) : d \in ds})
               \cup UNION {IndexEntries(d, new[d]) : d \in ds}

Update(c, a) ==
  LET ds  == Matching(c)
      new == [d \in QDocs |-> IF d \in ds THEN Assigned(rows[d], a) ELSE rows[d]]
  IN  /\ rows' = new /\ Reindexed(ds, new)
      /\ answer' = NoAnswer /\ UNCHANGED texts

Delete(c) ==
  LET ds  == Matching(c)
      new == [d \in QDocs |-> IF d \in ds THEN Gone ELSE rows[d]]
  IN  /\ rows' = new /\ Reindexed(ds, new)
      /\ answer' = NoAnswer /\ UNCHANGED texts

\* execute_query.  A SELECT ends the behaviour: it changes nothing that a later statement could see.
ExecuteQuery ==
  /\ answer = NoAnswer
  /\ executed < MaxStatements /\ executed' = executed + 1
  /\ \/ \E c \in Conditions, q \in Shapes : Select(c, q)
     \/ \E c \in Comparisons, a \in Assignments : Update(c, a)
     \/ \E c \in Comparisons : Delete(c)

ExecInit ==
  /\ rows \in [QDocs -> Document]
  /\ metaIdx = UNION {IndexEntries(d, rows[d]) : d \in QDocs}
  /\ texts = QDocs /\ answer = NoAnswer /\ executed = 0

ExecSpec == ExecInit /\ [][ExecuteQuery]_execVars

(***************************************************************************)
(* Properties                                                              *)
(***************************************************************************)

ExecTypeOK ==
  /\ rows \in [QDocs -> Document \cup {Gone}]
  /\ metaIdx \subseteq (Json \X QDocs) /\ texts \subseteq QDocs
  /\ executed \in 0..MaxStatements

\* The rows a SELECT is about: the documents its WHERE and RELATED clauses accept.
Meant(a) ==
  {d \in a.query.related : Present(d) /\ MatchesCondition(rows[d], a.where)
                             /\ (a.query.search => d \in texts)}

\* The answer accounts for these rows and no others: the total, the groups of an aggregate, and a
\* page with no row twice and no more rows than its limit allows.
Accounts(a, meant) ==
  /\ a.kind # "explain" => a.total = Cardinality(meant)
  /\ a.kind = "groups" =>
       /\ \A k \in DOMAIN a.groups : a.groups[k] = Cardinality({d \in meant : FieldValue(rows[d]) = k})
       /\ \A d \in meant : FieldValue(rows[d]) \in DOMAIN a.groups
  /\ a.kind = "documents" =>
       /\ IsInjective(a.page) /\ Range(a.page) \subseteq meant
       /\ a.query.limit = <<>> => Range(a.page) = meant
       /\ a.query.limit # <<>> =>
            Len(a.page) = Max({0, Min({a.query.limit[1], Cardinality(meant) - a.query.limit[2]})})

\* A value that the index and the filter read alike: neither a number nor NULL.
IndexReadsAlike(c) == \A e \in SearchFilter(c) : e.right[1] = "string"

\* Taking candidates from the metadata index changes no answer: a SELECT whose indexed equalities
\* compare with strings returns the documents that WHERE accepts, whatever UPDATE and DELETE
\* statements ran before.
SelectIsExact ==
  answer # NoAnswer /\ (answer.query.search \/ IndexReadsAlike(answer.where))
    => Accounts(answer, Meant(answer))

\* "Query by metadata using RQL: ... WHERE metadata.quarter = 'Q1' AND metadata.year = 2026"
\* (docs/guides/tables.mdx:294): a SELECT returns the documents that WHERE accepts, numbers included,
\* those a DELETE with the same WHERE deletes.
SelectFindsWhatDeleteDeletes == answer # NoAnswer => Accounts(answer, Meant(answer))
=============================================================================
