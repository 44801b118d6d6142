---------------------------- MODULE ReasonQuery ----------------------------
(***************************************************************************)
(* SELECT ... REASON: routes/query with the query cache, and               *)
(* rql/executor/reason.  A query finds candidate documents, asks the model *)
(* for a reformulation when there are few, filters and ranks them, searches*)
(* them chunk by chunk, and sorts and cuts what was found.  Queries run    *)
(* side by side and share the cache, the health of the retrieval model and *)
(* the documents, which may be deleted meanwhile.  The full-text index and *)
(* the model answer anything; a document's result is the best confidence   *)
(* of its nodes (SearchEngine finds them), with 0 for none.                *)
(***************************************************************************)
EXTENDS LlmRoles, Sequences, SequencesExt, Positions

CONSTANTS
  Clients,       \* queries that run side by side
  Corpus,        \* documents of the table
  Accepts,       \* per client: the documents the equalities of its WHERE clause accept
  Queries,       \* per client: what it may ask, a text, LIMIT and OFFSET
  Texts,         \* texts of REASON clauses; with the table's name the cache's key
  MaxCandidates, \* MAX_CANDIDATES
  MaxConcurrent, \* MAX_CONCURRENT: documents of a chunk
  FewCandidates, \* DECOMP_SKIP_THRESHOLD
  MinTarget, MaxTarget, \* bounds of target_docs
  RankShare, RankSlack, \* documents beyond the target that are not worth a ranking: a share, at least the slack
  GrepFloor,     \* least cap of the structural filter
  CacheSize, CacheTtl,
  MaxQueries,    \* bound: queries asked and models tested
  MaxScore,      \* highest confidence
  Deletable      \* bound: documents that may be deleted

ASSUME ReasonAssumption ==
  /\ IsFiniteSet(Corpus) /\ {MaxConcurrent, MinTarget, MaxTarget, MaxScore, CacheSize} \subseteq Nat
  /\ \A c \in Clients : Queries[c] \subseteq Texts \X Nat \X Nat

VARIABLES
  alive,    \* documents that exist
  query,    \* per client: the query in progress or answered
  cache,    \* text -> entry, for the texts cached
  computed, \* answers computed so far, with their texts
  asked

reasonVars == <<alive, query, cache, computed, asked>>

Fresh == [pc |-> "idle"]

Clamp(n, low, high) == Max({low, Min({n, high})})

(***************************************************************************)
(* The cache                                                               *)
(***************************************************************************)

\* get: an entry unused for longer than the TTL is dropped, a hit extends its life.
Expired(text) == now - cache[text].used > CacheTtl

Hit(text) == text \in DOMAIN cache /\ ~Expired(text)

Without(text) == [k \in DOMAIN cache \ {text} |-> cache[k]]

Oldest == {k \in DOMAIN cache : \A j \in DOMAIN cache : cache[k].used <= cache[j].used}

\* insert: evict_lru first when the cache is full, even if it has the key.
Inserted(text, entry) ==
  LET With(c) == [k \in DOMAIN c \cup {text} |-> IF k = text THEN entry ELSE c[k]]
  IN  IF Cardinality(DOMAIN cache) < CacheSize THEN {With(cache)} ELSE {With(Without(k)) : k \in Oldest}

(***************************************************************************)
(* The route                                                               *)
(***************************************************************************)

Refused == [pc |-> "refused", at |-> now, failed |-> failedAt["retrieval"]]

\* The answer is the page as it was computed, whatever this query's WHERE, LIMIT and OFFSET say.
FromCache(text) == [pc |-> "answered", hit |-> TRUE, text |-> text, page |-> cache[text].page]

\* execute_select_query and its streaming twin up to the candidates: refuse, answer from the cache,
\* or start.
Ask(c, text, limit, offset) ==
  /\ query[c].pc \in {"idle", "answered", "refused"} /\ asked < MaxQueries /\ asked' = asked + 1
  /\ \/ /\ ~IsHealthy("retrieval")
        /\ query' = [query EXCEPT ![c] = Refused] /\ UNCHANGED cache
     \/ /\ IsHealthy("retrieval") /\ Hit(text)
        /\ query' = [query EXCEPT ![c] = FromCache(text)]
        /\ cache' = [cache EXCEPT ![text].used = now]
     \/ /\ IsHealthy("retrieval") /\ ~Hit(text)
        /\ query' = [query EXCEPT ![c] =
             [pc |-> "candidates", text |-> text, limit |-> limit, offset |-> offset]]
        /\ cache' = Without(text)
  /\ UNCHANGED <<alive, computed, healthVars>>

(***************************************************************************)
(* Phases 0 and 1: candidates                                              *)
(***************************************************************************)

\* What an index or filter lookup may return: existing documents, the best of them.
Found(c) == {ds \in SUBSET (alive \cap Accepts[c]) : Cardinality(ds) <= MaxCandidates}

\* A hit is tagged with the number of the query that found it; a scan by filter, when the index has
\* nothing that WHERE accepts, comes without hits.
Tagged(n) == {{n}, {}}

GetCandidates(c) ==
  /\ query[c].pc = "candidates"
  /\ \E ds \in Found(c), hits \in Tagged(0) :
       query' = [query EXCEPT ![c] =
         [pc |-> IF Cardinality(ds) >= FewCandidates THEN "filter" ELSE "decompose", text |-> @.text,
          limit |-> @.limit, offset |-> @.offset, subs |-> 0, hits |-> [d \in ds |-> hits]]]
  /\ UNCHANGED <<alive, cache, computed, asked, healthVars>>

\* The union of the lookups: a document keeps all its hits; the best MAX_CANDIDATES stay.
Merged(q, ds, hits) ==
  LET all == DOMAIN q.hits \cup ds
      Hits(d) == (IF d \in DOMAIN q.hits THEN q.hits[d] ELSE {}) \cup (IF d \in ds THEN hits ELSE {})
  IN  {[q EXCEPT !.pc = "filter", !.subs = 1, !.hits = [d \in kept |-> Hits(d)]] :
         kept \in kSubset(Min({MaxCandidates, Cardinality(all)}), all)}

\* decompose_query of the provider: one reformulation, or none because none is needed or the call failed.
DecomposeQuery == {0, 1}

\* The candidates of the reformulation join the others; a timeout of the call adds none and marks the
\* model.
Decompose(c) ==
  /\ query[c].pc = "decompose"
  /\ \/ \E n \in DecomposeQuery :
          /\ \/ n = 0 /\ query' = [query EXCEPT ![c].pc = "filter"]
             \/ /\ n = 1
                /\ \E ds \in Found(c), hits \in Tagged(1) : \E q \in Merged(query[c], ds, hits) :
                     query' = [query EXCEPT ![c] = q]
          /\ UNCHANGED healthVars
     \/ query' = [query EXCEPT ![c].pc = "filter"] /\ MarkUnhealthy("retrieval")
  /\ UNCHANGED <<alive, cache, computed, asked>>

(***************************************************************************)
(* Phases 2 and 3: the structural filter and the ranking                   *)
(***************************************************************************)

TargetDocs(limit) == Clamp(2 * limit, MinTarget, MaxTarget)

Prefix(s, n) == SubSeq(s, 1, Min({n, Len(s)}))

\* tree_grep: any documents may score, in any order.
TreeGrep(ds) == UNION {SetToSeqs(scored) : scored \in SUBSET ds}

\* apply_tree_grep_filter keeps the documents with a positive score, the best first, up to a cap; a
\* query of stop words only has no terms and keeps all.
GrepCap(limit) == Clamp(3 * TargetDocs(limit), GrepFloor, MaxCandidates)

Filter(c) ==
  /\ query[c].pc = "filter"
  /\ \E s \in TreeGrep(DOMAIN query[c].hits) :
       /\ Len(s) > GrepCap(query[c].limit) => Range(s) = DOMAIN query[c].hits
       /\ query' = [query EXCEPT ![c] =
            [pc |-> "rank", text |-> @.text, limit |-> @.limit, offset |-> @.offset, subs |-> @.subs,
             hits |-> Restrict(@.hits, Range(s)), docs |-> s]]
  /\ UNCHANGED <<alive, cache, computed, asked, healthVars>>

SkipThreshold(limit) == TargetDocs(limit) + Max({TargetDocs(limit) \div RankShare, RankSlack})

Ranked(q, s) ==
  [pc |-> "search", text |-> q.text, limit |-> q.limit, offset |-> q.offset, subs |-> q.subs,
   hits |-> Restrict(q.hits, Range(s)), docs |-> s, at |-> 0, found |-> <<>>, cancel |-> FALSE]

\* rank_documents: the model names documents, those it rates highest are kept.
RankDocuments(q) == {named \in SUBSET Range(q.docs) : Cardinality(named) <= TargetDocs(q.limit)}

\* rank_documents_by_summary: few documents are not ranked; the model names documents and the
\* candidates keep their order; if it fails, or no document has a summary, the first ones are taken.
Rank(c) ==
  LET q == query[c]
      n == TargetDocs(q.limit)
      summarised == {d \in Range(q.docs) : d \in alive}
  IN  /\ q.pc = "rank"
      /\ \/ /\ Len(q.docs) <= SkipThreshold(q.limit) \/ summarised = {}
            /\ query' = [query EXCEPT ![c] = Ranked(q, Prefix(q.docs, n))] /\ UNCHANGED healthVars
         \/ /\ Len(q.docs) > SkipThreshold(q.limit) /\ summarised # {}
            /\ \/ \E named \in RankDocuments(q) :
                    /\ query' = [query EXCEPT ![c] = Ranked(q, Only(q.docs, named))]
                    /\ MarkHealthy("retrieval")
               \/ LET s == Only(q.docs, summarised)
                  IN  query' = [query EXCEPT ![c] = Ranked(q, Prefix(s, n))] /\ MarkUnhealthy("retrieval")
      /\ UNCHANGED <<alive, cache, computed, asked>>

(***************************************************************************)
(* Phase 4: searching the documents                                        *)
(***************************************************************************)

\* Mutant: the threshold is zero for a query without sub-queries.
CancelThresholdZero(q) == q.limit * Min({q.subs, 3})

CancelThreshold(q) == q.limit * Clamp(q.subs, 1, 3)

\* What searching a document may find: nothing once it is deleted.  A document with hits of the
\* original query, or with no hits at all, is searched for it; one with hits of the reformulation
\* for that; an error of either search finds nothing.
Verdicts(d) == IF d \in alive THEN 0..MaxScore ELSE {0}

DocumentResult(q, d, primary, supplementary) ==
  Max({IF 0 \in q.hits[d] \/ q.hits[d] = {} THEN primary ELSE 0,
       IF 1 \in q.hits[d] THEN supplementary ELSE 0})

\* The documents searched together.
Together(q) == SubSeq(q.docs, q.at + 1, Min({q.at + MaxConcurrent, Len(q.docs)}))

\* Those that match, in order.
Matches(q, p, s) ==
  LET result(d) == DocumentResult(q, d, p[d], s[d])
      more == Only(Together(q), {d \in Range(Together(q)) : result(d) > 0})
  IN  [i \in DOMAIN more |-> <<more[i], result(more[i])>>]

\* The flag that stops further chunks is raised once enough documents were found.
Continued(q, new) ==
  [q EXCEPT !.at = @ + Len(Together(q)), !.found = @ \o new,
            !.cancel = new # <<>> /\ Len(q.found \o new) >= CancelThreshold(q)]

SearchChunk(c) ==
  LET q == query[c]
  IN  /\ q.pc = "search" /\ ~q.cancel /\ q.at < Len(q.docs)
      /\ \E p, s \in [Range(Together(q)) -> 0..MaxScore] :
           /\ \A d \in Range(Together(q)) :
                /\ p[d] \in Verdicts(d) /\ s[d] \in Verdicts(d)
                /\ 1 \notin q.hits[d] => s[d] = 0
           /\ query' = [query EXCEPT ![c] = Continued(q, Matches(q, p, s))]
      /\ UNCHANGED <<alive, cache, computed, asked, healthVars>>

\* should_terminate_early asks for twice as many as the flag: the loop has always stopped before.
Searched(q) == q.pc = "search" /\ (q.cancel \/ q.at = Len(q.docs))

ByConfidence(s) ==
  {m \in SetToSeqs(Range(s)) : \A i, j \in DOMAIN m : i < j => m[i][2] >= m[j][2]}

\* apply_pagination
ResultPage(q, s) == SubSeq(s, q.offset + 1, Min({q.offset + q.limit, Len(s)}))

\* What the cache keeps of an answer.
Entry(page) == [page |-> page, used |-> now]

\* Sort, cut, save a trace (a failure is only logged), put the answer into the cache.  The streaming
\* route does the same in a task of its own, whether or not the client is still there.
Finish(c) ==
  LET q == query[c]
  IN  /\ Searched(q)
      /\ \E s \in ByConfidence(q.found) :
           LET page == ResultPage(q, s)
           IN  /\ query' = [query EXCEPT ![c] =
                    [pc |-> "answered", hit |-> FALSE, text |-> q.text, limit |-> q.limit,
                     offset |-> q.offset, page |-> page, total |-> Len(s), unsearched |-> Len(q.docs) - q.at]]
               /\ cache' \in Inserted(q.text, Entry(page))
               /\ computed' = computed \cup {<<q.text, page>>}
      /\ UNCHANGED <<alive, asked, healthVars>>

\* The query fails or its task panics, or the client of the route that does not stream goes away:
\* nothing is cached.
Abort(c) ==
  /\ query[c].pc \notin {"idle", "answered", "refused"}
  /\ query' = [query EXCEPT ![c] = Fresh]
  /\ UNCHANGED <<alive, cache, computed, asked, healthVars>>

DeleteDocument(d) ==
  /\ d \in alive /\ alive' = alive \ {d}
  /\ UNCHANGED <<query, cache, computed, asked, healthVars>>

ReasonInit ==
  /\ alive = Corpus /\ query = [c \in Clients |-> Fresh] /\ cache = <<>>
  /\ computed = {} /\ asked = 0

ReasonNext ==
  \/ \E c \in Clients :
       \/ \E q \in Queries[c] : Ask(c, q[1], q[2], q[3])
       \/ GetCandidates(c) \/ Decompose(c) \/ Filter(c) \/ Rank(c) \/ SearchChunk(c) \/ Finish(c)
       \/ Abort(c)
  \/ \E d \in Deletable : DeleteDocument(d)
  \/ /\ TestLlmConfig("retrieval") /\ asked < MaxQueries /\ asked' = asked + 1
     /\ UNCHANGED <<alive, query, cache, computed>>
  \/ Tick /\ UNCHANGED reasonVars

(***************************************************************************)
(* Properties                                                              *)
(***************************************************************************)

ReasonTypeOK ==
  /\ alive \subseteq Corpus /\ DOMAIN cache \subseteq Texts /\ Cardinality(DOMAIN cache) <= CacheSize
  /\ \A c \in Clients : query[c].pc \in {"idle", "candidates", "decompose", "filter", "rank", "search",
                                         "answered", "refused"}

\* Stopping early costs a query nothing of its first page: a computed answer without OFFSET has as
\* many documents as LIMIT asks, or every ranked document was searched and each that matched is there.
EarlyStopKeepsFirstPage ==
  \A c \in Clients :
    query[c].pc = "answered" /\ ~query[c].hit /\ query[c].offset = 0 =>
      /\ IsInjective(query[c].page)
      /\ Len(query[c].page) < query[c].limit =>
           query[c].unsearched = 0 /\ query[c].total = Len(query[c].page)

\* An answer from the cache is one that was computed for the same text, and a query is refused only
\* while a failure less than the cooldown ago has seen no success since.
HitsAndRefusalsAreJustified ==
  \A c \in Clients :
    /\ query[c].pc = "answered" => <<query[c].text, query[c].page>> \in computed
    /\ query[c].pc = "refused" => query[c].failed # 0 /\ query[c].at - query[c].failed < Cooldown
=============================================================================
