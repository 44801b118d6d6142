---------------------------- MODULE SearchEngine ----------------------------
(***************************************************************************)
(* engine.rs: the search of one document.  A traversal starts at the root; *)
(* at each inner node the model selects children, whose traversals run     *)
(* side by side and share the list of results.  Where only leaves remain,  *)
(* one call verifies them together.  The fast path verifies the nodes that *)
(* the full-text index found and traverses nothing.  The model answers     *)
(* anything: unknown nodes, the same node twice, an error.                 *)
(***************************************************************************)
EXTENDS Integers, Sequences, FiniteSets, FiniteSetsExt, SequencesExt, Positions

CONSTANTS
  PageNodes,    \* nodes of the document
  RootNode,
  Foreign,      \* stands for a node of another document, or one that does not exist
  Children,     \* node -> sequence of its children
  MaxDepth,     \* max_depth
  BeamWidth,    \* beam_width
  Broad,        \* children of a node for which the beam is widened
  MaxResults,   \* max_results
  MinScore,     \* min_confidence
  TopScore,     \* highest confidence
  BatchCap      \* MAX_BATCH_INPUTS

Kids(n) == Range(Children[n])

\* The nodes of a document form a tree: no node is below two others, and none below itself.
ASSUME EngineAssumption ==
  /\ RootNode \in PageNodes /\ Children \in [PageNodes -> Seq(PageNodes)]
  /\ \A n \in PageNodes : IsInjective(Children[n])
  /\ \A m, n \in PageNodes : Kids(m) \cap Kids(n) # {} => m = n
  /\ \A S \in (SUBSET PageNodes) \ {{}} : \E n \in S : \A m \in S : n \notin Kids(m)
  /\ {MaxDepth, BeamWidth, MaxResults, BatchCap} \subseteq Nat /\ {MinScore, TopScore} \subseteq Int

VARIABLES
  way,      \* "none" until a search starts, then "tree" or "hits"
  branches, \* traversals in progress; "at" is the way the model went from the root
  results,  \* shared results, in the order they came in
  halted,   \* the cancel flag
  failed,   \* some call of the model failed
  repeated, \* the model selected a node twice
  response  \* <<>> until the search ends

engineVars == <<way, branches, results, halted, failed, repeated, response>>

IsLeaf(n) == Children[n] = <<>>

Branch(at, n) == [at |-> at, node |-> n, pc |-> "visit", inputs |-> <<>>]
Waiting(b, pc, inputs) == [b EXCEPT !.pc = pc, !.inputs = inputs]
Depth(b) == Len(b.at)

Replaced(b, new) == branches' = (branches \ {b}) \cup new

(***************************************************************************)
(* Starting                                                                *)
(***************************************************************************)

\* search, search_document_with_cancel: the flag, then the root.
SearchDocument ==
  /\ way = "none" /\ way' = "tree"
  /\ IF halted THEN response' = <<"ok", <<>>>> /\ UNCHANGED branches
     ELSE branches' = {Branch(<<>>, RootNode)} /\ UNCHANGED response
  /\ UNCHANGED <<results, halted, failed, repeated>>

\* Mutant: hits are taken for nodes of this document.
HitNodesAny(hits) == hits

\* The hits that are nodes of this document.
HitNodes(hits) == Only(hits, PageNodes)

\* verify_bm25_hits; without any node of this document the tree is traversed.
VerifyBm25Hits(hits) ==
  LET nodes == HitNodes(hits)
  IN  /\ way = "none" /\ way' = IF nodes = <<>> THEN "tree" ELSE "hits"
      /\ IF halted \/ hits = <<>> THEN response' = <<"ok", <<>>>> /\ UNCHANGED branches
         ELSE /\ branches' = {IF nodes = <<>> THEN Branch(<<>>, RootNode)
                              ELSE Waiting(Branch(<<>>, RootNode), "batch", nodes)}
              /\ UNCHANGED response
      /\ UNCHANGED <<results, halted, failed, repeated>>

(***************************************************************************)
(* Traversing                                                              *)
(***************************************************************************)

\* Leaves of a node are one level below it.
MayBatch(b) == Depth(b) < MaxDepth

EffectiveBeam(n) == IF Len(Children[n]) > Broad THEN 2 * BeamWidth ELSE BeamWidth

\* Children whose summaries share a term with the query, in order; all children when they are fewer
\* than the beam.
Prefiltered(n) ==
  {LET kept == Only(Children[n], match)
   IN  IF Len(kept) >= Min({EffectiveBeam(n), Len(Children[n])}) THEN kept ELSE Children[n] :
     match \in SUBSET Kids(n)}

\* traverse up to its first call of the model.  A leaf (verify_leaf) is skipped when there are enough
\* results or it shares no term with the query.
Visit(b) ==
  /\ b.pc = "visit"
  /\ \/ /\ halted \/ Depth(b) > MaxDepth
        /\ Replaced(b, {})
     \/ /\ ~halted /\ Depth(b) <= MaxDepth /\ IsLeaf(b.node)
        /\ \/ Replaced(b, {})
           \/ Len(results) < MaxResults /\ Replaced(b, {Waiting(b, "verify", <<b.node>>)})
     \/ /\ ~halted /\ Depth(b) <= MaxDepth /\ ~IsLeaf(b.node)
        /\ \E cs \in Prefiltered(b.node) :
             IF MayBatch(b) /\ \A n \in Range(cs) : IsLeaf(n)
             THEN Replaced(b, {Waiting(b, "batch", cs)})
             ELSE Replaced(b, {Waiting(b, "decide", cs)})
  /\ UNCHANGED <<way, results, halted, failed, repeated, response>>

\* What the model may select: children, ids it makes up, one id twice, or nothing.
DecideNextStep(b) == SeqOf(Kids(b.node) \cup {Foreign}, EffectiveBeam(b.node))

\* decide_next_step answered.  Decisions below the threshold and beyond the beam are dropped, and
\* those for nodes that are no children of this one.
Decide(b) ==
  /\ b.pc = "decide"
  /\ \E decisions \in DecideNextStep(b) :
       LET chosen == Only(decisions, Kids(b.node))
       IN  /\ repeated' = (repeated \/ ~IsInjective(chosen))
           /\ IF chosen = <<>> \/ Len(results) >= MaxResults THEN Replaced(b, {})
              ELSE IF MayBatch(b) /\ \A n \in Range(chosen) : IsLeaf(n)
              THEN Replaced(b, IF halted THEN {} ELSE {Waiting(b, "batch", chosen)})
              ELSE Replaced(b, {Branch(Append(b.at, i), chosen[i]) : i \in DOMAIN chosen})
  /\ UNCHANGED <<way, results, halted, failed, response>>

\* What the model may think of a node; below MinScore it is not relevant.
VerifyAnswer == (MinScore - 1)..TopScore

\* One score for each node: one that the model does not list is not relevant, and an index out of
\* range is ignored.
BatchVerifyAnswers(top) == [DOMAIN top -> VerifyAnswer]

\* verify_answer or batch_verify_answers answered.  A batch does not look at how many results there
\* are.
Verified(b) ==
  LET top == SubSeq(b.inputs, 1, Min({Len(b.inputs), BatchCap}))
  IN  /\ b.pc \in {"verify", "batch"}
      /\ \E score \in BatchVerifyAnswers(top) :
           LET scored == [i \in DOMAIN top |-> <<top[i], score[i]>>]
           IN  results' = results \o Only(scored, {r \in Range(scored) : r[2] >= MinScore})
      /\ Replaced(b, {})
      /\ UNCHANGED <<way, halted, failed, repeated, response>>

\* A call failed: the traversal ends with the error, the others go on to their ends.
CallFails(b) ==
  /\ b.pc \in {"decide", "verify", "batch"}
  /\ failed' = TRUE /\ Replaced(b, {})
  /\ UNCHANGED <<way, results, halted, repeated, response>>

\* The flag is raised by whoever shares it.
Halt ==
  /\ ~halted /\ halted' = TRUE
  /\ UNCHANGED <<way, branches, results, failed, repeated, response>>

\* sort_by, which is stable: the highest confidence first, and in the order they came among equals.
Higher(s, i, j) == s[i][2] > s[j][2] \/ (s[i][2] = s[j][2] /\ i < j)

Sorted(s) == LET at    == DOMAIN s
                 order == Lined(at, {p \in at \X at : Higher(s, p[1], p[2])})
             IN  [k \in DOMAIN order |-> s[order[k]]]

\* Mutant: the results are cut before they are sorted.
BestCutFirst(s) == Sorted(SubSeq(s, 1, Min({MaxResults, Len(s)})))

\* sort by confidence, then truncate
Best(s) == SubSeq(Sorted(s), 1, Min({MaxResults, Len(s)}))

\* All traversals ended; an error of any is the answer.
Respond ==
  /\ way # "none" /\ branches = {} /\ response = <<>>
  /\ response' = IF failed THEN <<"error", <<>>>> ELSE <<"ok", Best(results)>>
  /\ UNCHANGED <<way, branches, results, halted, failed, repeated>>

EngineInit ==
  /\ way = "none" /\ branches = {} /\ results = <<>> /\ response = <<>>
  /\ halted = FALSE /\ failed = FALSE /\ repeated = FALSE

EngineNext ==
  \/ SearchDocument
  \/ \E hits \in SeqOf(PageNodes \cup {Foreign}, 2) : IsInjective(hits) /\ VerifyBm25Hits(hits)
  \/ \E b \in branches : Visit(b) \/ Decide(b) \/ Verified(b) \/ CallFails(b)
  \/ Halt \/ Respond

(***************************************************************************)
(* Properties                                                              *)
(***************************************************************************)

EngineTypeOK ==
  /\ \A b \in branches : b.node \in PageNodes /\ Depth(b) <= MaxDepth + 1
  /\ results \in Seq(PageNodes \X (MinScore..TopScore))
  /\ halted \in BOOLEAN /\ failed \in BOOLEAN /\ repeated \in BOOLEAN

\* Following d links from the root leads to the node.
WayTo(n, d) ==
  \E path \in [0..d -> PageNodes] :
    path[0] = RootNode /\ path[d] = n /\ \A i \in 1..d : path[i] \in Kids(path[i - 1])

\* The nodes down to the deepest level.
Reachable == {n \in PageNodes : \E d \in 0..MaxDepth : WayTo(n, d)}

\* However the traversals interleave, a search returns the best of all leaves that were verified as
\* relevant, no more than asked for, none twice unless the model selected a node twice, and a
\* traversal none below the deepest level.
ReturnsTheBest ==
  response # <<>> /\ response[1] = "ok" =>
    LET page == response[2]
    IN  /\ Len(page) = Min({MaxResults, Len(results)})
        /\ \A i \in DOMAIN page : page[i] \in Range(results) /\ (way = "tree" => page[i][1] \in Reachable)
        /\ \A i \in DOMAIN page, r \in Range(results) : r \in Range(page) \/ r[2] <= page[i][2]
        /\ repeated \/ \A i, j \in DOMAIN page : page[i][1] = page[j][1] => i = j
=============================================================================
