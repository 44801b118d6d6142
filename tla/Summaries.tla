------------------------------ MODULE Summaries ------------------------------
(***************************************************************************)
(* BatchSummarizer on the tree of one saved document, and the vocabulary    *)
(* update that follows.                                                    *)
(*                                                                         *)
(* Depth by depth, from the deepest, the nodes without a summary go to the *)
(* model in batches; the batches of a depth run together, and when all are *)
(* back their nodes are written to the store one by one.  A failing batch  *)
(* ends the job; a crash ends the process, and the job resumes from what   *)
(* was saved.  A summary is abstracted to where it came from.              *)
(***************************************************************************)
EXTENDS Chunking

CONSTANTS
  MaxNodes,    \* bound on the chunks of the document
  BatchSize,   \* nodes per request (10)
  InFlight,    \* max_concurrent
  MaxCrashes,  \* bound on crashes
  VTasks,      \* background vocabulary updates of one table
  VTerms,      \* terms the model may extract
  Own          \* the update spawned by this document's job

ASSUME SummariesAssumption == {MaxNodes, MaxCrashes} \subseteq Nat

VARIABLES
  run,       \* "idle", "depth", "calls", "flush", "done", "failed"
  depth,     \* the depth at work
  memory,    \* node -> its summary in memory
  saved,     \* node -> its summary in the store
  batches,   \* the batches of this depth whose answers are out
  updated,   \* the nodes of this depth that are still to be written
  unwritten, \* history: nodes left without a saved summary by the model or by a failing write
  crashes,   \* how many crashes so far
  vocab,     \* table.metadata.domain_vocab
  vtask,     \* vocabulary update -> its state
  known,     \* history: terms that updates have written so far
  overlap    \* history: two updates were under way together

summaryVars == <<run, depth, memory, saved, batches, updated, unwritten, crashes>>
vocabVars == <<vocab, vtask, known, overlap>>

Nodes == DOMAIN tree
Origins == {"none", "given", "model", "title"}
LeafNode(n) == tree[n].children = <<>>
DepthOf(ns) == Max({tree[n].depth : n \in ns})

SummariesReset ==
  /\ run = "idle" /\ depth = 0 /\ batches = {} /\ updated = {} /\ unwritten = {} /\ crashes = 0
  /\ saved = [n \in Nodes |-> IF tree[n].summary THEN "given" ELSE "none"]
  /\ memory = [n \in Nodes |-> "none"]
  /\ vocab = {} /\ vtask = [t \in VTasks |-> [pc |-> "idle"]] /\ known = {} /\ overlap = FALSE

\* What is saved of the nodes when the tree is built: the pipeline inserts them before it asks for
\* summaries.
InsertNodes ==
  /\ saved' = [n \in DOMAIN tree' |-> IF tree'[n].summary THEN "given" ELSE "none"]
  /\ memory' = [n \in DOMAIN tree' |-> "none"]

SummariesInit ==
  /\ stage = "built" /\ answers = <<>> /\ chunks = <<>> /\ text = [lines |-> 0, blank |-> {}]
  /\ \E n \in 0..MaxNodes, parents \in [1..MaxNodes -> BOOLEAN], empty, given \in SUBSET (1..MaxNodes) :
       tree = ToPageNodes([i \in 1..n |->
                [headed |-> parents[i], level |-> i, summary |-> i \in given,
                 lines |-> IF i \in empty THEN {} ELSE {i}]])
  /\ SummariesReset

(***************************************************************************)
(* The summarizer                                                          *)
(***************************************************************************)

\* ingest_checkpointed goes on with the nodes it has just saved, resume_summarization with those it
\* reads back; when none is without summary a resumed job is done.
StartSummaries ==
  /\ run = "idle" /\ memory' = saved
  /\ IF crashes > 0 /\ \A n \in Nodes : saved[n] # "none"
     THEN run' = "done" /\ UNCHANGED depth
     ELSE run' = "depth" /\ depth' = DepthOf(Nodes)
  /\ UNCHANGED <<saved, batches, updated, unwritten, crashes>>

\* get_content_for_node: a leaf's text, or the summaries of those children that have one.
HasContent(n) ==
  IF LeafNode(n) THEN tree[n].lines # {}
  ELSE \E i \in DOMAIN tree[n].children : memory[tree[n].children[i]] # "none"

\* indices.chunks(batch_size), without the nodes that have nothing to summarize: a node goes out with
\* those whose place among the nodes of the depth falls into the same chunk.
Batches(ns) ==
  LET Place(n) == Cardinality({m \in ns : m < n}) \div BatchSize
      ripe     == {n \in ns : HasContent(n)}
  IN  {{m \in ripe : Place(m) = Place(n)} : n \in ripe}

\* The nodes of the depth that have no summary yet; a node without content is named after its title.
BeginDepth ==
  LET ns == {n \in Nodes : tree[n].depth = depth /\ memory[n] = "none"}
      bare == {n \in ns : ~HasContent(n)}
  IN  /\ run = "depth" /\ run' = "calls"
      /\ memory' = [n \in Nodes |-> IF n \in bare THEN "title" ELSE memory[n]]
      /\ unwritten' = unwritten \cup bare
      /\ batches' = Batches(ns) /\ updated' = {}
      /\ UNCHANGED <<depth, saved, crashes>>

\* Answers to a batch: nodes the model skips, which get their title, and nodes it summarizes as "".
\* A single node is asked for by itself and cannot be skipped.
SummarizeBatch(b) ==
  {a \in (SUBSET b) \X (SUBSET b) : a[1] \cap a[2] = {} /\ (Cardinality(b) = 1 => a[1] = {})}

BatchReturns(b) ==
  /\ run = "calls" /\ b \in batches
  /\ Cardinality({c \in batches : Min(c) < Min(b)}) < InFlight
  /\ \E a \in SummarizeBatch(b) :
       /\ memory' = [n \in Nodes |-> IF n \notin b THEN memory[n] ELSE IF n \in a[2] THEN "none"
                                     ELSE IF n \in a[1] THEN "title" ELSE "model"]
       /\ unwritten' = unwritten \cup a[2]
  /\ batches' = batches \ {b} /\ updated' = updated \cup b
  /\ UNCHANGED <<run, depth, saved, crashes>>

\* An error of one batch ends the job; nothing of this depth is written.
BatchFails(b) ==
  /\ run = "calls" /\ b \in batches /\ run' = "failed" /\ batches' = {}
  /\ UNCHANGED <<depth, memory, saved, updated, unwritten, crashes>>

CallsDone ==
  /\ run = "calls" /\ batches = {} /\ run' = "flush"
  /\ UNCHANGED <<depth, memory, saved, batches, updated, unwritten, crashes>>

\* update_node, one transaction each; a failing write is only logged.
FlushNode(n, ok) ==
  /\ run = "flush" /\ n \in updated /\ updated' = updated \ {n}
  /\ saved' = IF ok THEN [saved EXCEPT ![n] = memory[n]] ELSE saved
  /\ unwritten' = IF ok THEN unwritten ELSE unwritten \cup {n}
  /\ UNCHANGED <<run, depth, memory, batches, crashes>>

\* Mutant: the next depth begins while this one is still being written.
NextDepthEarly ==
  /\ run = "flush"
  /\ IF depth = 0 THEN run' = "done" /\ UNCHANGED depth ELSE run' = "depth" /\ depth' = depth - 1
  /\ UNCHANGED <<memory, saved, batches, updated, unwritten, crashes>>

NextDepth ==
  /\ run = "flush" /\ updated = {}
  /\ IF depth = 0 THEN run' = "done" /\ UNCHANGED depth ELSE run' = "depth" /\ depth' = depth - 1
  /\ UNCHANGED <<memory, saved, batches, updated, unwritten, crashes>>

\* The process dies and the job resumes from its checkpoint.
SummariesCrash ==
  /\ run \in {"depth", "calls", "flush"} /\ crashes < MaxCrashes /\ crashes' = crashes + 1
  /\ run' = "idle" /\ memory' = [n \in Nodes |-> "none"] /\ batches' = {} /\ updated' = {}
  /\ UNCHANGED <<depth, saved, unwritten>>

(***************************************************************************)
(* do_vocab_update                                                         *)
(***************************************************************************)

\* Mutant: the update writes the new terms only.
MergedTermsNew(old, new) == new

MergedTerms(old, new) == old \cup new

\* spawn_vocab_update, and the task up to the call of the model: it reads the terms of the table.
SpawnVocab(t) ==
  /\ vtask[t].pc = "idle" /\ t = Own => run = "done" /\ memory[0] # "none"
  /\ vtask' = [vtask EXCEPT ![t] = [pc |-> "asked", existing |-> vocab]]
  /\ overlap' = (overlap \/ \E u \in VTasks : vtask[u].pc = "asked")
  /\ UNCHANGED <<vocab, known>>

\* extract_domain_vocab: an error counts as no terms.
ExtractDomainVocab == SUBSET VTerms

\* The answer: without new terms the task ends (so it does when the write fails), others are added to
\* the terms it had read.
WriteVocab(t) ==
  /\ vtask[t].pc = "asked" /\ vtask' = [vtask EXCEPT ![t] = [pc |-> "done"]]
  /\ \E new \in ExtractDomainVocab :
       LET terms == MergedTerms(vtask[t].existing, new)
       IN  IF new = {} THEN UNCHANGED <<vocab, known>>
           ELSE vocab' = terms /\ known' = known \cup terms
  /\ UNCHANGED overlap

SummariesStep ==
  \/ StartSummaries \/ BeginDepth \/ CallsDone \/ NextDepth \/ SummariesCrash
  \/ \E b \in SUBSET Nodes : BatchReturns(b) \/ BatchFails(b)
  \/ \E n \in Nodes, ok \in BOOLEAN : FlushNode(n, ok)

SummariesNext ==
  /\ \/ SummariesStep /\ UNCHANGED vocabVars
     \/ (\E t \in VTasks : SpawnVocab(t) \/ WriteVocab(t)) /\ UNCHANGED summaryVars
  /\ UNCHANGED chunkVars

SummariesTypeOK ==
  /\ run \in {"idle", "depth", "calls", "flush", "done", "failed"}
  /\ memory \in [Nodes -> Origins] /\ saved \in [Nodes -> Origins]
  /\ batches \subseteq SUBSET Nodes /\ updated \subseteq Nodes /\ unwritten \subseteq Nodes
  /\ crashes \in 0..MaxCrashes /\ vocab \subseteq VTerms /\ known \subseteq VTerms

(***************************************************************************)
(* Properties                                                              *)
(***************************************************************************)

Lacking(n) == saved[n] = "none" /\ n \notin unwritten

\* The store fills up from the leaves: across crashes, resumed jobs, failing batches and failing
\* writes a section has a saved summary only when its parts have theirs (or could not get one), a
\* finished job leaves nothing out, and summaries supplied by the caller are never replaced.
\* (BatchSummarizer::summarize_batch, resume_summarization.)
SummariesFillFromTheLeaves ==
  /\ \A n \in Nodes : saved[n] \notin {"none", "given"} => \A i \in DOMAIN tree[n].children : ~Lacking(tree[n].children[i])
  /\ run = "done" => \A n \in Nodes : ~Lacking(n)
  /\ \A n \in Nodes : tree[n].summary <=> saved[n] = "given"

\* Terms an update has written stay in the vocabulary unless two updates of the table were under way
\* at the same time: then the later write puts back what it had read.  (do_vocab_update.)
TermsAreLostOnlyToOverlaps == overlap \/ known \subseteq vocab
=============================================================================
