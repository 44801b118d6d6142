----------------------------- MODULE MCRetrieval -----------------------------
(***************************************************************************)
(* Documents on their way in (chunks, summaries, vocabulary) and queries   *)
(* on their way out (parser, executor, roles, reason, engine).  A          *)
(* behaviour picks one part and runs it; the others stay where they        *)
(* started.                                                                *)
(***************************************************************************)
EXTENDS RqlParser, RqlExecutor, ReasonQuery, SearchEngine, Summaries

CONSTANTS q1, q2, c1, c2, c3, t1, t2,  \* two clients, three documents, two texts
          n1, n2, n3, n4, n5, n6, n7   \* nodes of one document

VARIABLE part

retrievalVars == <<configVars, healthVars, reasonVars>>
ingestVars == <<chunkVars, summaryVars, vocabVars>>
vars == <<parserVars, execVars, retrievalVars, engineVars, ingestVars, part>>

\* Statements the editor starts from: none, and some that lead past the bound on tokens.
MCBegun ==
  {<<>>, <<"update", "id", "set">>, <<"select", "star", "from", "id">>,
   <<"delete", "from", "id", "where", "id", "is", "null", "or">>,
   <<"delete", "from", "id", "where", "id", "is", "null", "or", "id", "is", "null">>,
   <<"delete", "from", "id", "where", "not", "lparen", "id", "is", "null", "and">>}

MCAccepts == q1 :> Corpus @@ q2 :> {c3}

\* The clients share one text with different WHERE and LIMIT clauses.
MCQueries == q1 :> {<<t1, 2, 0>>, <<t2, 1, 1>>} @@ q2 :> {<<t1, 1, 0>>}

\* n1 has an inner node and a leaf below it, and leaves on three levels.
MCChildren ==
  n1 :> <<n2, n3>> @@ n2 :> <<n5, n4>> @@ n4 :> <<n6, n7>> @@ [n \in {n3, n5, n6, n7} |-> <<>>]

Init ==
  /\ part \in {"parser", "executor", "roles", "reason", "engine", "chunks", "summaries", "vocabulary"}
  /\ ParserInit /\ (part # "parser" => typed = <<>>)
  /\ ExecInit /\ (part # "executor" => rows = [d \in QDocs |-> CHOOSE doc \in Document : TRUE])
  /\ LlmInit /\ (part # "roles" => stored = NoSettings)
  /\ ReasonInit /\ EngineInit
  /\ CASE part = "summaries" -> SummariesInit
       [] part = "vocabulary" -> SummariesInit /\ Cardinality(Nodes) = 2
       [] part = "chunks" -> ChunkingInit /\ SummariesReset
       [] OTHER -> ChunkingInit /\ text.lines = 0 /\ SummariesReset

Next ==
  /\ \/ part = "parser" /\ ParserNext /\ UNCHANGED <<execVars, retrievalVars, engineVars, ingestVars>>
     \/ part = "executor" /\ ExecuteQuery /\ UNCHANGED <<parserVars, retrievalVars, engineVars, ingestVars>>
     \/ part = "roles" /\ LlmNext
          /\ UNCHANGED <<parserVars, execVars, reasonVars, engineVars, ingestVars>>
     \/ part = "reason" /\ ReasonNext
          /\ UNCHANGED <<parserVars, execVars, configVars, engineVars, ingestVars>>
     \/ part = "engine" /\ EngineNext /\ UNCHANGED <<parserVars, execVars, retrievalVars, ingestVars>>
     \/ part = "chunks" /\ ChunkingNext /\ InsertNodes
          /\ UNCHANGED <<run, depth, batches, updated, unwritten, crashes, vocabVars>>
          /\ UNCHANGED <<parserVars, execVars, retrievalVars, engineVars>>
     \/ part = "summaries" /\ SummariesStep /\ UNCHANGED <<chunkVars, vocabVars>>
          /\ UNCHANGED <<parserVars, execVars, retrievalVars, engineVars>>
     \/ part = "vocabulary" /\ SummariesNext
          /\ UNCHANGED <<parserVars, execVars, retrievalVars, engineVars>>
  /\ UNCHANGED part

Spec == Init /\ [][Next]_vars

\* Every variable has its type.
TypeOK ==
  /\ ParserTypeOK /\ ExecTypeOK /\ LlmTypeOK /\ ReasonTypeOK /\ EngineTypeOK
  /\ ChunkingTypeOK /\ SummariesTypeOK

Symmetry == Permutations({c1, c2})
=============================================================================
