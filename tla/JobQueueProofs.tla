--------------------------- MODULE JobQueueProofs ---------------------------
(***************************************************************************)
(* Proofs about JobQueue for any number of jobs, workers, documents,       *)
(* crashes and failing writes.                                             *)
(***************************************************************************)
EXTENDS JobQueue, FiniteSetTheorems, TLAPS

\* A worker has a job exactly between its claim and the write of the outcome.
HoldingHasJob == \A w \in Workers : (pc[w] \in Holding) <=> (cur[w] # NoJob)

\* Only a serving process has workers.
PoolOff == phase # "serving" => \A w \in Workers : pc[w] = "off"

\* From the document's insertion to the text index the worker knows the document.
DocKnown ==
  \A w \in Workers :
    \/ pc[w] \in {"nodes", "ckptRead", "ckptWrite", "summarize", "tagRead", "tagWrite",
                  "index", "resume", "resummarize"}
    \/ pc[w] = "rmfile" /\ res[w] = "completed"
    => doc[w] # NoDoc

Typed == TypeOK /\ HoldingHasJob /\ PoolOff /\ DocKnown

\* A server that never ran is well typed.
LEMMA TypedInit == Init => Typed
  BY JobsAssumption
  DEF Init, Typed, TypeOK, HoldingHasJob, PoolOff, DocKnown, Statuses, DocStates, Phases, Clients, PCs, Holding,
      Record, Terminal

\* Requests, their replies and document deletions keep the types.
LEMMA TypedClient ==
  ASSUME Typed, ClientStep
  PROVE  Typed'
<1> USE JobsAssumption
<1>1. ASSUME NEW j \in Jobs, Enqueue(j) PROVE Typed'
  BY <1>1 DEF Typed, TypeOK, HoldingHasJob, PoolOff, DocKnown, Enqueue, Commits, Fails, Statuses, Clients,
              docVars, serverVars, workerVars
<1>2. ASSUME NEW j \in Jobs, EnqueueNotify(j) PROVE Typed'
  BY <1>2 DEF Typed, TypeOK, HoldingHasJob, PoolOff, DocKnown, EnqueueNotify, TrySend, Clients,
              jobVars, docVars, workerVars
<1>3. ASSUME NEW j \in Jobs, EnqueueReply(j) PROVE Typed'
  BY <1>3 DEF Typed, TypeOK, HoldingHasJob, PoolOff, DocKnown, EnqueueReply, Clients,
              jobVars, docVars, serverVars, workerVars
<1>4. ASSUME NEW d \in Docs, DeleteDocument(d) PROVE Typed'
  BY <1>4 DEF Typed, TypeOK, HoldingHasJob, PoolOff, DocKnown, DeleteDocument, DocStates,
              jobVars, serverVars, workerVars
<1>5. ASSUME NEW d \in Docs, UnindexDocument(d) PROVE Typed'
  BY <1>5 DEF Typed, TypeOK, HoldingHasJob, PoolOff, DocKnown, UnindexDocument,
              jobVars, serverVars, workerVars
<1> QED BY <1>1, <1>2, <1>3, <1>4, <1>5 DEF ClientStep

\* Startup, recovery, dispatch, cleanup, leadership and crashes keep the types.
LEMMA TypedServer ==
  ASSUME Typed, Recover \/ Dispatch \/ Housekeeping \/ LeaderChange \/ Crash
  PROVE  Typed'
<1> USE JobsAssumption
<1>1. ASSUME Start PROVE Typed'
  BY <1>1 DEF Typed, TypeOK, HoldingHasJob, PoolOff, DocKnown, Start, Phases, jobVars, docVars, workerVars
<1>2. ASSUME NEW j \in Jobs, ResumeJob(j) PROVE Typed'
  BY <1>2 DEF Typed, TypeOK, HoldingHasJob, PoolOff, DocKnown, ResumeJob, TrySend, Commits, Fails, Statuses,
              docVars, workerVars
<1>3. ASSUME StartWorkers PROVE Typed'
  BY <1>3 DEF Typed, TypeOK, HoldingHasJob, PoolOff, DocKnown, StartWorkers, Phases, PCs, Holding, jobVars, docVars
<1>4. ASSUME Dispatch PROVE Typed'
  BY <1>4 DEF Typed, TypeOK, HoldingHasJob, PoolOff, DocKnown, Dispatch, PCs, Holding, jobVars, docVars
<1>5. ASSUME CleanupRead PROVE Typed'
  BY <1>5 DEF Typed, TypeOK, HoldingHasJob, PoolOff, DocKnown, CleanupRead, jobVars, docVars, workerVars
<1>6. ASSUME CleanupDelete PROVE Typed'
  BY <1>6 DEF Typed, TypeOK, HoldingHasJob, PoolOff, DocKnown, CleanupDelete, Statuses, docVars, workerVars
<1>7. ASSUME NEW j \in Jobs, Expire(j) PROVE Typed'
  BY <1>7 DEF Typed, TypeOK, HoldingHasJob, PoolOff, DocKnown, Expire, docVars, serverVars, workerVars
<1>8. ASSUME LeaderChange PROVE Typed'
  BY <1>8 DEF Typed, TypeOK, HoldingHasJob, PoolOff, DocKnown, LeaderChange, jobVars, docVars, workerVars
<1>9. ASSUME Crash PROVE Typed'
  BY <1>9 DEF Typed, TypeOK, HoldingHasJob, PoolOff, DocKnown, Crash, Phases, Clients, PCs, Holding, Record,
              Statuses, Terminal, jobVars
<1> QED BY <1>1, <1>2, <1>3, <1>4, <1>5, <1>6, <1>7, <1>8, <1>9 DEF Recover, Housekeeping

\* Waiting, claiming and finishing keep the types of a worker.
LEMMA TypedClaim ==
  ASSUME Typed, NEW w \in Workers,
         \/ Listen(w) \/ CheckLeader(w) \/ (\E j \in Jobs : Claim(w, j)) \/ ClaimNone(w)
         \/ ClaimPersist(w) \/ FinishRead(w) \/ FinishWrite(w)
  PROVE  Typed'
<1> USE JobsAssumption
<1>1. ASSUME Listen(w) PROVE Typed'
  BY <1>1 DEF Typed, TypeOK, HoldingHasJob, PoolOff, DocKnown, Goto, PCs, Holding,
              Listen, jobVars, docVars, serverVars
<1>2. ASSUME CheckLeader(w) PROVE Typed'
  BY <1>2 DEF Typed, TypeOK, HoldingHasJob, PoolOff, DocKnown, Goto, PCs, Holding,
              CheckLeader, jobVars, docVars, serverVars
<1>3. ASSUME NEW j \in Jobs, Claim(w, j) PROVE Typed'
  BY <1>3 DEF Typed, TypeOK, HoldingHasJob, PoolOff, DocKnown, Goto, PCs, Holding,
              Claim, FirstQueued, RecordOf, Record, Statuses, docVars, serverVars
<1>4. ASSUME ClaimNone(w) PROVE Typed'
  BY <1>4 DEF Typed, TypeOK, HoldingHasJob, PoolOff, DocKnown, Goto, PCs, Holding,
              ClaimNone, Commits, Fails, jobVars, docVars, serverVars
<1>5. ASSUME ClaimPersist(w) PROVE Typed'
  <2> USE <1>5 DEF ClaimPersist
  <2>1. cur[w] \in Jobs /\ buf[w].ckpt \in Docs \cup {NoDoc} /\ phase = "serving"
    BY DEF Typed, TypeOK, HoldingHasJob, PoolOff, Holding, Record
  <2>2. FirstStep(w) \in Holding
    BY DEF FirstStep, Holding
  <2>3. TypeOK'
    BY <2>1, <2>2 DEF Typed, TypeOK, Goto, PCs, Commits, Fails, Statuses,
                      docVars, serverVars
  <2>4. HoldingHasJob' /\ PoolOff' /\ DocKnown'
    BY <2>1 DEF Typed, TypeOK, HoldingHasJob, PoolOff, DocKnown, FirstStep, Goto, Holding,
                serverVars
  <2> QED BY <2>3, <2>4 DEF Typed
<1>6. ASSUME FinishRead(w) PROVE Typed'
  <2> USE <1>6 DEF FinishRead
  <2>1. cur[w] \in Jobs /\ phase = "serving"
    BY DEF Typed, TypeOK, HoldingHasJob, PoolOff, Holding
  <2>2. RecordOf(cur[w]) \in Record
    BY <2>1 DEF Typed, TypeOK, RecordOf, Record
  <2>3. TypeOK'
    <3>1. CASE Decodes(status[cur[w]])
      BY <2>2, <3>1 DEF Typed, TypeOK, Goto, PCs, Holding, jobVars, docVars, serverVars
    <3>2. CASE ~Decodes(status[cur[w]])
      <4>1. [status |-> "new", ckpt |-> NoDoc] \in Record
        BY DEF Record, Statuses
      <4> QED BY <3>2, <4>1 DEF Typed, TypeOK, Goto, Released, PCs, Terminal,
                                jobVars, docVars, serverVars
    <3> QED BY <3>1, <3>2
  <2>4. HoldingHasJob' /\ PoolOff' /\ DocKnown'
    BY <2>1 DEF Typed, TypeOK, HoldingHasJob, PoolOff, DocKnown, Goto, Released, Holding, serverVars
  <2> QED BY <2>3, <2>4 DEF Typed
<1>7. ASSUME FinishWrite(w) PROVE Typed'
  <2> USE <1>7 DEF FinishWrite
  <2>1. cur[w] \in Jobs /\ buf[w].ckpt \in Docs \cup {NoDoc} /\ phase = "serving"
    BY DEF Typed, TypeOK, HoldingHasJob, PoolOff, Holding, Record
  <2>2. [status |-> "new", ckpt |-> NoDoc] \in Record
    BY DEF Record, Statuses
  <2>3. TypeOK'
    BY <2>1, <2>2 DEF Typed, TypeOK, Goto, Released, PCs, Commits, Fails, Statuses,
                      Terminal, docVars, serverVars
  <2>4. HoldingHasJob' /\ PoolOff' /\ DocKnown'
    BY <2>1 DEF Typed, TypeOK, HoldingHasJob, PoolOff, DocKnown, Goto, Released, Holding, serverVars
  <2> QED BY <2>3, <2>4 DEF Typed
<1> QED BY <1>1, <1>2, <1>3, <1>4, <1>5, <1>6, <1>7

\* The steps of the ingestion pipeline keep the types of a worker.
LEMMA TypedPipeline ==
  ASSUME Typed, NEW w \in Workers,
         \/ (\E d \in Docs : IngestDocument(w, d)) \/ PipelineFails(w) \/ InsertNodes(w)
         \/ CheckpointRead(w) \/ CheckpointWrite(w) \/ Summarize(w) \/ RemoveTempFile(w)
         \/ TagRead(w) \/ TagWrite(w) \/ IndexNodes(w) \/ ResumeLookup(w) \/ Resummarize(w)
  PROVE  Typed'
<1> USE JobsAssumption
<1>1. ASSUME NEW d \in Docs, IngestDocument(w, d) PROVE Typed'
  BY <1>1 DEF Typed, TypeOK, HoldingHasJob, PoolOff, DocKnown, Goto, PCs, Holding,
              IngestDocument, DocStates, jobVars, serverVars
<1>2. ASSUME PipelineFails(w) PROVE Typed'
  BY <1>2 DEF Typed, TypeOK, HoldingHasJob, PoolOff, DocKnown, Goto, PCs, Holding,
              PipelineFails, PipelineEnd, AfterPipeline, Terminal, jobVars, docVars, serverVars
<1>3. ASSUME InsertNodes(w) PROVE Typed'
  BY <1>3 DEF Typed, TypeOK, HoldingHasJob, PoolOff, DocKnown, Goto, PCs, Holding,
              InsertNodes, DocStates, jobVars, serverVars
<1>4. ASSUME CheckpointRead(w) PROVE Typed'
  <2> USE <1>4 DEF CheckpointRead
  <2>1. cur[w] \in Jobs /\ phase = "serving"
    BY DEF Typed, TypeOK, HoldingHasJob, PoolOff, Holding
  <2>2. RecordOf(cur[w]) \in Record
    BY <2>1 DEF Typed, TypeOK, RecordOf, Record
  <2>3. TypeOK'
    BY <2>2 DEF Typed, TypeOK, Goto, PCs, Holding, jobVars, docVars, serverVars
  <2>4. HoldingHasJob' /\ PoolOff' /\ DocKnown'
    BY <2>1 DEF Typed, TypeOK, HoldingHasJob, PoolOff, DocKnown, Goto, Holding, serverVars
  <2> QED BY <2>3, <2>4 DEF Typed
<1>5. ASSUME CheckpointWrite(w) PROVE Typed'
  BY <1>5 DEF Typed, TypeOK, HoldingHasJob, PoolOff, DocKnown, Goto, PCs, Holding,
              CheckpointWrite, Commits, Fails, Record, Statuses, docVars, serverVars
<1>6. ASSUME Summarize(w) PROVE Typed'
  BY <1>6 DEF Typed, TypeOK, HoldingHasJob, PoolOff, DocKnown, Goto, PCs, Holding,
              Summarize, SummarizeNodes, Summarized, PipelineEnd, AfterPipeline, Terminal,
              DocStates, jobVars, serverVars
<1>7. ASSUME RemoveTempFile(w) PROVE Typed'
  <2> USE <1>7 DEF RemoveTempFile
  <2>1. phase = "serving" /\ res[w] \in Terminal /\ (res[w] = "completed" => doc[w] # NoDoc)
    BY DEF Typed, TypeOK, PoolOff, DocKnown
  <2>2. /\ AfterPipeline(cur[w], res[w]) \in {"finishRead", "tagRead", "index"}
        /\ AfterPipeline(cur[w], res[w]) # "finishRead" => doc[w] # NoDoc
    BY <2>1 DEF AfterPipeline, Terminal
  <2>3. TypeOK'
    BY <2>2 DEF Typed, TypeOK, Goto, PCs, Holding, jobVars, docVars, serverVars
  <2>4. HoldingHasJob' /\ PoolOff' /\ DocKnown'
    BY <2>1, <2>2 DEF Typed, TypeOK, HoldingHasJob, PoolOff, DocKnown, Goto, Holding, serverVars
  <2> QED BY <2>3, <2>4 DEF Typed
<1>8. ASSUME TagRead(w) PROVE Typed'
  BY <1>8 DEF Typed, TypeOK, HoldingHasJob, PoolOff, DocKnown, Goto, PCs, Holding,
              TagRead, Terminal, jobVars, docVars, serverVars
<1>9. ASSUME TagWrite(w) PROVE Typed'
  BY <1>9 DEF Typed, TypeOK, HoldingHasJob, PoolOff, DocKnown, Goto, PCs, Holding,
              TagWrite, DocStates, jobVars, serverVars
<1>10. ASSUME IndexNodes(w) PROVE Typed'
  <2> USE <1>10 DEF IndexNodes
  <2>1. phase = "serving"
    BY DEF Typed, TypeOK, PoolOff
  <2>2. doc[w] \in Docs
    BY DEF Typed, TypeOK, DocKnown
  <2>3. TypeOK'
    BY <2>2 DEF Typed, TypeOK, Goto, PCs, Holding, Terminal, DocStates, jobVars, serverVars
  <2>4. HoldingHasJob' /\ PoolOff' /\ DocKnown'
    BY <2>1 DEF Typed, TypeOK, HoldingHasJob, PoolOff, DocKnown, Goto, Holding, serverVars
  <2> QED BY <2>3, <2>4 DEF Typed
<1>11. ASSUME ResumeLookup(w) PROVE Typed'
  BY <1>11 DEF Typed, TypeOK, HoldingHasJob, PoolOff, DocKnown, Goto, PCs, Holding,
              ResumeLookup, Terminal, jobVars, docVars, serverVars
<1>12. ASSUME Resummarize(w) PROVE Typed'
  BY <1>12 DEF Typed, TypeOK, HoldingHasJob, PoolOff, DocKnown, Goto, PCs, Holding,
              Resummarize, SummarizeNodes, Summarized, Terminal, DocStates, jobVars,
              serverVars
<1> QED BY <1>1, <1>2, <1>3, <1>4, <1>5, <1>6, <1>7, <1>8, <1>9, <1>10, <1>11, <1>12

\* Every step keeps the types.
LEMMA TypedNext == Typed /\ [Next]_vars => Typed'
<1> SUFFICES ASSUME Typed, [Next]_vars PROVE Typed'
  OBVIOUS
<1>1. CASE ClientStep
  BY <1>1, TypedClient
<1>2. CASE Recover \/ Dispatch \/ Housekeeping \/ LeaderChange \/ Crash
  BY <1>2, TypedServer
<1>3. CASE \E w \in Workers : WorkerStep(w)
  BY <1>3, TypedClaim, TypedPipeline DEF WorkerStep
<1>4. CASE UNCHANGED vars
  BY <1>4 DEF Typed, TypeOK, HoldingHasJob, PoolOff, DocKnown, vars, jobVars, docVars, serverVars, workerVars
<1> QED BY <1>1, <1>2, <1>3, <1>4 DEF Next

\* Type correctness: every variable stays within its type, and a worker has a job exactly
\* while it is between a claim and the write of the outcome.
THEOREM TypeCorrect == Spec => []TypeOK
<1>1. Spec => []Typed
  BY TypedInit, TypedNext, PTL DEF Spec
<1>2. Typed => TypeOK
  BY DEF Typed
<1> QED BY <1>1, <1>2, PTL

(***************************************************************************)
(* Jobs are held exclusively                                               *)
(***************************************************************************)

\* No record is written before the submitting request has inserted it.
NewUntilInserted == \A j \in Jobs : client[j] = "none" => status[j] = "new"

\* Cleanup only has jobs with an outcome in hand.
DoomedHaveEnded == \A j \in doomed : status[j] \in Terminal

\* The record of a job in a worker's hands is blank or says "processing".
HeldIsRunning ==
  \A w \in Workers : cur[w] # NoJob => status[cur[w]] \in {"blank", "processing"}

\* OneHolder is not inductive by itself: a second claim is excluded because a held job is not
\* queued, which needs that nothing but its holder writes the record of a held job.
Exclusive ==
  NewUntilInserted /\ DoomedHaveEnded /\ HeldIsRunning /\ OneHolder /\ NoLostUpdate

\* Without workers and jobs nothing is shared.
LEMMA ExclusiveInit == Init => Exclusive
  BY DEF Init, Exclusive, NewUntilInserted, DoomedHaveEnded, HeldIsRunning, OneHolder, NoLostUpdate

\* Steps that leave the records, the requests and the held jobs alone.
LEMMA ExclusiveFrame ==
  ASSUME Exclusive, UNCHANGED <<status, ckpt, doomed, client, cur, buf>>,
         \A w \in Workers : pc'[w] \in {"ckptWrite", "finishWrite"} => pc'[w] = pc[w]
  PROVE  Exclusive'
  BY DEF Exclusive, NewUntilInserted, DoomedHaveEnded, HeldIsRunning, OneHolder, NoLostUpdate,
         RecordOf

\* Requests and deletions do not touch a held job.
LEMMA ExclusiveClient ==
  ASSUME Typed, Exclusive, ClientStep
  PROVE  Exclusive'
<1> USE DEF Typed, TypeOK, Exclusive
<1>1. ASSUME NEW j \in Jobs, Enqueue(j) PROVE Exclusive'
  <2>1. /\ status[j] = "new" /\ j \notin doomed /\ UNCHANGED <<ckpt, doomed, cur, buf, pc>>
        /\ \A w \in Workers : cur[w] # j
        /\ \A k \in Jobs \ {j} : status'[k] = status[k] /\ client'[k] = client[k]
        /\ client'[j] # "none"
    BY <1>1, JobsAssumption
    DEF Enqueue, NewUntilInserted, DoomedHaveEnded, HeldIsRunning, Terminal, serverVars, workerVars
  <2>2. NewUntilInserted' /\ DoomedHaveEnded' /\ OneHolder'
    BY <2>1 DEF NewUntilInserted, DoomedHaveEnded, OneHolder
  <2>3. HeldIsRunning' /\ NoLostUpdate'
    BY <2>1 DEF HeldIsRunning, NoLostUpdate, HoldingHasJob, Holding, RecordOf
  <2> QED BY <2>2, <2>3
<1>2. ASSUME NEW j \in Jobs, EnqueueNotify(j) \/ EnqueueReply(j) PROVE Exclusive'
  BY <1>2 DEF EnqueueNotify, EnqueueReply, NewUntilInserted, DoomedHaveEnded, HeldIsRunning,
              OneHolder, NoLostUpdate, RecordOf, jobVars, serverVars, workerVars
<1>3. ASSUME NEW d \in Docs, DeleteDocument(d) \/ UnindexDocument(d) PROVE Exclusive'
  BY <1>3, ExclusiveFrame DEF DeleteDocument, UnindexDocument, jobVars, serverVars, workerVars
<1> QED BY <1>1, <1>2, <1>3 DEF ClientStep

\* Recovery runs without workers and cleanup only meets jobs with an outcome.
LEMMA ExclusiveServer ==
  ASSUME Typed, Exclusive, Recover \/ Dispatch \/ Housekeeping \/ LeaderChange \/ Crash
  PROVE  Exclusive'
<1>1. CASE Start
  BY <1>1, ExclusiveFrame DEF Start, jobVars, workerVars
<1>2. ASSUME NEW j \in Jobs, ResumeJob(j) PROVE Exclusive'
  <2>1. \A w \in Workers : pc[w] = "off" /\ cur[w] = NoJob
    BY <1>2 DEF ResumeJob, Typed, PoolOff, HoldingHasJob, Holding
  <2> QED BY <1>2, <2>1
          DEF ResumeJob, Typed, TypeOK, Exclusive, NewUntilInserted, DoomedHaveEnded, HeldIsRunning,
              OneHolder, NoLostUpdate, Terminal, workerVars
<1>3. CASE StartWorkers
  BY <1>3, ExclusiveFrame DEF StartWorkers, jobVars
<1>4. CASE Dispatch
  BY <1>4, ExclusiveFrame DEF Dispatch, Typed, TypeOK, jobVars
<1>5. CASE CleanupRead
  BY <1>5 DEF CleanupRead, Exclusive, NewUntilInserted, DoomedHaveEnded, HeldIsRunning, OneHolder,
              NoLostUpdate, RecordOf, jobVars, workerVars
<1>6. CASE CleanupDelete
  BY <1>6 DEF CleanupDelete, Typed, TypeOK, Exclusive, NewUntilInserted, DoomedHaveEnded,
              HeldIsRunning, OneHolder, NoLostUpdate, HoldingHasJob, Holding, RecordOf, Terminal,
              workerVars
<1>7. ASSUME NEW j \in Jobs, Expire(j) PROVE Exclusive'
  BY <1>7, ExclusiveFrame DEF Expire, serverVars, workerVars
<1>8. CASE LeaderChange
  BY <1>8, ExclusiveFrame DEF LeaderChange, jobVars, workerVars
<1>9. CASE Crash
  BY <1>9 DEF Crash, Typed, TypeOK, Exclusive, NewUntilInserted, DoomedHaveEnded, HeldIsRunning,
              OneHolder, NoLostUpdate, jobVars
<1> QED BY <1>1, <1>2, <1>3, <1>4, <1>5, <1>6, <1>7, <1>8, <1>9 DEF Recover, Housekeeping

\* A claim takes a queued job, which nobody holds.
LEMMA ExclusiveClaim ==
  ASSUME Typed, Exclusive, NEW w \in Workers, NEW j \in Jobs, Claim(w, j)
  PROVE  Exclusive'
<1>1. /\ status[j] = "queued" /\ j \notin doomed /\ \A v \in Workers : cur[v] # j
      /\ pc[w] = "claim"
  BY JobsAssumption
  DEF Claim, FirstQueued, Typed, TypeOK, Exclusive, DoomedHaveEnded, HeldIsRunning, Terminal
<1> USE <1>1, JobsAssumption
    DEF Claim, Typed, TypeOK, Exclusive, Goto, serverVars
<1>2. NewUntilInserted' /\ DoomedHaveEnded'
  BY DEF NewUntilInserted, DoomedHaveEnded
<1>3. HeldIsRunning' /\ OneHolder'
  BY DEF HeldIsRunning, OneHolder
<1>4. NoLostUpdate'
  BY DEF NoLostUpdate, RecordOf, HoldingHasJob, Holding
<1> QED BY <1>2, <1>3, <1>4

\* A worker rewrites the record of its own job, or hands the job back.
LEMMA ExclusiveHolder ==
  ASSUME Typed, Exclusive, NEW w \in Workers,
         ClaimPersist(w) \/ CheckpointRead(w) \/ CheckpointWrite(w) \/ FinishRead(w)
         \/ FinishWrite(w)
  PROVE  Exclusive'
<1>1. /\ cur[w] \in Jobs /\ cur[w] \notin doomed /\ client[cur[w]] # "none"
      /\ status[cur[w]] \in {"blank", "processing"}
      /\ \A v \in Workers \ {w} : cur[v] # cur[w]
  BY DEF ClaimPersist, CheckpointRead, CheckpointWrite, FinishRead, FinishWrite, Typed, TypeOK,
         HoldingHasJob, Holding, Exclusive, NewUntilInserted, DoomedHaveEnded, HeldIsRunning,
         OneHolder, Terminal
<1>2. CASE ClaimPersist(w)
  BY <1>1, <1>2 DEF ClaimPersist, FirstStep, Goto, Typed, TypeOK, HoldingHasJob, Holding, Exclusive,
         NewUntilInserted, DoomedHaveEnded, HeldIsRunning, OneHolder, NoLostUpdate, RecordOf,
         serverVars
<1>3. CASE CheckpointRead(w)
  BY <1>1, <1>3 DEF CheckpointRead, Goto, Typed, TypeOK, Exclusive, NewUntilInserted,
         DoomedHaveEnded, HeldIsRunning, OneHolder, NoLostUpdate, RecordOf, jobVars, serverVars
<1>4. CASE CheckpointWrite(w)
  BY <1>1, <1>4 DEF CheckpointWrite, Goto, Typed, TypeOK, HoldingHasJob, Holding, Exclusive,
         NewUntilInserted, DoomedHaveEnded, HeldIsRunning, OneHolder, NoLostUpdate, RecordOf,
         serverVars
<1>5. CASE FinishRead(w)
  BY <1>1, <1>5 DEF FinishRead, Released, Goto, Typed, TypeOK, Exclusive, NewUntilInserted,
         DoomedHaveEnded, HeldIsRunning, OneHolder, NoLostUpdate, RecordOf, jobVars, serverVars
<1>6. CASE FinishWrite(w)
  BY <1>1, <1>6 DEF FinishWrite, Released, Goto, Typed, TypeOK, HoldingHasJob, Holding, Exclusive,
         NewUntilInserted, DoomedHaveEnded, HeldIsRunning, OneHolder, NoLostUpdate, RecordOf,
         serverVars
<1> QED BY <1>2, <1>3, <1>4, <1>5, <1>6

\* The rest of process_job does not touch job records.
LEMMA ExclusivePipeline ==
  ASSUME Typed, Exclusive, NEW w \in Workers,
         \/ Listen(w) \/ CheckLeader(w) \/ ClaimNone(w)
         \/ (\E d \in Docs : IngestDocument(w, d)) \/ PipelineFails(w) \/ InsertNodes(w)
         \/ Summarize(w) \/ RemoveTempFile(w)
         \/ TagRead(w) \/ TagWrite(w) \/ IndexNodes(w) \/ ResumeLookup(w) \/ Resummarize(w)
  PROVE  Exclusive'
<1>1. UNCHANGED <<status, ckpt, doomed, client, cur, buf>>
  BY DEF Listen, CheckLeader, ClaimNone, IngestDocument, PipelineFails, InsertNodes, Summarize,
         RemoveTempFile, TagRead, TagWrite, IndexNodes, ResumeLookup, Resummarize, jobVars, serverVars
<1>2. \E l : Goto(w, l) /\ l \notin {"ckptWrite", "finishWrite"}
  BY DEF Listen, CheckLeader, ClaimNone, IngestDocument, PipelineFails, InsertNodes, Summarize,
         RemoveTempFile, TagRead, TagWrite, IndexNodes, ResumeLookup, Resummarize, PipelineEnd,
         AfterPipeline
<1>3. \A v \in Workers : pc'[v] \in {"ckptWrite", "finishWrite"} => pc'[v] = pc[v]
  BY <1>2 DEF Goto, Typed, TypeOK
<1> QED BY <1>1, <1>3, ExclusiveFrame

\* Every step keeps claims exclusive.
LEMMA ExclusiveNext == Typed /\ Exclusive /\ [Next]_vars => Exclusive'
<1> SUFFICES ASSUME Typed, Exclusive, [Next]_vars PROVE Exclusive'
  OBVIOUS
<1>1. CASE ClientStep
  BY <1>1, ExclusiveClient
<1>2. CASE Recover \/ Dispatch \/ Housekeeping \/ LeaderChange \/ Crash
  BY <1>2, ExclusiveServer
<1>3. CASE \E w \in Workers : WorkerStep(w)
  BY <1>3, ExclusiveClaim, ExclusiveHolder, ExclusivePipeline DEF WorkerStep
<1>4. CASE UNCHANGED vars
  BY <1>4, ExclusiveFrame DEF vars, jobVars, serverVars, workerVars
<1> QED BY <1>1, <1>2, <1>3, <1>4 DEF Next

\* The inductive invariant holds in every reachable state.
LEMMA Invariants == Spec => [](Typed /\ Exclusive)
  BY TypedInit, TypedNext, ExclusiveInit, ExclusiveNext, PTL DEF Spec

\* The claim: whatever crashes, failing writes, expiry and deletions happen in between, no two
\* workers ever process the same job.
THEOREM ClaimsAreExclusive == Spec => []OneHolder
<1>1. Typed /\ Exclusive => OneHolder
  BY DEF Exclusive
<1> QED BY <1>1, Invariants, PTL

\* The read-modify-writes of set_checkpoint and update_status, two transactions each, are as
\* good as one: the record has not changed in between.
THEOREM UpdatesAreNotLost == Spec => []NoLostUpdate
<1>1. Typed /\ Exclusive => NoLostUpdate
  BY DEF Exclusive
<1> QED BY <1>1, Invariants, PTL

(***************************************************************************)
(* The queue implements JobLifecycle                                       *)
(***************************************************************************)

\* Equal records have equal lives.
LEMMA LifeUnchanged ==
  ASSUME UNCHANGED status
  PROVE  Life' = Life
  BY DEF Life

\* A change of one record changes that life only.
LEMMA LifeExcept ==
  ASSUME Typed, NEW j \in Jobs, NEW s, status' = [status EXCEPT ![j] = s]
  PROVE  Life' = [Life EXCEPT ![j] = LifeOf(s)]
<1>1. status'[j] = s /\ \A k \in Jobs \ {j} : status'[k] = status[k]
  BY DEF Typed, TypeOK
<1> QED BY <1>1 DEF Life, LifeOf

\* The initial records map to the initial lives.
LEMMA LifecycleInit == Init => Lifecycle!Init
  BY DEF Init, Lifecycle!Init, Life, LifeOf

\* Every step maps to a step of the life cycle or to a stuttering step.
LEMMA LifecycleNext == Typed /\ Exclusive /\ [Next]_vars => [Lifecycle!Next]_Life
<1> SUFFICES ASSUME Typed, Exclusive, [Next]_vars, status' # status
             PROVE  Lifecycle!Next \/ Life' = Life
  BY LifeUnchanged
<1>1. ASSUME NEW j \in Jobs, Enqueue(j) PROVE Lifecycle!Next
  <2>1. status[j] = "new" /\ status' = [status EXCEPT ![j] = "queued"]
    BY <1>1 DEF Enqueue, Exclusive, NewUntilInserted
  <2>2. Lifecycle!Submit(j)
    BY <2>1, LifeExcept DEF Lifecycle!Submit, Life, LifeOf
  <2> QED BY <2>2 DEF Lifecycle!Next
<1>2. ASSUME NEW j \in Jobs, ResumeJob(j) PROVE Lifecycle!Next
  <2>1. status[j] = "processing" /\ status' = [status EXCEPT ![j] = "queued"]
    BY <1>2 DEF ResumeJob
  <2>2. Lifecycle!Requeue(j)
    BY <2>1, LifeExcept DEF Lifecycle!Requeue, Life, LifeOf
  <2> QED BY <2>2 DEF Lifecycle!Next
<1>3. ASSUME CleanupDelete PROVE Lifecycle!Next
  <2>1. \A j \in doomed : Life[j] \in Lifecycle!Outcomes
    BY DEF Exclusive, DoomedHaveEnded, Typed, TypeOK, Terminal, Life, LifeOf, Lifecycle!Outcomes
  <2>2. Life' = [j \in Jobs |-> IF j \in doomed THEN "gone" ELSE Life[j]]
    BY <1>3 DEF CleanupDelete, Life, LifeOf
  <2>3. doomed \in SUBSET Jobs
    BY DEF Typed, TypeOK
  <2> QED BY <2>1, <2>2, <2>3 DEF Lifecycle!Next, Lifecycle!Forget
<1>4. ASSUME NEW w \in Workers, NEW j \in Jobs, Claim(w, j) PROVE Lifecycle!Next
  <2>1. status[j] = "queued" /\ status' = [status EXCEPT ![j] = "blank"]
    BY <1>4 DEF Claim, FirstQueued
  <2>2. Lifecycle!Begin(j)
    BY <2>1, LifeExcept DEF Lifecycle!Begin, Life, LifeOf
  <2> QED BY <2>2 DEF Lifecycle!Next
<1>5. ASSUME NEW w \in Workers, FinishWrite(w) PROVE Lifecycle!Next
  <2>1. /\ cur[w] \in Jobs /\ status[cur[w]] \in {"blank", "processing"}
        /\ res[w] \in Terminal /\ status' = [status EXCEPT ![cur[w]] = res[w]]
    BY <1>5 DEF FinishWrite, Typed, TypeOK, HoldingHasJob, Holding, Exclusive, HeldIsRunning
  <2>2. Life[cur[w]] = "running" /\ LifeOf(res[w]) = res[w]
    BY <2>1 DEF Life, LifeOf, Terminal
  <2>3. Life' = [Life EXCEPT ![cur[w]] = res[w]]
    BY <2>1 DEF Life, LifeOf, Terminal, Typed, TypeOK
  <2>4. Lifecycle!End(cur[w])
    BY <2>1, <2>2, <2>3 DEF Lifecycle!End, Lifecycle!Outcomes, Terminal
  <2> QED BY <2>1, <2>4 DEF Lifecycle!Next
<1>6. ASSUME NEW w \in Workers, ClaimPersist(w) \/ CheckpointWrite(w) PROVE Life' = Life
  <2>1. /\ cur[w] \in Jobs /\ status[cur[w]] \in {"blank", "processing"}
        /\ \E s \in {"blank", "processing"} : status' = [status EXCEPT ![cur[w]] = s]
    BY <1>6 DEF ClaimPersist, CheckpointWrite, Typed, TypeOK, HoldingHasJob, Holding, Exclusive,
                HeldIsRunning, NoLostUpdate, RecordOf
  <2>2. PICK s \in {"blank", "processing"} : status' = [status EXCEPT ![cur[w]] = s]
    BY <2>1
  <2>3. Life' = [Life EXCEPT ![cur[w]] = "running"] /\ Life[cur[w]] = "running"
    BY <2>1, <2>2, LifeExcept DEF Life, LifeOf
  <2> QED BY <2>3 DEF Life
<1>7. ASSUME NEW w \in Workers,
             \/ Listen(w) \/ CheckLeader(w) \/ ClaimNone(w)
             \/ (\E d \in Docs : IngestDocument(w, d)) \/ PipelineFails(w) \/ InsertNodes(w)
             \/ CheckpointRead(w) \/ Summarize(w) \/ RemoveTempFile(w) \/ TagRead(w) \/ TagWrite(w)
             \/ IndexNodes(w) \/ ResumeLookup(w) \/ Resummarize(w) \/ FinishRead(w)
      PROVE  UNCHANGED status
  BY <1>7 DEF Listen, CheckLeader, ClaimNone, IngestDocument, PipelineFails, InsertNodes,
         CheckpointRead, Summarize, RemoveTempFile, TagRead, TagWrite, IndexNodes, ResumeLookup,
         Resummarize, FinishRead, jobVars
<1>8. ASSUME NEW j \in Jobs, EnqueueNotify(j) \/ EnqueueReply(j) \/ Expire(j)
      PROVE  UNCHANGED status
  BY <1>8 DEF EnqueueNotify, EnqueueReply, Expire, jobVars
<1>9. ASSUME NEW d \in Docs, DeleteDocument(d) \/ UnindexDocument(d) PROVE UNCHANGED status
  BY <1>9 DEF DeleteDocument, UnindexDocument, jobVars
<1>10. ASSUME Start \/ StartWorkers \/ Dispatch \/ CleanupRead \/ LeaderChange \/ Crash
       PROVE  UNCHANGED status
  BY <1>10 DEF Start, StartWorkers, Dispatch, CleanupRead, LeaderChange, Crash, jobVars
<1>11. CASE UNCHANGED vars
  BY <1>11 DEF vars, jobVars
<1>12. CASE ClientStep
  BY <1>12, <1>1, <1>8, <1>9 DEF ClientStep
<1>13. CASE Recover
  BY <1>13, <1>2, <1>10 DEF Recover
<1>14. CASE \E w \in Workers : WorkerStep(w)
  BY <1>14, <1>4, <1>5, <1>6, <1>7 DEF WorkerStep
<1>15. CASE Housekeeping
  BY <1>15, <1>3, <1>8, <1>10 DEF Housekeeping
<1> QED BY <1>10, <1>11, <1>12, <1>13, <1>14, <1>15 DEF Next

\* The queue with its workers, crashes and failing writes implements JobLifecycle: an outcome
\* comes from a running job, is never replaced, and only jobs with an outcome are forgotten.
THEOREM ImplementsLifecycle == Spec => LifecycleSpec
<1>1. Spec => Lifecycle!Init
  BY LifecycleInit DEF Spec
<1>2. Spec => [][Lifecycle!Next]_Life
  BY LifecycleNext, Invariants, PTL DEF Spec
<1> QED BY <1>1, <1>2 DEF LifecycleSpec, Lifecycle!Spec

(***************************************************************************)
(* Checkpoints                                                             *)
(***************************************************************************)

\* The nodes of the document reached the store, whatever became of it since.
Settled(d) == docState[d] \notin {"none", "doc"}

\* A worker's document, and the checkpoint of the record it read, belong to its job.
OwnDoc ==
  \A w \in Workers :
    /\ cur[w] = NoJob => doc[w] = NoDoc /\ buf[w].ckpt = NoDoc
    /\ doc[w] # NoDoc => docJob[doc[w]] = cur[w] /\ docState[doc[w]] # "none"
    /\ pc[w] \in {"ckptRead", "ckptWrite"} => Settled(doc[w])
    /\ buf[w].ckpt # NoDoc => docJob[buf[w].ckpt] = cur[w] /\ Settled(buf[w].ckpt)

\* A document id that was not generated yet has no job.
FreshDocs == \A d \in Docs : docState[d] = "none" => docJob[d] = NoJob

\* A worker that is about to chunk holds a job without a checkpoint.
Unchunked ==
  \A w \in Workers :
    /\ pc[w] = "claimed" => ckpt[cur[w]] = NoDoc
    /\ pc[w] = "ingest" => ckpt[cur[w]] = NoDoc /\ buf[w].ckpt = NoDoc

\* CheckpointIsResumable is not inductive: the checkpoint comes from the worker's document or from
\* the record it read at the claim, so that these have to be right as well.
Checkpoints == CheckpointIsResumable /\ OwnDoc /\ FreshDocs /\ Unchunked

\* No record names a checkpoint at first.
LEMMA CheckpointsInit == Init => Checkpoints
  BY JobsAssumption DEF Init, Checkpoints, CheckpointIsResumable, OwnDoc, FreshDocs, Unchunked

\* Steps that leave records, jobs and documents with the workers; documents only move on.
LEMMA CheckpointsFrame ==
  ASSUME Typed, Checkpoints, UNCHANGED <<ckpt, cur, buf, doc, docJob>>,
         \A d \in Docs : docState'[d] = docState[d] \/ (docState[d] # "none" /\ docState'[d] \notin {"none", "doc"}),
         \A w \in Workers :
           /\ pc'[w] \in {"ckptRead", "ckptWrite"} => pc'[w] = pc[w] \/ docState'[doc[w]] \notin {"none", "doc"}
           /\ pc'[w] \in {"claimed", "ingest"} => pc'[w] = pc[w]
  PROVE  Checkpoints'
<1>1. CheckpointIsResumable' /\ FreshDocs'
  BY DEF Typed, TypeOK, Checkpoints, CheckpointIsResumable, FreshDocs, Settled
<1>2. Unchunked'
  BY DEF Typed, TypeOK, Checkpoints, Unchunked
<1>3. OwnDoc'
  <2> SUFFICES ASSUME NEW w \in Workers
               PROVE  /\ cur[w] = NoJob => doc[w] = NoDoc /\ buf[w].ckpt = NoDoc
                      /\ doc[w] # NoDoc => docJob[doc[w]] = cur[w] /\ docState'[doc[w]] # "none"
                      /\ pc'[w] \in {"ckptRead", "ckptWrite"} => docState'[doc[w]] \notin {"none", "doc"}
                      /\ buf[w].ckpt # NoDoc => docJob[buf[w].ckpt] = cur[w] /\ docState'[buf[w].ckpt] \notin {"none", "doc"}
    BY DEF OwnDoc, Settled
  <2>1. doc[w] \in Docs \cup {NoDoc} /\ buf[w].ckpt \in Docs \cup {NoDoc}
    BY DEF Typed, TypeOK, Record
  <2>2. pc[w] \in {"ckptRead", "ckptWrite"} => doc[w] # NoDoc
    BY DEF Typed, DocKnown
  <2> QED BY <2>1, <2>2 DEF Checkpoints, OwnDoc, Settled
<1> QED BY <1>1, <1>2, <1>3 DEF Checkpoints

\* Requests and deletions leave checkpoints alone.
LEMMA CheckpointsClient ==
  ASSUME Typed, Checkpoints, ClientStep
  PROVE  Checkpoints'
<1>1. ASSUME NEW j \in Jobs, Enqueue(j) \/ EnqueueNotify(j) \/ EnqueueReply(j) PROVE Checkpoints'
  BY <1>1, CheckpointsFrame
  DEF Enqueue, EnqueueNotify, EnqueueReply, jobVars, docVars, serverVars, workerVars
<1>2. ASSUME NEW d \in Docs, DeleteDocument(d) PROVE Checkpoints'
  <2>1. docState[d] # "none" /\ docState' = [docState EXCEPT ![d] = "deleted"]
    BY <1>2 DEF DeleteDocument, Stored
  <2>2. \A e \in Docs : docState'[e] = docState[e] \/ (docState[e] # "none" /\ docState'[e] \notin {"none", "doc"})
    BY <2>1 DEF Settled, Typed, TypeOK
  <2> QED BY <1>2, <2>2, CheckpointsFrame DEF DeleteDocument, jobVars, workerVars
<1>3. ASSUME NEW d \in Docs, UnindexDocument(d) PROVE Checkpoints'
  BY <1>3, CheckpointsFrame DEF UnindexDocument, jobVars, workerVars
<1> QED BY <1>1, <1>2, <1>3 DEF ClientStep

\* Startup, recovery, cleanup and crashes keep checkpoints or drop them.
LEMMA CheckpointsServer ==
  ASSUME Typed, Checkpoints, Recover \/ Dispatch \/ Housekeeping \/ LeaderChange \/ Crash
  PROVE  Checkpoints'
<1>1. CASE Start \/ StartWorkers \/ Dispatch \/ CleanupRead \/ LeaderChange
  <2>1. UNCHANGED <<ckpt, cur, buf, doc, docJob, docState>>
    BY <1>1 DEF Start, StartWorkers, Dispatch, CleanupRead, LeaderChange, jobVars, docVars, workerVars
  <2>2. \A w \in Workers : pc'[w] \in {"ckptRead", "ckptWrite", "claimed", "ingest"} => pc'[w] = pc[w]
    BY <1>1 DEF Start, StartWorkers, Dispatch, CleanupRead, LeaderChange, workerVars
  <2> QED BY <2>1, <2>2, CheckpointsFrame
<1>2. ASSUME NEW j \in Jobs, ResumeJob(j) \/ Expire(j) PROVE Checkpoints'
  BY <1>2, CheckpointsFrame DEF ResumeJob, Expire, docVars, workerVars
<1>3. CASE CleanupDelete
  BY <1>3 DEF CleanupDelete, Typed, TypeOK, HoldingHasJob, Holding, Checkpoints, CheckpointIsResumable, OwnDoc,
              FreshDocs, Unchunked, Settled, docVars, workerVars
<1>4. CASE Crash
  BY <1>4 DEF Crash, Checkpoints, CheckpointIsResumable, OwnDoc, FreshDocs, Unchunked, jobVars
<1> QED BY <1>1, <1>2, <1>3, <1>4 DEF Recover, Housekeeping

\* The steps of a worker that move its document on.
LEMMA CheckpointsPipeline ==
  ASSUME Typed, Checkpoints, NEW w \in Workers,
         \/ Listen(w) \/ CheckLeader(w) \/ ClaimNone(w)
         \/ PipelineFails(w) \/ InsertNodes(w) \/ Summarize(w) \/ RemoveTempFile(w)
         \/ TagRead(w) \/ TagWrite(w) \/ IndexNodes(w) \/ ResumeLookup(w) \/ Resummarize(w)
  PROVE  Checkpoints'
<1>1. UNCHANGED <<ckpt, cur, buf, doc, docJob>>
  BY DEF Listen, CheckLeader, ClaimNone, PipelineFails, InsertNodes, Summarize,
         RemoveTempFile, TagRead, TagWrite, IndexNodes, ResumeLookup, Resummarize, jobVars, docVars
<1>2. \A d \in Docs : docState'[d] = docState[d] \/ (docState[d] # "none" /\ docState'[d] \notin {"none", "doc"})
  <2>1. CASE InsertNodes(w) \/ Summarize(w) \/ TagWrite(w) \/ Resummarize(w)
    <3>1. doc[w] \in Docs /\ docState[doc[w]] # "none"
      BY <2>1 DEF InsertNodes, Summarize, TagWrite, Resummarize, Typed, TypeOK, DocKnown, Checkpoints, OwnDoc
    <3> QED BY <2>1, <3>1 DEF InsertNodes, Summarize, TagWrite, Resummarize, SummarizeNodes, Summarized,
                              Stored, Settled, Typed, TypeOK
  <2>2. CASE ~(InsertNodes(w) \/ Summarize(w) \/ TagWrite(w) \/ Resummarize(w))
    BY <2>2 DEF Listen, CheckLeader, ClaimNone, PipelineFails, RemoveTempFile, TagRead, IndexNodes,
                ResumeLookup, docVars
  <2> QED BY <2>1, <2>2
<1>3. ASSUME NEW v \in Workers
      PROVE  /\ pc'[v] \in {"ckptRead", "ckptWrite"} => pc'[v] = pc[v] \/ docState'[doc[v]] \notin {"none", "doc"}
             /\ pc'[v] \in {"claimed", "ingest"} => pc'[v] = pc[v]
  <2>1. CASE InsertNodes(w)
    <3>1. doc[w] \in Docs /\ doc' = doc
      BY <2>1 DEF InsertNodes, Typed, TypeOK, DocKnown
    <3>2. docState'[doc[w]] \notin {"none", "doc"}
      BY <2>1, <3>1 DEF InsertNodes, Settled, Typed, TypeOK
    <3> QED BY <2>1, <3>2 DEF InsertNodes, Goto, Typed, TypeOK
  <2>2. CASE ~InsertNodes(w)
    <3>1. \E l : Goto(w, l) /\ l \notin {"ckptRead", "ckptWrite", "claimed", "ingest"}
      BY <2>2 DEF Listen, CheckLeader, ClaimNone, PipelineFails, Summarize, RemoveTempFile, TagRead,
                  TagWrite, IndexNodes, ResumeLookup, Resummarize, PipelineEnd, AfterPipeline
    <3> QED BY <3>1 DEF Goto, Typed, TypeOK
  <2> QED BY <2>1, <2>2
<1> QED BY <1>1, <1>2, <1>3, CheckpointsFrame

\* What is known of the job in a worker's hands.
LEMMA Held ==
  ASSUME Typed, Exclusive, NEW w \in Workers, pc[w] \in Holding
  PROVE  /\ cur[w] \in Jobs /\ status[cur[w]] \in {"blank", "processing"} /\ phase = "serving"
         /\ \A v \in Workers \ {w} : cur[v] # cur[w]
         /\ client[cur[w]] # "none" /\ cur[w] \notin doomed
<1>1. cur[w] \in Jobs /\ cur[w] # NoJob
  BY DEF Typed, TypeOK, HoldingHasJob
<1>2. phase = "serving"
  BY DEF Typed, PoolOff, Holding
<1> QED BY <1>1, <1>2
        DEF Exclusive, HeldIsRunning, OneHolder, NewUntilInserted, DoomedHaveEnded, Terminal

\* The worker reads and writes the record of its own job.
LEMMA CheckpointsHolder ==
  ASSUME Typed, Exclusive, Checkpoints, NEW w \in Workers,
         \/ ClaimPersist(w) \/ CheckpointRead(w) \/ CheckpointWrite(w)
         \/ FinishRead(w) \/ FinishWrite(w)
  PROVE  Checkpoints'
<1>1. /\ cur[w] \in Jobs /\ \A v \in Workers \ {w} : cur[v] # cur[w]
      /\ buf[w].ckpt \in Docs \cup {NoDoc} /\ doc[w] \in Docs \cup {NoDoc}
  BY Held DEF ClaimPersist, CheckpointRead, CheckpointWrite, FinishRead, FinishWrite, Holding, Typed, TypeOK,
              Record
<1> USE <1>1 DEF Typed, TypeOK, Checkpoints, docVars, serverVars, jobVars, Goto
<1>2. FreshDocs'
  BY DEF ClaimPersist, CheckpointRead, CheckpointWrite, FinishRead, FinishWrite, FreshDocs
<1>3. CASE ClaimPersist(w)
  BY <1>3, JobsAssumption DEF ClaimPersist, FirstStep, CheckpointIsResumable, OwnDoc, Unchunked, Settled, 
     HoldingHasJob, Holding, FreshDocs
<1>4. CASE CheckpointRead(w)
  <2>1. /\ UNCHANGED <<ckpt, docState, docJob>> /\ \A v \in Workers \ {w} : UNCHANGED <<cur[v], doc[v], buf[v], pc[v]>>
        /\ pc'[w] \notin {"claimed", "ingest", "ckptRead"}
        /\ cur'[w] = cur[w] /\ doc'[w] = doc[w] /\ buf'[w].ckpt \in {buf[w].ckpt, ckpt[cur[w]]}
    BY <1>4 DEF CheckpointRead, RecordOf
  <2>2. CheckpointIsResumable'
    BY <2>1 DEF CheckpointIsResumable
  <2>3. Unchunked'
    BY <2>1 DEF Unchunked
  <2>4. OwnDoc'
    BY <1>4, <2>1, JobsAssumption DEF CheckpointRead, CheckpointIsResumable, OwnDoc, Settled
  <2> QED BY <1>2, <2>2, <2>3, <2>4
<1>5. CASE CheckpointWrite(w)
  BY <1>5 DEF CheckpointWrite, CheckpointIsResumable, OwnDoc, Unchunked, Settled, HoldingHasJob, Holding, FreshDocs
<1>6. CASE FinishRead(w)
  <2>1. /\ UNCHANGED <<ckpt, docState, docJob>> /\ \A v \in Workers \ {w} : UNCHANGED <<cur[v], doc[v], buf[v], pc[v]>>
        /\ pc'[w] \notin {"claimed", "ingest", "ckptRead"}
        /\ \/ cur'[w] = cur[w] /\ doc'[w] = doc[w] /\ buf'[w].ckpt = ckpt[cur[w]]
           \/ cur'[w] = NoJob /\ doc'[w] = NoDoc /\ buf'[w].ckpt = NoDoc
    BY <1>6 DEF FinishRead, RecordOf, Released
  <2>2. CheckpointIsResumable'
    BY <2>1 DEF CheckpointIsResumable
  <2>3. Unchunked'
    BY <2>1 DEF Unchunked
  <2>4. OwnDoc'
    BY <1>6, <2>1, JobsAssumption DEF FinishRead, CheckpointIsResumable, OwnDoc, Settled
  <2> QED BY <1>2, <2>2, <2>3, <2>4
<1>7. CASE FinishWrite(w)
  BY <1>7 DEF FinishWrite, Released, CheckpointIsResumable, OwnDoc, Unchunked, Settled, HoldingHasJob, Holding, FreshDocs
<1> QED BY <1>3, <1>4, <1>5, <1>6, <1>7

\* The claim moves the checkpoint from the record into the worker.
LEMMA CheckpointsClaim ==
  ASSUME Typed, Exclusive, Checkpoints, NEW w \in Workers, NEW j \in Jobs, Claim(w, j)
  PROVE  Checkpoints'
<1>1. cur[w] = NoJob /\ \A v \in Workers : cur[v] # j
  BY JobsAssumption DEF Claim, FirstQueued, Typed, HoldingHasJob, Holding, Exclusive, HeldIsRunning
<1> QED BY <1>1, JobsAssumption
        DEF Claim, Goto, RecordOf, Typed, TypeOK, Checkpoints, CheckpointIsResumable, OwnDoc, FreshDocs, Unchunked,
            Settled, HoldingHasJob, Holding, docVars

\* A new document gets an id that nobody knows.
LEMMA CheckpointsIngest ==
  ASSUME Typed, Exclusive, Checkpoints, NEW w \in Workers, NEW d \in Docs, IngestDocument(w, d)
  PROVE  Checkpoints'
<1>1. /\ cur[w] \in Jobs /\ docState[d] = "none" /\ docJob[d] = NoJob /\ ckpt' = ckpt /\ cur' = cur /\ buf' = buf
      /\ docState' = [docState EXCEPT ![d] = "doc"] /\ docJob' = [docJob EXCEPT ![d] = cur[w]]
      /\ doc' = [doc EXCEPT ![w] = d] /\ pc' = [pc EXCEPT ![w] = "nodes"]
  BY Held DEF IngestDocument, Holding, Checkpoints, FreshDocs, Goto, jobVars
<1> USE <1>1 DEF Typed, TypeOK, Checkpoints
<1>2. CheckpointIsResumable' /\ FreshDocs'
  BY JobsAssumption DEF CheckpointIsResumable, FreshDocs
<1>3. OwnDoc'
  BY JobsAssumption DEF OwnDoc, Settled, Record
<1>4. Unchunked'
  BY DEF Unchunked
<1> QED BY <1>2, <1>3, <1>4

\* Every step keeps checkpoints resumable.
LEMMA CheckpointsNext == Typed /\ Exclusive /\ Checkpoints /\ [Next]_vars => Checkpoints'
<1> SUFFICES ASSUME Typed, Exclusive, Checkpoints, [Next]_vars PROVE Checkpoints'
  OBVIOUS
<1>1. CASE ClientStep
  BY <1>1, CheckpointsClient
<1>2. CASE Recover \/ Dispatch \/ Housekeeping \/ LeaderChange \/ Crash
  BY <1>2, CheckpointsServer
<1>3. CASE \E w \in Workers : WorkerStep(w)
  BY <1>3, CheckpointsPipeline, CheckpointsHolder, CheckpointsClaim, CheckpointsIngest DEF WorkerStep
<1>4. CASE UNCHANGED vars
  BY <1>4, CheckpointsFrame DEF vars, jobVars, docVars, workerVars
<1> QED BY <1>1, <1>2, <1>3, <1>4 DEF Next

\* The invariants up to here hold in every reachable state.
LEMMA CheckpointsHold == Spec => [](Typed /\ Exclusive /\ Checkpoints)
  BY Invariants, CheckpointsInit, CheckpointsNext, PTL DEF Spec

\* Whenever a server dies, the checkpoint it left names a document of that very job whose nodes are
\* stored: resume_summarization finds what it needs.
THEOREM CheckpointsAreResumable == Spec => []CheckpointIsResumable
<1>1. Checkpoints => CheckpointIsResumable
  BY DEF Checkpoints
<1> QED BY <1>1, CheckpointsHold, PTL

\* Only tree building generates a document.
LEMMA DocJobChanges ==
  ASSUME [Next]_vars, \A w \in Workers, d \in Docs : ~IngestDocument(w, d)
  PROVE  docJob' = docJob
<1>1. CASE ClientStep
  BY <1>1 DEF ClientStep, Enqueue, EnqueueNotify, EnqueueReply, DeleteDocument, UnindexDocument, docVars
<1>2. CASE Recover \/ Dispatch \/ Housekeeping \/ LeaderChange \/ Crash
  BY <1>2 DEF Recover, Housekeeping, Start, StartWorkers, ResumeJob, Dispatch, CleanupRead, CleanupDelete,
              Expire, LeaderChange, Crash, docVars
<1>3. ASSUME NEW w \in Workers, WorkerStep(w) PROVE docJob' = docJob
  BY <1>3 DEF WorkerStep, Listen, CheckLeader, Claim, ClaimNone, ClaimPersist, PipelineFails, InsertNodes,
              CheckpointRead, CheckpointWrite, Summarize, RemoveTempFile, TagRead, TagWrite, IndexNodes,
              ResumeLookup, Resummarize, FinishRead, FinishWrite, docVars
<1>4. CASE UNCHANGED vars
  BY <1>4 DEF vars, docVars
<1> QED BY <1>1, <1>2, <1>3, <1>4 DEF Next

\* A document is generated for one job, which has no checkpoint.
LEMMA IngestDocsOf ==
  ASSUME Typed, Exclusive, Checkpoints, NEW w \in Workers, NEW d \in Docs, IngestDocument(w, d), NEW j \in Jobs
  PROVE  /\ j # cur[w] => DocsOf(j)' = DocsOf(j)
         /\ j = cur[w] => DocsOf(j)' = DocsOf(j) \cup {d} /\ d \notin DocsOf(j) /\ ~Checkpointed(j)
<1>1. /\ pc[w] = "ingest" /\ cur[w] \in Jobs /\ docJob[d] = NoJob /\ docJob' = [docJob EXCEPT ![d] = cur[w]]
      /\ \A v \in Workers \ {w} : cur[v] # cur[w]
  BY Held DEF IngestDocument, Holding, Checkpoints, FreshDocs
<1>2. ~Checkpointed(cur[w])
  BY <1>1 DEF Checkpointed, Checkpoints, Unchunked
<1>3. docJob \in [Docs -> Jobs \cup {NoJob}]
  BY DEF Typed, TypeOK
<1> QED BY <1>1, <1>2, <1>3, JobsAssumption DEF DocsOf

\* Once a job has a checkpoint, no interleaving and no restart builds a second document for it.
THEOREM ChunksAreKept == Spec => NoRechunking
<1>1. Typed /\ Exclusive /\ Checkpoints /\ [Next]_vars
        => [\A j \in Jobs : Checkpointed(j) => DocsOf(j)' = DocsOf(j)]_vars
  <2> SUFFICES ASSUME Typed, Exclusive, Checkpoints, [Next]_vars, NEW j \in Jobs, Checkpointed(j)
               PROVE  DocsOf(j)' = DocsOf(j)
    OBVIOUS
  <2>1. ASSUME NEW w \in Workers, NEW d \in Docs, IngestDocument(w, d) PROVE DocsOf(j)' = DocsOf(j)
    BY <2>1, IngestDocsOf
  <2>2. CASE \A w \in Workers, d \in Docs : ~IngestDocument(w, d)
    BY <2>2, DocJobChanges DEF DocsOf
  <2> QED BY <2>1, <2>2
<1> QED BY <1>1, CheckpointsHold, PTL DEF Spec, NoRechunking

(***************************************************************************)
(* Recovery                                                                *)
(***************************************************************************)

\* The startup scan has what is left to put back, as long as no write fails.
Recovering ==
  phase = "resuming" /\ faults = 0 => \A j \in Jobs : status[j] = "processing" => j \in todo

Recovered == Recovering /\ ProcessingIsHeld

\* A server that never ran has nothing to recover.
LEMMA RecoveredInit == Init => Recovered
  BY DEF Init, Recovered, Recovering, ProcessingIsHeld

\* Steps that process no further job and let none go.
LEMMA RecoveredFrame ==
  ASSUME Typed, Recovered, UNCHANGED <<phase, todo, cur>>, faults' \in Nat, faults' >= faults,
         \A j \in Jobs : status'[j] = "processing" => status[j] = "processing"
  PROVE  Recovered'
<1>1. faults' = 0 => faults = 0
  BY DEF Typed, TypeOK
<1> QED BY <1>1 DEF Recovered, Recovering, ProcessingIsHeld, HeldBySome

\* Every step keeps what is processed with a worker or with the startup scan.
LEMMA RecoveredNext == Typed /\ Exclusive /\ Recovered /\ [Next]_vars => Recovered'
<1> SUFFICES ASSUME Typed, Exclusive, Recovered, [Next]_vars PROVE Recovered'
  OBVIOUS
<1>0. faults \in Nat /\ MaxFaults \in Nat /\ status \in [Jobs -> Statuses] /\ cur \in [Workers -> Jobs \cup {NoJob}]
  BY JobsAssumption DEF Typed, TypeOK
<1>1. ASSUME NEW j \in Jobs, Enqueue(j) \/ EnqueueNotify(j) \/ EnqueueReply(j) \/ Expire(j) PROVE Recovered'
  <2>1. UNCHANGED <<phase, todo, cur>> /\ faults' \in Nat /\ faults' >= faults
    BY <1>0, <1>1 DEF Enqueue, EnqueueNotify, EnqueueReply, Expire, Commits, Fails, serverVars, workerVars
  <2>2. \A k \in Jobs : status'[k] = "processing" => status[k] = "processing"
    BY <1>0, <1>1 DEF Enqueue, EnqueueNotify, EnqueueReply, Expire, jobVars
  <2> QED BY <2>1, <2>2, RecoveredFrame
<1>2. ASSUME NEW d \in Docs, DeleteDocument(d) \/ UnindexDocument(d) PROVE Recovered'
  BY <1>0, <1>2, RecoveredFrame DEF DeleteDocument, UnindexDocument, jobVars, serverVars, workerVars
<1>3. CASE Start
  BY <1>0, <1>3 DEF Start, Recovered, Recovering, ProcessingIsHeld, jobVars
<1>4. ASSUME NEW j \in Jobs, ResumeJob(j) PROVE Recovered'
  BY <1>0, <1>4 DEF ResumeJob, Commits, Fails, Recovered, Recovering, ProcessingIsHeld
<1>5. CASE StartWorkers
  BY <1>0, <1>5 DEF StartWorkers, Recovered, Recovering, ProcessingIsHeld, jobVars
<1>6. CASE Dispatch \/ CleanupRead \/ CleanupDelete \/ LeaderChange
  <2>1. UNCHANGED <<phase, todo, cur, faults>>
    BY <1>6 DEF Dispatch, CleanupRead, CleanupDelete, LeaderChange, workerVars
  <2>2. \A k \in Jobs : status'[k] = "processing" => status[k] = "processing"
    BY <1>0, <1>6 DEF Dispatch, CleanupRead, CleanupDelete, LeaderChange, jobVars
  <2> QED BY <1>0, <2>1, <2>2, RecoveredFrame
<1>7. CASE Crash
  BY <1>7 DEF Crash, Recovered, Recovering, ProcessingIsHeld
<1>8. ASSUME NEW w \in Workers, NEW j \in Jobs, Claim(w, j) PROVE Recovered'
  <2>1. \A v \in Workers : v # w => cur'[v] = cur[v]
    BY <1>0, <1>8 DEF Claim
  <2>2. cur[w] = NoJob
    BY <1>8 DEF Claim, Typed, HoldingHasJob, Holding
  <2>3. \A k \in Jobs : status'[k] = "processing" => status[k] = "processing"
    BY <1>0, <1>8 DEF Claim
  <2> QED BY <1>0, <1>8, <2>1, <2>2, <2>3, JobsAssumption
          DEF Claim, Recovered, Recovering, ProcessingIsHeld, HeldBySome, serverVars
<1>9. ASSUME NEW w \in Workers, ClaimPersist(w) \/ CheckpointWrite(w) PROVE Recovered'
  <2>1. /\ cur[w] \in Jobs /\ phase = "serving" /\ UNCHANGED <<phase, todo, cur>> /\ faults' \in Nat /\ faults' >= faults
        /\ \A k \in Jobs \ {cur[w]} : status'[k] = status[k]
    BY <1>0, <1>9, Held DEF ClaimPersist, CheckpointWrite, Holding, Commits, Fails, serverVars
  <2> QED BY <1>0, <2>1 DEF Recovered, Recovering, ProcessingIsHeld, HeldBySome
<1>10. ASSUME NEW w \in Workers, FinishRead(w) PROVE Recovered'
  <2>1. /\ cur[w] \in Jobs /\ phase = "serving" /\ UNCHANGED <<phase, todo, faults, status>>
        /\ \A v \in Workers : v # w => cur'[v] = cur[v]
        /\ cur'[w] # cur[w] => status[cur[w]] # "processing"
    BY <1>0, <1>10, Held DEF FinishRead, Released, Decodes, Holding, serverVars, jobVars
  <2> QED BY <1>0, <2>1 DEF Recovered, Recovering, ProcessingIsHeld, HeldBySome
<1>11. ASSUME NEW w \in Workers, FinishWrite(w) PROVE Recovered'
  <2>1. /\ cur[w] \in Jobs /\ phase = "serving" /\ UNCHANGED <<phase, todo>> /\ res[w] # "processing"
        /\ \A v \in Workers : v # w => cur'[v] = cur[v]
        /\ \A k \in Jobs \ {cur[w]} : status'[k] = status[k]
    BY <1>0, <1>11, Held DEF FinishWrite, Released, Holding, serverVars, Typed, TypeOK, Terminal
  <2>2. CASE Fails
    <3>1. faults' # 0
      BY <1>0, <2>2 DEF Fails
    <3> QED BY <2>1, <3>1 DEF Recovered, Recovering, ProcessingIsHeld
  <2>3. CASE Commits /\ status' = [status EXCEPT ![cur[w]] = res[w]]
    BY <1>0, <2>1, <2>3 DEF Commits, Recovered, Recovering, ProcessingIsHeld, HeldBySome
  <2> QED BY <1>11, <2>2, <2>3 DEF FinishWrite
<1>12. ASSUME NEW w \in Workers,
              \/ Listen(w) \/ CheckLeader(w) \/ ClaimNone(w)
              \/ (\E d \in Docs : IngestDocument(w, d)) \/ PipelineFails(w) \/ InsertNodes(w)
              \/ CheckpointRead(w) \/ Summarize(w) \/ RemoveTempFile(w) \/ TagRead(w) \/ TagWrite(w)
              \/ IndexNodes(w) \/ ResumeLookup(w) \/ Resummarize(w)
       PROVE  Recovered'
  <2>1. UNCHANGED <<phase, todo, cur, status>> /\ faults' \in Nat /\ faults' >= faults
    BY <1>0, <1>12 DEF Listen, CheckLeader, ClaimNone, Commits, Fails, IngestDocument, PipelineFails, InsertNodes,
         CheckpointRead, Summarize, RemoveTempFile, TagRead, TagWrite, IndexNodes, ResumeLookup,
         Resummarize, jobVars, serverVars
  <2> QED BY <2>1, RecoveredFrame
<1>13. CASE UNCHANGED vars
  BY <1>0, <1>13, RecoveredFrame DEF vars, jobVars, serverVars, workerVars
<1>14. CASE ClientStep
  BY <1>14, <1>1, <1>2 DEF ClientStep
<1>15. CASE Recover \/ Dispatch \/ Housekeeping \/ LeaderChange \/ Crash
  BY <1>15, <1>1, <1>3, <1>4, <1>5, <1>6, <1>7 DEF Recover, Housekeeping
<1>16. CASE \E w \in Workers : WorkerStep(w)
  BY <1>16, <1>8, <1>9, <1>10, <1>11, <1>12 DEF WorkerStep
<1> QED BY <1>13, <1>14, <1>15, <1>16 DEF Next

\* Crash recovery leaves no job behind that is shown as processing and that no worker processes.
THEOREM RecoveryIsComplete == Spec => []ProcessingIsHeld
<1>1. Spec => []Recovered
  BY Invariants, RecoveredInit, RecoveredNext, PTL DEF Spec
<1>2. Recovered => ProcessingIsHeld
  BY DEF Recovered
<1> QED BY <1>1, <1>2, PTL

(***************************************************************************)
(* Completion                                                              *)
(***************************************************************************)

\* Faults and crashes are only ever counted up.
LEMMA CountersGrow ==
  ASSUME Typed, [Next]_vars
  PROVE  /\ faults' = 0 => faults = 0
         /\ crashes' = 0 => crashes = 0 /\ ~Crash
         /\ crashes' # crashes => Crash
<1>0. faults \in Nat /\ crashes \in Nat
  BY JobsAssumption DEF Typed, TypeOK
<1>1. CASE Crash
  BY <1>0, <1>1 DEF Crash
<1>2. CASE ClientStep
  BY <1>0, <1>2 DEF ClientStep, Enqueue, EnqueueNotify, EnqueueReply, DeleteDocument, UnindexDocument, Commits,
                    Fails, Crash
<1>3. CASE Recover \/ Dispatch \/ Housekeeping \/ LeaderChange
  BY <1>0, <1>3 DEF Recover, Housekeeping, Start, StartWorkers, ResumeJob, Dispatch, CleanupRead, CleanupDelete,
                    Expire, LeaderChange, Commits, Fails, Crash
<1>4. ASSUME NEW w \in Workers, WorkerStep(w)
      PROVE  (faults' = 0 => faults = 0) /\ crashes' = crashes
  <2>1. CASE ClaimNone(w) \/ ClaimPersist(w) \/ CheckpointWrite(w) \/ FinishWrite(w)
    BY <1>0, <2>1 DEF ClaimNone, ClaimPersist, CheckpointWrite, FinishWrite, Commits, Fails
  <2>2. CASE ~(ClaimNone(w) \/ ClaimPersist(w) \/ CheckpointWrite(w) \/ FinishWrite(w))
    BY <1>4, <2>2 DEF WorkerStep, Listen, CheckLeader, Claim, IngestDocument, PipelineFails, InsertNodes,
              CheckpointRead, Summarize, RemoveTempFile, TagRead, TagWrite, IndexNodes, ResumeLookup,
              Resummarize, FinishRead
  <2> QED BY <2>1, <2>2
<1>5. CASE UNCHANGED vars
  BY <1>5 DEF vars, Crash
<1> QED BY <1>0, <1>1, <1>2, <1>3, <1>4, <1>5 DEF Next, Crash

\* What a worker holds, its record included, changes only by the worker's own steps, or by a crash.
Kept(v) ==
  /\ pc'[v] \in Holding => pc[v] \in Holding
  /\ pc[v] \in Holding =>
       /\ pc'[v] = pc[v] /\ cur'[v] = cur[v] /\ buf'[v] = buf[v] /\ doc'[v] = doc[v] /\ res'[v] = res[v]
       /\ status'[cur[v]] = status[cur[v]] /\ ckpt'[cur[v]] = ckpt[cur[v]]

\* No request, no cleanup and no other worker touches a held job or its record.
LEMMA HeldUntouched ==
  ASSUME Typed, Exclusive, [Next]_vars, NEW v \in Workers, ~Crash, ~WorkerStep(v)
  PROVE  Kept(v)
<1>1. pc[v] \in Holding =>
        /\ cur[v] \in Jobs /\ status[cur[v]] \in {"blank", "processing"} /\ phase = "serving"
        /\ client[cur[v]] # "none" /\ cur[v] \notin doomed
  BY Held
<1>2. /\ status \in [Jobs -> Statuses] /\ ckpt \in [Jobs -> Docs \cup {NoDoc}] /\ pc \in [Workers -> PCs]
  BY DEF Typed, TypeOK
<1>3. ASSUME NEW j \in Jobs, Enqueue(j) PROVE Kept(v)
  BY <1>1, <1>2, <1>3 DEF Enqueue, Kept, workerVars
<1>4. ASSUME NEW j \in Jobs, EnqueueNotify(j) \/ EnqueueReply(j) \/ Expire(j) PROVE Kept(v)
  BY <1>4 DEF EnqueueNotify, EnqueueReply, Expire, Kept, workerVars, jobVars
<1>5. ASSUME NEW d \in Docs, DeleteDocument(d) \/ UnindexDocument(d) PROVE Kept(v)
  BY <1>5 DEF DeleteDocument, UnindexDocument, Kept, workerVars, jobVars
<1>6. CASE Start \/ CleanupRead \/ LeaderChange \/ UNCHANGED vars
  BY <1>6 DEF Start, CleanupRead, LeaderChange, vars, Kept, workerVars, jobVars
<1>7. ASSUME NEW j \in Jobs, ResumeJob(j) PROVE Kept(v)
  BY <1>1, <1>7 DEF ResumeJob, Kept, workerVars
<1>8. CASE StartWorkers
  BY <1>1, <1>8 DEF StartWorkers, Kept, Holding
<1>9. CASE Dispatch
  BY <1>9 DEF Dispatch, Kept, Holding, jobVars
<1>10. CASE CleanupDelete
  BY <1>1, <1>10 DEF CleanupDelete, Kept, workerVars
<1>11. ASSUME NEW w \in Workers, WorkerStep(w) PROVE Kept(v)
  <2>1. w # v
    BY <1>11
  <2> USE <1>1, <1>2, <2>1 DEF Kept, Goto, Typed, TypeOK
  <2>2. ASSUME NEW j \in Jobs, Claim(w, j) PROVE Kept(v)
    BY <2>2 DEF Claim, FirstQueued
  <2>3. CASE ClaimPersist(w) \/ CheckpointWrite(w) \/ FinishWrite(w)
    <3>1. cur[w] \in Jobs /\ (pc[v] \in Holding => cur[v] # cur[w])
      BY <2>3, Held DEF ClaimPersist, CheckpointWrite, FinishWrite, Holding
    <3> QED BY <2>3, <3>1 DEF ClaimPersist, CheckpointWrite, FinishWrite, Released
  <2>4. CASE Listen(w) \/ CheckLeader(w) \/ ClaimNone(w) \/ CheckpointRead(w) \/ RemoveTempFile(w) \/ FinishRead(w)
    BY <2>4 DEF Listen, CheckLeader, ClaimNone, CheckpointRead, RemoveTempFile, FinishRead, Released, jobVars
  <2>5. CASE (\E d \in Docs : IngestDocument(w, d)) \/ PipelineFails(w) \/ InsertNodes(w) \/ Summarize(w)
    BY <2>5 DEF IngestDocument, PipelineFails, InsertNodes, Summarize, PipelineEnd, jobVars
  <2>6. CASE TagRead(w) \/ TagWrite(w) \/ IndexNodes(w) \/ ResumeLookup(w) \/ Resummarize(w)
    BY <2>6 DEF TagRead, TagWrite, IndexNodes, ResumeLookup, Resummarize, jobVars
  <2> QED BY <1>11, <2>2, <2>3, <2>4, <2>5, <2>6 DEF WorkerStep
<1> QED BY <1>3, <1>4, <1>5, <1>6, <1>7, <1>8, <1>9, <1>10, <1>11
        DEF Next, ClientStep, Recover, Housekeeping

\* As long as no write fails, a job that is past its claim is shown as processing, and from the
\* checkpoint on its record names the worker's document.
Recorded(w) ==
  /\ pc[w] \in Holding \ {"claimed"} => status[cur[w]] = "processing"
  /\ \/ pc[w] \in {"summarize", "tagRead", "tagWrite", "index", "resume", "resummarize"}
     \/ pc[w] \in {"rmfile", "finishRead", "finishWrite"} /\ res[w] = "completed"
     => ckpt[cur[w]] = doc[w] /\ doc[w] # NoDoc

AllRecorded == faults = 0 => \A w \in Workers : Recorded(w)

\* At first no worker holds a job.
LEMMA RecordedInit == Init => AllRecorded
  BY DEF Init, AllRecorded, Recorded, Holding

\* Without a failing write every step keeps the record up to date.
LEMMA RecordedNext == Typed /\ Exclusive /\ AllRecorded /\ [Next]_vars => AllRecorded'
<1> SUFFICES ASSUME Typed, Exclusive, AllRecorded, [Next]_vars, faults' = 0, NEW v \in Workers
             PROVE  Recorded(v)'
  BY DEF AllRecorded
<1>1. faults = 0 /\ Recorded(v)
  BY CountersGrow DEF AllRecorded
<1>2. CASE Crash
  BY <1>2 DEF Crash, Recorded, Holding
<1>3. CASE ~Crash /\ ~WorkerStep(v)
  <2>1. Kept(v)
    BY <1>3, HeldUntouched
  <2> QED BY <1>1, <2>1 DEF Kept, Recorded, Holding
<1>4. CASE WorkerStep(v)
  <2>0. faults' = faults
    BY <1>1
  <2>1. pc[v] \in Holding => cur[v] \in Jobs /\ status[cur[v]] \in {"blank", "processing"}
    BY Held
  <2> USE <1>1, <2>0, <2>1 DEF Typed, TypeOK, Goto, Recorded, Holding
  <2>2. CASE Listen(v) \/ CheckLeader(v) \/ ClaimNone(v)
    BY <2>2 DEF Listen, CheckLeader, ClaimNone
  <2>3. ASSUME NEW j \in Jobs, Claim(v, j) PROVE Recorded(v)'
    BY <2>3 DEF Claim
  <2>4. CASE ClaimPersist(v)
    <3>1. Commits
      BY <2>4 DEF ClaimPersist, Commits
    <3>2. ~Fails
      BY JobsAssumption DEF Fails
    <3> QED BY <2>4, <3>2 DEF ClaimPersist, FirstStep
  <2>5. ASSUME NEW d \in Docs, IngestDocument(v, d) PROVE Recorded(v)'
    BY <2>5 DEF IngestDocument, jobVars
  <2>6. CASE PipelineFails(v)
    BY <2>6 DEF PipelineFails, PipelineEnd, AfterPipeline, jobVars
  <2>7. CASE InsertNodes(v)
    BY <2>7 DEF InsertNodes, jobVars
  <2>8. CASE CheckpointRead(v)
    BY <2>8 DEF CheckpointRead, Decodes, jobVars
  <2>9. CASE CheckpointWrite(v)
    <3>1. ~Fails
      BY JobsAssumption DEF Fails
    <3>2. doc[v] # NoDoc /\ buf[v] = RecordOf(cur[v])
      BY <2>9 DEF CheckpointWrite, DocKnown, Exclusive, NoLostUpdate
    <3> QED BY <2>9, <3>1, <3>2 DEF CheckpointWrite, RecordOf
  <2>10. CASE Summarize(v)
    BY <2>10 DEF Summarize, PipelineEnd, AfterPipeline, jobVars
  <2>11. CASE RemoveTempFile(v)
    BY <2>11 DEF RemoveTempFile, AfterPipeline, jobVars, Terminal
  <2>12. CASE TagRead(v) \/ TagWrite(v) \/ IndexNodes(v)
    BY <2>12 DEF TagRead, TagWrite, IndexNodes, jobVars
  <2>13. CASE ResumeLookup(v) \/ Resummarize(v)
    BY <2>13 DEF ResumeLookup, Resummarize, jobVars
  <2>14. CASE FinishRead(v)
    BY <2>14 DEF FinishRead, Released, jobVars
  <2>15. CASE FinishWrite(v)
    BY <2>15 DEF FinishWrite, Released
  <2> QED BY <1>4, <2>2, <2>3, <2>4, <2>5, <2>6, <2>7, <2>8, <2>9, <2>10, <2>11, <2>12, <2>13, <2>14, <2>15
          DEF WorkerStep
<1> QED BY <1>2, <1>3, <1>4

\* Before the first crash a queued job has no checkpoint and nothing is to be recovered ...
FirstQueue ==
  crashes = 0 =>
    \A j \in Jobs : /\ status[j] \in {"new", "queued"} => ckpt[j] = NoDoc
                    /\ phase # "serving" => status[j] \in {"new", "queued"}

\* ... so that no worker resumes a job, and one that is past the pipeline has removed the temp file.
FirstPass(w) ==
  /\ pc[w] = "claimed" => buf[w].ckpt = NoDoc
  /\ pc[w] \notin {"resume", "resummarize"}
  /\ pc[w] \in {"tagRead", "tagWrite", "index", "finishRead", "finishWrite"} => cur[w] \notin temp

FirstRun ==
  /\ temp \subseteq FileJobs
  /\ FirstQueue
  /\ crashes = 0 => \A w \in Workers : FirstPass(w)

\* At first there are no jobs and no uploads.
LEMMA FirstRunInit == Init => FirstRun
  BY DEF Init, FirstRun, FirstQueue, FirstPass

\* An upload comes before its job is claimed, and only the worker removes it.
LEMMA TempFiles ==
  ASSUME Typed, FirstRun, [Next]_vars
  PROVE  /\ temp' \subseteq FileJobs
         /\ \A j \in Jobs : j \in temp' => j \in temp \/ client[j] = "none"
<1>1. ASSUME NEW j \in Jobs, Enqueue(j)
      PROVE  temp' \subseteq FileJobs /\ \A k \in Jobs : k \in temp' => k \in temp \/ client[k] = "none"
  BY <1>1 DEF Enqueue, FirstRun
<1>2. ASSUME NEW w \in Workers, RemoveTempFile(w) PROVE temp' \subseteq temp
  BY <1>2 DEF RemoveTempFile
<1>3. CASE ClientStep
  BY <1>1, <1>3 DEF ClientStep, EnqueueNotify, EnqueueReply, DeleteDocument, UnindexDocument, FirstRun
<1>4. CASE Recover \/ Dispatch \/ Housekeeping \/ LeaderChange \/ Crash
  BY <1>4 DEF Recover, Housekeeping, Start, StartWorkers, ResumeJob, Dispatch, CleanupRead, CleanupDelete,
              Expire, LeaderChange, Crash, FirstRun
<1>5. ASSUME NEW w \in Workers, WorkerStep(w) PROVE temp' \subseteq temp
  BY <1>2, <1>5 DEF WorkerStep, Listen, CheckLeader, Claim, ClaimNone, ClaimPersist, IngestDocument,
              PipelineFails, InsertNodes, CheckpointRead, CheckpointWrite, Summarize, TagRead, TagWrite,
              IndexNodes, ResumeLookup, Resummarize, FinishRead, FinishWrite
<1>6. CASE UNCHANGED vars
  BY <1>6 DEF vars, FirstRun
<1> QED BY <1>3, <1>4, <1>5, <1>6 DEF Next, FirstRun

\* A read-modify-write of a worker still has the record in its hands.
LEMMA BufferedRecord ==
  ASSUME Exclusive, NEW w \in Workers, pc[w] \in {"ckptWrite", "finishWrite"}
  PROVE  buf[w].status = status[cur[w]] /\ buf[w].ckpt = ckpt[cur[w]]
<1>1. buf[w] = RecordOf(cur[w])
  BY DEF Exclusive, NoLostUpdate
<1>2. buf[w] = [status |-> status[cur[w]], ckpt |-> ckpt[cur[w]]]
  BY <1>1 DEF RecordOf
<1> QED BY <1>2

\* Before the first crash no step queues a job that has a checkpoint.
LEMMA FirstQueueNext ==
  ASSUME Typed, Exclusive, FirstRun, [Next]_vars
  PROVE  FirstQueue'
<1> SUFFICES ASSUME crashes' = 0, NEW j \in Jobs
             PROVE  /\ status'[j] \in {"new", "queued"} => ckpt'[j] = NoDoc
                    /\ phase' # "serving" => status'[j] \in {"new", "queued"}
  BY DEF FirstQueue
<1>1. /\ crashes = 0 /\ ~Crash /\ status \in [Jobs -> Statuses] /\ ckpt \in [Jobs -> Docs \cup {NoDoc}]
      /\ status[j] \in {"new", "queued"} => ckpt[j] = NoDoc
      /\ phase # "serving" => status[j] \in {"new", "queued"}
  BY CountersGrow DEF FirstRun, FirstQueue, Typed, TypeOK
<1>2. CASE ClientStep
  BY <1>1, <1>2 DEF ClientStep, Enqueue, EnqueueNotify, EnqueueReply, DeleteDocument, UnindexDocument,
                    jobVars, serverVars, Exclusive, NewUntilInserted
<1>3. CASE Recover \/ Dispatch \/ LeaderChange \/ CleanupRead \/ \E k \in Jobs : Expire(k)
  BY <1>1, <1>3 DEF Recover, Start, StartWorkers, ResumeJob, Dispatch, LeaderChange, CleanupRead, Expire,
                    jobVars, serverVars
<1>4. CASE CleanupDelete
  BY <1>1, <1>4 DEF CleanupDelete, Exclusive, DoomedHaveEnded, Terminal
<1>5. ASSUME NEW w \in Workers, NEW k \in Jobs, Claim(w, k)
      PROVE  phase' = "serving" /\ (status'[j] \in {"new", "queued"} => ckpt'[j] = NoDoc)
  <2>1. phase = "serving"
    BY <1>5 DEF Claim, Typed, PoolOff
  <2> QED BY <1>1, <1>5, <2>1 DEF Claim, serverVars
<1>6. ASSUME NEW w \in Workers, ClaimPersist(w) \/ CheckpointWrite(w) \/ FinishWrite(w)
      PROVE  phase' = "serving" /\ (status'[j] \in {"new", "queued"} => ckpt'[j] = NoDoc)
  <2>0. pc[w] = "ckptWrite" => buf[w].status = status[cur[w]]
    BY BufferedRecord
  <2>1. pc[w] \in Holding /\ (pc[w] = "ckptWrite" => buf[w].status = status[cur[w]])
    BY <1>6, <2>0 DEF ClaimPersist, CheckpointWrite, FinishWrite, Holding
  <2>2. phase = "serving" /\ cur[w] \in Jobs /\ status[cur[w]] \in {"blank", "processing"} /\ res[w] \in Terminal
    BY <2>1, Held DEF Typed, TypeOK
  <2> QED BY <1>1, <1>6, <2>1, <2>2 DEF ClaimPersist, CheckpointWrite, FinishWrite, serverVars, Terminal
<1>7. ASSUME NEW w \in Workers,
             \/ Listen(w) \/ CheckLeader(w) \/ ClaimNone(w)
             \/ (\E d \in Docs : IngestDocument(w, d)) \/ PipelineFails(w) \/ InsertNodes(w)
             \/ CheckpointRead(w) \/ Summarize(w) \/ RemoveTempFile(w) \/ TagRead(w) \/ TagWrite(w)
             \/ IndexNodes(w) \/ ResumeLookup(w) \/ Resummarize(w) \/ FinishRead(w)
      PROVE  UNCHANGED <<status, ckpt, phase>>
  BY <1>7 DEF Listen, CheckLeader, ClaimNone, IngestDocument, PipelineFails, InsertNodes, CheckpointRead, Summarize,
              RemoveTempFile, TagRead, TagWrite, IndexNodes, ResumeLookup, Resummarize, FinishRead, jobVars, serverVars
<1>8. CASE UNCHANGED vars
  BY <1>1, <1>8 DEF vars, jobVars, serverVars
<1>9. CASE \E w \in Workers : WorkerStep(w)
  BY <1>1, <1>5, <1>6, <1>7, <1>9 DEF WorkerStep
<1> QED BY <1>1, <1>2, <1>3, <1>4, <1>8, <1>9 DEF Next, Housekeeping

\* Before the first crash every step of a worker is one of a job that was never started.
LEMMA FirstPassNext ==
  ASSUME Typed, Exclusive, FirstRun, [Next]_vars, crashes' = 0, NEW v \in Workers
  PROVE  FirstPass(v)'
<1>1. crashes = 0 /\ ~Crash /\ FirstPass(v) /\ temp \subseteq FileJobs
  BY CountersGrow DEF FirstRun
<1>2. pc[v] \in Holding => cur[v] \in Jobs /\ (cur[v] \in temp' => cur[v] \in temp)
  BY TempFiles, Held
<1>3. CASE ~WorkerStep(v)
  <2>1. Kept(v)
    BY <1>1, <1>3, HeldUntouched
  <2> QED BY <1>1, <1>2, <2>1 DEF Kept, FirstPass, Holding
<1>4. CASE WorkerStep(v)
  <2> USE <1>1, <1>2 DEF Typed, TypeOK, Goto, FirstPass, Holding
  <2>1. CASE Listen(v) \/ CheckLeader(v) \/ ClaimNone(v)
    BY <2>1 DEF Listen, CheckLeader, ClaimNone
  <2>2. ASSUME NEW j \in Jobs, Claim(v, j) PROVE FirstPass(v)'
    BY <2>2 DEF Claim, FirstQueued, FirstRun, FirstQueue, RecordOf
  <2>3. CASE ClaimPersist(v)
    BY <2>3 DEF ClaimPersist, FirstStep
  <2>4. CASE (\E d \in Docs : IngestDocument(v, d)) \/ InsertNodes(v) \/ CheckpointRead(v) \/ CheckpointWrite(v)
    BY <2>4 DEF IngestDocument, InsertNodes, CheckpointRead, CheckpointWrite
  <2>5. CASE PipelineFails(v) \/ Summarize(v)
    BY <2>5 DEF PipelineFails, Summarize, PipelineEnd, AfterPipeline
  <2>6. CASE RemoveTempFile(v)
    BY <2>6 DEF RemoveTempFile, AfterPipeline
  <2>7. CASE TagRead(v) \/ TagWrite(v) \/ IndexNodes(v)
    BY <2>7 DEF TagRead, TagWrite, IndexNodes
  <2>8. CASE ResumeLookup(v) \/ Resummarize(v)
    BY <2>8 DEF ResumeLookup, Resummarize
  <2>9. CASE FinishRead(v) \/ FinishWrite(v)
    BY <2>9 DEF FinishRead, FinishWrite, Released
  <2> QED BY <1>4, <2>1, <2>2, <2>3, <2>4, <2>5, <2>6, <2>7, <2>8, <2>9 DEF WorkerStep
<1> QED BY <1>3, <1>4

\* Together: every step keeps FirstRun.
LEMMA FirstRunNext == Typed /\ Exclusive /\ FirstRun /\ [Next]_vars => FirstRun'
  BY TempFiles, FirstQueueNext, FirstPassNext DEF FirstRun

\* A document whose entries are about to be removed from the text index is deleted, and what
\* a worker writes of it afterwards are leftovers.
Unindexing == \A d \in unindexing : docState[d] \in {"deleted", "orphan", "revived"}

\* Nodes in the store are in the text index.
Searchable(d) == docState[d] \in {"nodes", "summarized"} => d \in indexed

\* A worker that reports success has indexed its document.
Reported(w) ==
  pc[w] \in {"finishRead", "finishWrite"} /\ res[w] = "completed" => Searchable(doc[w])

Indexing == Unindexing /\ (crashes = 0 /\ faults = 0 => \A w \in Workers : Reported(w))

\* At first there is nothing to index.
LEMMA IndexingInit == Init => Indexing
  BY DEF Init, Indexing, Unindexing, Reported

\* Documents, step by step: leftovers stay leftovers, a document whose nodes are stored gains none,
\* and index entries go with a deletion.
LEMMA DocumentSteps ==
  ASSUME Typed, Checkpoints, [Next]_vars, NEW d \in Docs
  PROVE  /\ docState[d] \in {"deleted", "orphan", "revived"}
              => docState'[d] \in {"deleted", "orphan", "revived"}
         /\ docState[d] \notin {"none", "doc"} /\ docState'[d] \in {"nodes", "summarized"}
              => docState[d] \in {"nodes", "summarized"}
         /\ d \in indexed => d \in indexed' \/ d \in unindexing
         /\ d \in unindexing' => d \in unindexing \/ docState'[d] = "deleted"
<1> DEFINE Good == 
         /\ docState[d] \in {"deleted", "orphan", "revived"}
              => docState'[d] \in {"deleted", "orphan", "revived"}
         /\ docState[d] \notin {"none", "doc"} /\ docState'[d] \in {"nodes", "summarized"}
              => docState[d] \in {"nodes", "summarized"}
         /\ d \in indexed => d \in indexed' \/ d \in unindexing
         /\ d \in unindexing' => d \in unindexing \/ docState'[d] = "deleted"
<1>0. docState \in [Docs -> DocStates]
  BY DEF Typed, TypeOK
<1>1. ASSUME NEW e \in Docs, DeleteDocument(e) \/ UnindexDocument(e) PROVE Good
  BY <1>0, <1>1 DEF DeleteDocument, UnindexDocument
<1>2. CASE ClientStep
  BY <1>1, <1>2 DEF ClientStep, Enqueue, EnqueueNotify, EnqueueReply, docVars
<1>3. CASE Recover \/ Dispatch \/ Housekeeping \/ LeaderChange \/ Crash
  BY <1>3 DEF Recover, Housekeeping, Start, StartWorkers, ResumeJob, Dispatch, CleanupRead, CleanupDelete,
              Expire, LeaderChange, Crash, docVars
<1>4. ASSUME NEW w \in Workers, WorkerStep(w) PROVE Good
  <2>1. CASE \E e \in Docs : IngestDocument(w, e)
    BY <1>0, <2>1 DEF IngestDocument
  <2>2. CASE InsertNodes(w) \/ TagWrite(w)
    BY <1>0, <2>2 DEF InsertNodes, TagWrite, Stored
  <2>3. CASE Summarize(w) \/ Resummarize(w)
    BY <1>0, <2>3 DEF Summarize, Resummarize, SummarizeNodes, Summarized
  <2>4. CASE IndexNodes(w)
    BY <2>4 DEF IndexNodes
  <2>5. CASE Listen(w) \/ CheckLeader(w) \/ (\E j \in Jobs : Claim(w, j)) \/ ClaimNone(w) \/ ClaimPersist(w)
             \/ PipelineFails(w) \/ CheckpointRead(w) \/ CheckpointWrite(w) \/ RemoveTempFile(w) \/ TagRead(w)
             \/ ResumeLookup(w) \/ FinishRead(w) \/ FinishWrite(w)
    BY <2>5 DEF Listen, CheckLeader, Claim, ClaimNone, ClaimPersist, PipelineFails, CheckpointRead, CheckpointWrite,
                RemoveTempFile, TagRead, ResumeLookup, FinishRead, FinishWrite, docVars
  <2> QED BY <1>4, <2>1, <2>2, <2>3, <2>4, <2>5 DEF WorkerStep
<1>5. CASE UNCHANGED vars
  BY <1>5 DEF vars, docVars
<1> QED BY <1>2, <1>3, <1>4, <1>5 DEF Next

\* Once the nodes of a document are stored and indexed, they are found until the document is deleted.
LEMMA SearchableKept ==
  ASSUME Typed, Checkpoints, Indexing, [Next]_vars, NEW d \in Docs, Settled(d), Searchable(d)
  PROVE  docState'[d] \in {"nodes", "summarized"} => d \in indexed'
  BY DocumentSteps DEF Settled, Searchable, Indexing, Unindexing

\* Every step keeps the documents of successful jobs in the text index.
LEMMA IndexingNext ==
  Typed /\ Exclusive /\ Checkpoints /\ AllRecorded /\ FirstRun /\ Indexing /\ [Next]_vars => Indexing'
<1> SUFFICES ASSUME Typed, Exclusive, Checkpoints, AllRecorded, FirstRun, Indexing, [Next]_vars PROVE Indexing'
  OBVIOUS
<1>1. Unindexing'
  <2>1. unindexing' \subseteq Docs
    BY TypedNext DEF Typed, TypeOK
  <2> QED BY <2>1, DocumentSteps DEF Indexing, Unindexing
<1>2. ASSUME crashes' = 0, faults' = 0, NEW v \in Workers PROVE Reported(v)'
  <2>1. crashes = 0 /\ faults = 0 /\ ~Crash /\ Reported(v) /\ Recorded(v) /\ FirstPass(v)
    BY <1>2, CountersGrow DEF Indexing, AllRecorded, FirstRun
  <2>2. pc[v] \in {"finishRead", "finishWrite"} /\ res[v] = "completed" => doc[v] \in Docs /\ Settled(doc[v])
    <3>1. pc[v] \in {"finishRead", "finishWrite"} => cur[v] \in Jobs
      BY Held DEF Holding
    <3> QED BY <2>1, <3>1 DEF Recorded, Checkpoints, CheckpointIsResumable, Settled, Typed, TypeOK
  <2>3. pc[v] \in {"finishRead", "finishWrite"} /\ res[v] = "completed"
          => (docState'[doc[v]] \in {"nodes", "summarized"} => doc[v] \in indexed')
    <3> SUFFICES ASSUME pc[v] \in {"finishRead", "finishWrite"}, res[v] = "completed"
                 PROVE  docState'[doc[v]] \in {"nodes", "summarized"} => doc[v] \in indexed'
      OBVIOUS
    <3>1. PICK d \in Docs : d = doc[v]
      BY <2>2
    <3>2. Settled(d) /\ Searchable(d)
      BY <2>1, <2>2, <3>1 DEF Reported
    <3> QED BY <3>1, <3>2, SearchableKept
  <2>4. CASE ~WorkerStep(v)
    <3>1. Kept(v)
      BY <2>1, <2>4, HeldUntouched
    <3> QED BY <2>3, <3>1 DEF Kept, Reported, Searchable, Holding
  <2>5. CASE WorkerStep(v)
    <3> USE <2>1 DEF Typed, TypeOK, Goto
    <3>1. CASE IndexNodes(v)
      BY <3>1 DEF IndexNodes, Reported, Searchable
    <3>2. CASE FinishRead(v)
      BY <2>3, <3>2 DEF FinishRead, Released, Reported, Searchable
    <3>3. CASE RemoveTempFile(v)
      BY <3>3 DEF RemoveTempFile, AfterPipeline, Reported, Terminal
    <3>4. CASE Listen(v) \/ CheckLeader(v) \/ (\E j \in Jobs : Claim(v, j)) \/ ClaimNone(v) \/ ClaimPersist(v)
      BY <3>4 DEF Listen, CheckLeader, Claim, ClaimNone, ClaimPersist, FirstStep, Reported
    <3>5. CASE (\E d \in Docs : IngestDocument(v, d)) \/ InsertNodes(v) \/ CheckpointRead(v) \/ CheckpointWrite(v)
      BY <3>5 DEF IngestDocument, InsertNodes, CheckpointRead, CheckpointWrite, Reported
    <3>6. CASE PipelineFails(v) \/ Summarize(v)
      BY <3>6 DEF PipelineFails, Summarize, PipelineEnd, AfterPipeline, Reported
    <3>7. CASE TagRead(v) \/ TagWrite(v) \/ FinishWrite(v)
      BY <3>7 DEF TagRead, TagWrite, FinishWrite, Released, Reported
    <3>8. CASE ResumeLookup(v) \/ Resummarize(v)
      BY <3>8 DEF ResumeLookup, Resummarize, FirstPass
    <3> QED BY <2>5, <3>1, <3>2, <3>3, <3>4, <3>5, <3>6, <3>7, <3>8 DEF WorkerStep
  <2> QED BY <2>4, <2>5
<1> QED BY <1>1, <1>2 DEF Indexing

\* A job is completed by the worker that holds it, and then stays as it is.
LEMMA CompletedSteps ==
  ASSUME Typed, Exclusive, [Next]_vars, NEW j \in Jobs, status'[j] = "completed"
  PROVE  \/ /\ status[j] = "completed" /\ ckpt'[j] = ckpt[j] /\ client[j] # "none"
         \/ \E w \in Workers : FinishWrite(w) /\ cur[w] = j /\ res[w] = "completed" /\ Commits /\ ckpt'[j] = ckpt[j]
<1>0. /\ status \in [Jobs -> Statuses] /\ ckpt \in [Jobs -> Docs \cup {NoDoc}]
      /\ status[j] = "completed" => client[j] # "none"
  BY DEF Typed, TypeOK, Exclusive, NewUntilInserted
<1>1. CASE ClientStep
  BY <1>0, <1>1 DEF ClientStep, Enqueue, EnqueueNotify, EnqueueReply, DeleteDocument, UnindexDocument, jobVars
<1>2. CASE Recover \/ Dispatch \/ Housekeeping \/ LeaderChange \/ Crash
  BY <1>0, <1>2 DEF Recover, Housekeeping, Start, StartWorkers, ResumeJob, Dispatch, CleanupRead, CleanupDelete,
              Expire, LeaderChange, Crash, jobVars
<1>3. ASSUME NEW w \in Workers, NEW k \in Jobs, Claim(w, k) PROVE status[j] = "completed" /\ ckpt'[j] = ckpt[j]
  BY <1>0, <1>3 DEF Claim
<1>4. ASSUME NEW w \in Workers, ClaimPersist(w) \/ CheckpointWrite(w) PROVE status[j] = "completed" /\ ckpt'[j] = ckpt[j]
  <2>0. pc[w] = "ckptWrite" => buf[w].status = status[cur[w]]
    BY BufferedRecord
  <2>1. cur[w] \in Jobs /\ status[cur[w]] \in {"blank", "processing"}
    BY <1>4, Held DEF ClaimPersist, CheckpointWrite, Holding
  <2> QED BY <1>0, <1>4, <2>0, <2>1 DEF ClaimPersist, CheckpointWrite
<1>5. ASSUME NEW w \in Workers, FinishWrite(w)
      PROVE  \/ status[j] = "completed" /\ ckpt'[j] = ckpt[j]
             \/ cur[w] = j /\ res[w] = "completed" /\ Commits /\ ckpt'[j] = ckpt[j]
  <2>0. buf[w].ckpt = ckpt[cur[w]]
    BY <1>5, BufferedRecord DEF FinishWrite
  <2> QED BY <1>0, <1>5, <2>0 DEF FinishWrite
<1>6. ASSUME NEW w \in Workers,
             \/ Listen(w) \/ CheckLeader(w) \/ ClaimNone(w)
             \/ (\E d \in Docs : IngestDocument(w, d)) \/ PipelineFails(w) \/ InsertNodes(w)
             \/ CheckpointRead(w) \/ Summarize(w) \/ RemoveTempFile(w) \/ TagRead(w) \/ TagWrite(w)
             \/ IndexNodes(w) \/ ResumeLookup(w) \/ Resummarize(w) \/ FinishRead(w)
      PROVE  UNCHANGED <<status, ckpt>>
  BY <1>6 DEF Listen, CheckLeader, ClaimNone, IngestDocument, PipelineFails, InsertNodes, CheckpointRead, Summarize,
              RemoveTempFile, TagRead, TagWrite, IndexNodes, ResumeLookup, Resummarize, FinishRead, jobVars
<1>7. CASE UNCHANGED vars
  BY <1>0, <1>7 DEF vars, jobVars
<1>8. CASE \E w \in Workers : WorkerStep(w)
  BY <1>0, <1>3, <1>4, <1>5, <1>6, <1>8 DEF WorkerStep
<1> QED BY <1>1, <1>2, <1>7, <1>8 DEF Next

\* CompletedIsIngested is not inductive: it needs what the worker knew before it wrote the outcome.
Completion == AllRecorded /\ FirstRun /\ Indexing /\ CompletedIsIngested

\* At first no job is completed.
LEMMA CompletionInit == Init => Completion
<1>1. Init => CompletedIsIngested
  BY DEF Init, CompletedIsIngested
<1> QED BY <1>1, RecordedInit, FirstRunInit, IndexingInit DEF Completion

\* Every step keeps completed jobs ingested.
LEMMA CompletionNext == Typed /\ Exclusive /\ Checkpoints /\ Completion /\ [Next]_vars => Completion'
<1> SUFFICES ASSUME Typed, Exclusive, Checkpoints, Completion, [Next]_vars PROVE Completion'
  OBVIOUS
<1>1. AllRecorded' /\ FirstRun' /\ Indexing'
  BY RecordedNext, FirstRunNext, IndexingNext DEF Completion
<1>2. ASSUME NEW j \in Jobs, status'[j] = "completed", faults' = 0
      PROVE  /\ ckpt'[j] # NoDoc
             /\ crashes' = 0 => /\ docState'[ckpt'[j]] \in {"nodes", "summarized"} => ckpt'[j] \in indexed'
                                /\ j \notin temp'
  <2>0. faults = 0 /\ (crashes' = 0 => crashes = 0) /\ (j \in temp' => j \in temp \/ client[j] = "none")
    BY <1>2, CountersGrow, TempFiles DEF Completion
  <2>1. /\ ckpt'[j] = ckpt[j] /\ ckpt[j] # NoDoc /\ client[j] # "none"
        /\ crashes = 0 => Searchable(ckpt[j]) /\ j \notin temp
    <3>1. CASE status[j] = "completed" /\ ckpt'[j] = ckpt[j] /\ client[j] # "none"
      BY <2>0, <3>1 DEF Completion, CompletedIsIngested, Searchable
    <3>2. ASSUME NEW w \in Workers, FinishWrite(w), cur[w] = j, res[w] = "completed", ckpt'[j] = ckpt[j]
          PROVE  /\ ckpt[j] # NoDoc /\ client[j] # "none"
                 /\ crashes = 0 => Searchable(ckpt[j]) /\ j \notin temp
      <4>1. pc[w] = "finishWrite" /\ Recorded(w) /\ (crashes = 0 => Reported(w) /\ FirstPass(w))
        BY <2>0, <3>2 DEF FinishWrite, Completion, AllRecorded, FirstRun, Indexing
      <4>2. client[j] # "none"
        BY <3>2, <4>1, Held DEF Holding
      <4> QED BY <3>2, <4>1, <4>2 DEF Recorded, Reported, FirstPass
    <3> QED BY <1>2, <3>1, <3>2, CompletedSteps
  <2>2. PICK d \in Docs : d = ckpt[j]
    BY <2>1 DEF Typed, TypeOK
  <2>3. Settled(d)
    BY <2>1, <2>2 DEF Checkpoints, CheckpointIsResumable, Settled
  <2>4. crashes = 0 => (docState'[d] \in {"nodes", "summarized"} => d \in indexed')
    BY <2>1, <2>2, <2>3, SearchableKept DEF Completion
  <2> QED BY <2>0, <2>1, <2>2, <2>4
<1> QED BY <1>1, <1>2 DEF Completion, CompletedIsIngested

\* What "completed" tells a client: the nodes are stored under the checkpoint and, unless the server
\* crashed, the document is searchable and its upload is gone.
THEOREM CompletedJobsAreIngested == Spec => []CompletedIsIngested
<1>1. Spec => []Completion
  BY CheckpointsHold, CompletionInit, CompletionNext, PTL DEF Spec
<1>2. Completion => CompletedIsIngested
  BY DEF Completion
<1> QED BY <1>1, <1>2, PTL

(***************************************************************************)
(* Duplicates                                                              *)
(***************************************************************************)

\* The job may still be chunked before the next crash.
NotYet(j) ==
  \/ phase # "serving" \/ status[j] \in {"new", "queued"}
  \/ \E w \in Workers : cur[w] = j /\ pc[w] \in {"claimed", "ingest"}

\* DuplicatesNeedCrashes is not inductive: a job that has yet to be chunked is one document behind.
DocsCounted ==
  \A j \in Jobs :
    /\ IsFiniteSet(DocsOf(j))
    /\ Cardinality(DocsOf(j)) <= (IF NotYet(j) THEN crashes ELSE crashes + 1)

\* At first no job has a document.
LEMMA DocsCountedInit == Init => DocsCounted
<1> SUFFICES ASSUME Init, NEW j \in Jobs
             PROVE  IsFiniteSet(DocsOf(j)) /\ Cardinality(DocsOf(j)) <= (IF NotYet(j) THEN crashes ELSE crashes + 1)
  BY DEF DocsCounted
<1>1. DocsOf(j) = {} /\ crashes = 0
  BY JobsAssumption DEF Init, DocsOf
<1> QED BY <1>1, FS_EmptySet

\* Nothing but a crash lets a chunked job be chunked again.
LEMMA ChunkedOnce ==
  ASSUME Typed, Exclusive, [Next]_vars, ~Crash, NEW j \in Jobs, ~NotYet(j)
  PROVE  /\ phase' = "serving" /\ status'[j] \notin {"new", "queued"}
         /\ \A v \in Workers : cur'[v] = j => pc'[v] \notin {"claimed", "ingest"}
<1> DEFINE Once == /\ phase' = "serving" /\ status'[j] \notin {"new", "queued"}
                   /\ \A v \in Workers : cur'[v] = j => pc'[v] \notin {"claimed", "ingest"}
<1>0. /\ phase = "serving" /\ status[j] \notin {"new", "queued"}
      /\ \A v \in Workers : cur[v] = j => pc[v] \notin {"claimed", "ingest"}
      /\ status \in [Jobs -> Statuses] /\ pc \in [Workers -> PCs] /\ cur \in [Workers -> Jobs \cup {NoJob}]
  BY DEF NotYet, Typed, TypeOK
<1>1. CASE ClientStep
  BY <1>0, <1>1 DEF ClientStep, Enqueue, EnqueueNotify, EnqueueReply, DeleteDocument, UnindexDocument,
                    jobVars, serverVars, workerVars, Exclusive, NewUntilInserted
<1>2. CASE Recover \/ Dispatch \/ Housekeeping \/ LeaderChange
  BY <1>0, <1>2 DEF Recover, Housekeeping, Start, StartWorkers, ResumeJob, Dispatch, CleanupRead, CleanupDelete,
                    Expire, LeaderChange, jobVars, workerVars, serverVars
<1>3. ASSUME NEW w \in Workers, NEW k \in Jobs, Claim(w, k) PROVE Once
  BY <1>0, <1>3 DEF Claim, FirstQueued, Goto, serverVars
<1>4. ASSUME NEW w \in Workers, ClaimPersist(w) PROVE Once
  BY <1>0, <1>4 DEF ClaimPersist, Goto, serverVars
<1>5. ASSUME NEW w \in Workers, CheckpointWrite(w) PROVE Once
  <2>1. buf[w].status = status[cur[w]] /\ cur[w] \in Jobs
    BY <1>5, BufferedRecord, Held DEF CheckpointWrite, Holding
  <2> QED BY <1>0, <1>5, <2>1 DEF CheckpointWrite, Goto, serverVars
<1>6. ASSUME NEW w \in Workers, FinishRead(w) \/ FinishWrite(w) PROVE Once
  <2>1. cur[w] \in Jobs /\ res[w] \notin {"new", "queued"}
    BY <1>6, Held DEF FinishRead, FinishWrite, Holding, Typed, TypeOK, Terminal
  <2> QED BY <1>0, <1>6, <2>1 DEF FinishRead, FinishWrite, Released, Goto, serverVars, jobVars
<1>7. ASSUME NEW w \in Workers,
             \/ Listen(w) \/ CheckLeader(w) \/ ClaimNone(w)
             \/ (\E d \in Docs : IngestDocument(w, d)) \/ PipelineFails(w) \/ InsertNodes(w)
             \/ CheckpointRead(w) \/ Summarize(w) \/ RemoveTempFile(w) \/ TagRead(w) \/ TagWrite(w)
             \/ IndexNodes(w) \/ ResumeLookup(w) \/ Resummarize(w)
      PROVE  Once
  <2>1. UNCHANGED <<phase, status, cur>>
    BY <1>7 DEF Listen, CheckLeader, ClaimNone, IngestDocument, PipelineFails, InsertNodes, CheckpointRead, Summarize,
              RemoveTempFile, TagRead, TagWrite, IndexNodes, ResumeLookup, Resummarize, jobVars, serverVars
  <2>2. \E l : Goto(w, l) /\ l \notin {"claimed", "ingest"}
    BY <1>7 DEF Listen, CheckLeader, ClaimNone, IngestDocument, PipelineFails, InsertNodes, CheckpointRead, Summarize,
              RemoveTempFile, TagRead, TagWrite, IndexNodes, ResumeLookup, Resummarize, PipelineEnd, AfterPipeline
  <2> QED BY <1>0, <2>1, <2>2 DEF Goto
<1>8. CASE UNCHANGED vars
  BY <1>0, <1>8 DEF vars, jobVars, serverVars, workerVars
<1>9. CASE \E w \in Workers : WorkerStep(w)
  BY <1>3, <1>4, <1>5, <1>6, <1>7, <1>9 DEF WorkerStep
<1> QED BY <1>1, <1>2, <1>8, <1>9 DEF Next

\* Every step keeps the count: tree building adds one document, a crash allows one more.
LEMMA DocsCountedNext == Typed /\ Exclusive /\ Checkpoints /\ DocsCounted /\ [Next]_vars => DocsCounted'
<1> SUFFICES ASSUME Typed, Exclusive, Checkpoints, DocsCounted, [Next]_vars, NEW j \in Jobs
             PROVE  /\ IsFiniteSet(DocsOf(j))'
                    /\ Cardinality(DocsOf(j)') <= (IF NotYet(j)' THEN crashes' ELSE crashes' + 1)
  BY DEF DocsCounted
<1>0. /\ IsFiniteSet(DocsOf(j)) /\ Cardinality(DocsOf(j)) \in Nat /\ crashes \in Nat
      /\ NotYet(j) => Cardinality(DocsOf(j)) <= crashes
      /\ Cardinality(DocsOf(j)) <= crashes + 1
  <2>1. crashes \in Nat
    BY JobsAssumption DEF Typed, TypeOK
  <2>2. IsFiniteSet(DocsOf(j)) /\ Cardinality(DocsOf(j)) \in Nat
    BY FS_CardinalityType DEF DocsCounted
  <2> QED BY <2>1, <2>2 DEF DocsCounted
<1>1. CASE Crash
  <2>1. DocsOf(j)' = DocsOf(j) /\ crashes' = crashes + 1
    BY <1>1 DEF Crash, DocsOf
  <2>2. NotYet(j)'
    BY <1>1 DEF Crash, NotYet
  <2> QED BY <1>0, <2>1, <2>2
<1>2. CASE ~Crash
  <2>1. crashes' = crashes
    BY <1>2, CountersGrow
  <2>2. ~NotYet(j) => ~NotYet(j)'
    BY <1>2, ChunkedOnce DEF NotYet
  <2>3. CASE DocsOf(j)' = DocsOf(j)
    BY <1>0, <2>1, <2>2, <2>3
  <2>4. CASE DocsOf(j)' # DocsOf(j)
    <3>1. PICK w \in Workers, d \in Docs : IngestDocument(w, d)
      BY <2>4, DocJobChanges DEF DocsOf
    <3>2. cur[w] = j /\ DocsOf(j)' = DocsOf(j) \cup {d} /\ d \notin DocsOf(j)
      BY <2>4, <3>1, IngestDocsOf
    <3>3. IsFiniteSet(DocsOf(j)') /\ Cardinality(DocsOf(j)') = Cardinality(DocsOf(j)) + 1
      BY <1>0, <3>2, FS_AddElement
    <3>4. NotYet(j)
      BY <3>1, <3>2 DEF IngestDocument, NotYet
    <3>5. ~NotYet(j)'
      <4>1. /\ phase = "serving" /\ status[j] \in {"blank", "processing"} /\ \A v \in Workers \ {w} : cur[v] # j
        BY <3>1, <3>2, Held DEF IngestDocument, Holding
      <4>2. UNCHANGED <<phase, status, cur>> /\ pc'[w] = "nodes"
        BY <3>1 DEF IngestDocument, serverVars, jobVars, Goto, Typed, TypeOK
      <4> QED BY <4>1, <4>2 DEF NotYet
    <3> QED BY <1>0, <2>1, <3>3, <3>4, <3>5
  <2> QED BY <2>3, <2>4
<1> QED BY <1>1, <1>2

\* A job is ingested into at most one document more than the server crashed, however its workers,
\* its retries and its failing writes interleave.
THEOREM DuplicatesAreCrashes == Spec => []DuplicatesNeedCrashes
<1>1. Spec => [](Typed /\ Exclusive /\ Checkpoints /\ DocsCounted)
  BY CheckpointsHold, DocsCountedInit, DocsCountedNext, PTL DEF Spec
<1>2. Typed /\ DocsCounted => DuplicatesNeedCrashes
  <2> SUFFICES ASSUME Typed, DocsCounted, NEW j \in Jobs PROVE Cardinality(DocsOf(j)) <= 1 + crashes
    BY DEF DuplicatesNeedCrashes
  <2>1. crashes \in Nat
    BY JobsAssumption DEF Typed, TypeOK
  <2>2. Cardinality(DocsOf(j)) \in Nat
    BY FS_CardinalityType DEF DocsCounted
  <2> QED BY <2>1, <2>2 DEF DocsCounted
<1> QED BY <1>1, <1>2, PTL
=============================================================================
