------------------------------ MODULE JobQueue ------------------------------
(***************************************************************************)
(* The durable ingestion job queue of reasondb-server (jobs.rs), the redb  *)
(* transactions under it (reasondb-core store/jobs.rs), the worker pool    *)
(* and the part of the ingestion pipeline that a job's record depends on.  *)
(*                                                                         *)
(* Durable state (survives a crash): the job records, the order index, the *)
(* uploaded temp files, the documents and the text index.  Volatile state: *)
(* the notification channel, the workers, requests in flight.              *)
(*                                                                         *)
(* One action is one redb transaction, one file operation or one await;    *)
(* a read transaction and the write transaction that uses its result are   *)
(* two actions.                                                            *)
(***************************************************************************)
EXTENDS Naturals, FiniteSets

CONSTANTS
  Jobs,          \* job ids
  Workers,       \* worker tasks (REASONDB_WORKER_COUNT, at least one)
  Docs,          \* document ids that tree building may generate
  FileJobs,      \* jobs whose request is JobRequest::File
  TaggedJobs,    \* jobs whose request carries tags or metadata
  SummaryJobs,   \* jobs with generate_summaries
  NoJob, NoDoc,
  Deletable,     \* documents that some client deletes
  ClusterMode,   \* TRUE when is_leader() asks the raft node
  ChanCap,       \* capacity of the notification channel (256 in the code)
  MaxStamp,      \* bound on the distinct timestamps of the order index
  MaxCrashes,    \* bound on crashes
  MaxFaults      \* bound on failing job writes (redb errors)

ASSUME JobsAssumption ==
  /\ NoJob \notin Jobs
  /\ NoDoc \notin Docs
  /\ FileJobs \subseteq Jobs /\ TaggedJobs \subseteq Jobs /\ SummaryJobs \subseteq Jobs
  /\ Deletable \subseteq Docs
  /\ ClusterMode \in BOOLEAN
  /\ ChanCap \in Nat \ {0}
  /\ MaxStamp \in Nat \ {0} /\ MaxCrashes \in Nat /\ MaxFaults \in Nat

VARIABLES
  status,     \* JOBS_TABLE: the decoded status, or "blank" for the empty bytes of a claim
  ckpt,       \* JOBS_TABLE: checkpoint_doc_id
  stamp,      \* JOBS_ORDER_TABLE: the timestamp part of the job's key, 0 without an entry
  expired,    \* jobs whose updated_at lies more than JOB_EXPIRY_SECS in the past
  temp,       \* File jobs whose uploaded temp file is on disk
  docState,   \* what the store holds of each document
  docJob,     \* the job that generated the document id (history)
  indexed,    \* documents with committed text index entries
  phase,      \* the server process
  todo,       \* resume_incomplete_jobs: jobs of the startup scan still to be handled
  doomed,     \* cleanup_expired_jobs: ids read, not yet deleted
  unindexing, \* delete_document route: documents deleted, index entries not yet
  chan,       \* number of ids in the notification channel
  leader,     \* what is_leader() answers
  client,     \* the submitting request of each job
  pc, cur, buf, doc, res,  \* per worker: next step, job, last record read, document, outcome
  crashes, faults

jobVars    == <<status, ckpt, stamp, expired>>
docVars    == <<docState, docJob, indexed, unindexing>>
serverVars == <<phase, todo, doomed, chan, leader>>
workerVars == <<pc, cur, buf, doc, res>>
vars == <<jobVars, docVars, serverVars, workerVars, temp, client, crashes, faults>>

Terminal  == {"completed", "failed"}
Statuses  == {"new", "queued", "blank", "processing", "gone"} \cup Terminal
DocStates == {"none", "doc", "nodes", "summarized", "deleted", "orphan", "revived"}
Phases    == {"down", "resuming", "serving"}
Clients   == {"none", "inserted", "sent", "accepted", "error", "dropped"}
Holding   == {"claimed", "ingest", "nodes", "ckptRead", "ckptWrite", "summarize", "rmfile",
              "tagRead", "tagWrite", "index", "resume", "resummarize",
              "finishRead", "finishWrite"}
PCs       == {"off", "idle", "waiting", "woken", "claim"} \cup Holding
Record    == [status : Statuses, ckpt : Docs \cup {NoDoc}]

RecordOf(j) == [status |-> status[j], ckpt |-> ckpt[j]]

\* JobQueue::deserialize_job: the empty bytes that a claim leaves do not decode.
Decodes(s) == s \notin {"new", "gone", "blank"}

\* The document record is in DOCUMENTS_TABLE.
Stored(d) == docState[d] \in {"doc", "nodes", "summarized", "revived"}

Init ==
  /\ status = [j \in Jobs |-> "new"]
  /\ ckpt = [j \in Jobs |-> NoDoc]
  /\ stamp = [j \in Jobs |-> 0]
  /\ expired = {}
  /\ temp = {}
  /\ docState = [d \in Docs |-> "none"]
  /\ docJob = [d \in Docs |-> NoJob]
  /\ indexed = {}
  /\ unindexing = {}
  /\ phase = "down"
  /\ todo = {}
  /\ doomed = {}
  /\ chan = 0
  /\ leader = ~ClusterMode
  /\ client = [j \in Jobs |-> "none"]
  /\ pc = [w \in Workers |-> "off"]
  /\ cur = [w \in Workers |-> NoJob]
  /\ buf = [w \in Workers |-> [status |-> "new", ckpt |-> NoDoc]]
  /\ doc = [w \in Workers |-> NoDoc]
  /\ res = [w \in Workers |-> "failed"]
  /\ crashes = 0
  /\ faults = 0

\* A write of a job record either commits or fails with an error that is only logged.
Commits == UNCHANGED faults

Fails ==
  /\ faults < MaxFaults
  /\ faults' = faults + 1

(***************************************************************************)
(* Submitting a job: the ingest routes and JobQueue::enqueue               *)
(***************************************************************************)

\* Mutant: an unbounded channel.
TrySendUnbounded == chan' = chan + 1

\* try_send: the id is dropped when the channel is full
TrySend == chan' = IF chan < ChanCap THEN chan + 1 ELSE chan

\* The order index is keyed by time: a new key is not before any existing one, and jobs
\* of the same millisecond are ordered by their random ids.
Enqueue(j) ==
  /\ phase # "down"
  /\ client[j] = "none"
  /\ temp' = IF j \in FileJobs THEN temp \cup {j} ELSE temp
  /\ \/ /\ Commits
        /\ \E s \in 1..MaxStamp :
             /\ \A k \in Jobs : stamp[k] <= s
             /\ stamp' = [stamp EXCEPT ![j] = s]
        /\ status' = [status EXCEPT ![j] = "queued"]
        /\ client' = [client EXCEPT ![j] = "inserted"]
     \/ /\ Fails
        /\ client' = [client EXCEPT ![j] = "error"]
        /\ UNCHANGED <<status, stamp>>
  /\ UNCHANGED <<ckpt, expired, docVars, serverVars, workerVars, crashes>>

EnqueueNotify(j) ==
  /\ client[j] = "inserted"
  /\ TrySend
  /\ client' = [client EXCEPT ![j] = "sent"]
  /\ UNCHANGED <<jobVars, docVars, phase, todo, doomed, leader, workerVars, temp,
                 crashes, faults>>

\* The route answers with get_status, or with 500 "Job not found after enqueue".
EnqueueReply(j) ==
  /\ client[j] = "sent"
  /\ client' = [client EXCEPT ![j] = IF Decodes(status[j]) THEN "accepted" ELSE "error"]
  /\ UNCHANGED <<jobVars, docVars, serverVars, workerVars, temp, crashes, faults>>

(***************************************************************************)
(* Startup: run_worker up to the dispatcher loop                           *)
(***************************************************************************)

\* Mutant: recovery forgets the jobs that were being processed.
StartQueuedOnly ==
  /\ phase = "down"
  /\ phase' = "resuming"
  /\ todo' = {j \in Jobs : status[j] = "queued"}
  /\ UNCHANGED <<jobVars, docVars, doomed, chan, leader, workerVars, temp, client,
                 crashes, faults>>

Start ==
  /\ phase = "down"
  /\ phase' = "resuming"
  /\ todo' = {j \in Jobs : status[j] \in {"queued", "processing"}}
  /\ UNCHANGED <<jobVars, docVars, doomed, chan, leader, workerVars, temp, client,
                 crashes, faults>>

\* One round of the loop in resume_incomplete_jobs.
ResumeJob(j) ==
  /\ phase = "resuming"
  /\ j \in todo
  /\ todo' = todo \ {j}
  /\ \/ /\ status[j] = "processing"
        /\ Commits
        /\ status' = [status EXCEPT ![j] = "queued"]
        /\ TrySend
     \/ /\ status[j] = "processing"
        /\ Fails
        /\ UNCHANGED <<status, chan>>
     \/ /\ status[j] = "queued"
        /\ Commits
        /\ TrySend
        /\ UNCHANGED status
  /\ UNCHANGED <<ckpt, stamp, expired, docVars, phase, doomed, leader, workerVars, temp,
                 client, crashes>>

\* The cleanup task and the workers are spawned once the scan is finished.
StartWorkers ==
  /\ phase = "resuming"
  /\ todo = {}
  /\ phase' = "serving"
  /\ pc' = [w \in Workers |-> "idle"]
  /\ UNCHANGED <<jobVars, docVars, todo, doomed, chan, leader, cur, buf, doc, res, temp,
                 client, crashes, faults>>

\* The process dies between two steps: everything volatile is lost.
Crash ==
  /\ phase # "down"
  /\ crashes < MaxCrashes
  /\ crashes' = crashes + 1
  /\ phase' = "down"
  /\ todo' = {}
  /\ doomed' = {}
  /\ unindexing' = {}
  /\ chan' = 0
  /\ leader' = ~ClusterMode
  /\ client' = [j \in Jobs |-> IF client[j] \in {"inserted", "sent"} THEN "dropped" ELSE client[j]]
  /\ pc' = [w \in Workers |-> "off"]
  /\ cur' = [w \in Workers |-> NoJob]
  /\ buf' = [w \in Workers |-> [status |-> "new", ckpt |-> NoDoc]]
  /\ doc' = [w \in Workers |-> NoDoc]
  /\ res' = [w \in Workers |-> "failed"]
  /\ UNCHANGED <<jobVars, docState, docJob, indexed, temp, faults>>

(***************************************************************************)
(* Waking and claiming                                                     *)
(***************************************************************************)

Goto(w, l) == pc' = [pc EXCEPT ![w] = l]

\* w_notify.notified(): the future counts for notify_waiters from its creation.
Listen(w) ==
  /\ pc[w] = "idle"
  /\ Goto(w, "waiting")
  /\ UNCHANGED <<jobVars, docVars, serverVars, cur, buf, doc, res, temp, client, crashes, faults>>

\* The dispatcher: notify_waiters wakes the workers that wait now and stores no permit.
Dispatch ==
  /\ phase = "serving"
  /\ chan > 0
  /\ chan' = chan - 1
  /\ pc' = [w \in Workers |-> IF pc[w] = "waiting" THEN "woken" ELSE pc[w]]
  /\ UNCHANGED <<jobVars, docVars, phase, todo, doomed, leader, cur, buf, doc, res, temp,
                 client, crashes, faults>>

CheckLeader(w) ==
  /\ pc[w] = "woken"
  /\ Goto(w, IF leader THEN "claim" ELSE "idle")
  /\ UNCHANGED <<jobVars, docVars, serverVars, cur, buf, doc, res, temp, client, crashes, faults>>

\* external: the raft node of a clustered server gains or loses leadership
LeaderChange ==
  /\ ClusterMode
  /\ phase # "down"
  /\ leader' = ~leader
  /\ UNCHANGED <<jobVars, docVars, phase, todo, doomed, chan, workerVars, temp, client,
                 crashes, faults>>

\* Mutant: the scan is not inside the write transaction, so it sees a claimed job again.
FirstQueuedStale(j) ==
  /\ status[j] \in {"queued", "blank", "processing"}
  /\ \A k \in Jobs : status[k] = "queued" => stamp[j] <= stamp[k]

\* Mutant: the predicate also accepts failed jobs.
FirstQueuedRetry(j) ==
  /\ status[j] \in {"queued", "failed"}
  /\ \A k \in Jobs : status[k] = "queued" => stamp[j] <= stamp[k]

\* claim_next_job looks for the first queued job in key order.
FirstQueued(j) ==
  /\ status[j] = "queued"
  /\ \A k \in Jobs : status[k] = "queued" => stamp[j] <= stamp[k]

\* First transaction of claim_next_queued: the record is replaced by empty bytes; the old
\* record, checkpoint included, lives only in the worker.
Claim(w, j) ==
  /\ pc[w] = "claim"
  /\ FirstQueued(j)
  /\ status' = [status EXCEPT ![j] = "blank"]
  /\ ckpt' = [ckpt EXCEPT ![j] = NoDoc]
  /\ buf' = [buf EXCEPT ![w] = RecordOf(j)]
  /\ cur' = [cur EXCEPT ![w] = j]
  /\ Goto(w, "claimed")
  /\ UNCHANGED <<stamp, expired, docVars, serverVars, doc, res, temp, client, crashes, faults>>

\* Nothing is queued, or the claim transaction failed: the drain loop ends.
ClaimNone(w) ==
  /\ pc[w] = "claim"
  /\ \/ (\A j \in Jobs : status[j] # "queued") /\ Commits
     \/ (\E j \in Jobs : status[j] = "queued") /\ Fails
  /\ Goto(w, "idle")
  /\ UNCHANGED <<jobVars, docVars, serverVars, cur, buf, doc, res, temp, client, crashes>>

\* Mutant: the checkpoint is ignored.
FirstStepRestart(w) == "ingest"

\* process_job resumes summarization exactly when the claimed record had a checkpoint.
FirstStep(w) == IF buf[w].ckpt = NoDoc THEN "ingest" ELSE "resume"

\* Second transaction of claim_next_queued; when it fails the job is processed all the same.
ClaimPersist(w) ==
  LET j == cur[w] IN
  /\ pc[w] = "claimed"
  /\ \/ /\ Commits
        /\ status' = [status EXCEPT ![j] = "processing"]
        /\ ckpt' = [ckpt EXCEPT ![j] = buf[w].ckpt]
     \/ /\ Fails
        /\ UNCHANGED <<status, ckpt>>
  /\ doc' = [doc EXCEPT ![w] = buf[w].ckpt]
  /\ Goto(w, FirstStep(w))
  /\ UNCHANGED <<stamp, expired, docVars, serverVars, cur, buf, res, temp, client, crashes>>

(***************************************************************************)
(* process_job and the checkpointed pipeline                               *)
(***************************************************************************)

\* Mutant: a tagged document is not put into the text index.
AfterPipelineUnindexed(j, r) ==
  IF r = "failed" \/ j \in TaggedJobs THEN "finishRead" ELSE "index"

\* process_job after the pipeline returned: tags and metadata, then the text index
AfterPipeline(j, r) ==
  IF r = "failed" THEN "finishRead" ELSE IF j \in TaggedJobs THEN "tagRead" ELSE "index"

\* The pipeline returned: a File job removes its temp file first, whatever the outcome.
PipelineEnd(w, r) ==
  /\ res' = [res EXCEPT ![w] = r]
  /\ Goto(w, IF cur[w] \in FileJobs THEN "rmfile" ELSE AfterPipeline(cur[w], r))

\* Mutant: the checkpoint callback fires before the nodes are flushed.
IngestDocumentEarly(w, d) ==
  /\ pc[w] = "ingest"
  /\ cur[w] \in FileJobs => cur[w] \in temp
  /\ docState[d] = "none"
  /\ docState' = [docState EXCEPT ![d] = "doc"]
  /\ docJob' = [docJob EXCEPT ![d] = cur[w]]
  /\ doc' = [doc EXCEPT ![w] = d]
  /\ Goto(w, "ckptRead")
  /\ UNCHANGED <<jobVars, indexed, unindexing, serverVars, cur, buf, res, temp, client,
                 crashes, faults>>

\* Extraction, chunking and tree building, then the transaction of insert_document.  The
\* document id is a fresh UUID.  A File job needs its temp file.
IngestDocument(w, d) ==
  /\ pc[w] = "ingest"
  /\ cur[w] \in FileJobs => cur[w] \in temp
  /\ docState[d] = "none"
  /\ docState' = [docState EXCEPT ![d] = "doc"]
  /\ docJob' = [docJob EXCEPT ![d] = cur[w]]
  /\ doc' = [doc EXCEPT ![w] = d]
  /\ Goto(w, "nodes")
  /\ UNCHANGED <<jobVars, indexed, unindexing, serverVars, cur, buf, res, temp, client,
                 crashes, faults>>

\* The pipeline fails: extraction, the LLM, a missing table or a storage error.
PipelineFails(w) ==
  /\ pc[w] \in {"ingest", "nodes", "summarize"}
  /\ PipelineEnd(w, "failed")
  /\ UNCHANGED <<jobVars, docVars, serverVars, cur, buf, doc, temp, client, crashes, faults>>

\* insert_nodes writes the nodes whether or not the document is still there.
InsertNodes(w) ==
  /\ pc[w] = "nodes"
  /\ docState' = [docState EXCEPT ![doc[w]] =
                    IF docState[doc[w]] = "doc" THEN "nodes" ELSE "orphan"]
  /\ Goto(w, "ckptRead")
  /\ UNCHANGED <<jobVars, docJob, indexed, unindexing, serverVars, cur, buf, doc, res, temp,
                 client, crashes, faults>>

\* set_checkpoint reads the record; a record that does not decode ends it silently.
CheckpointRead(w) ==
  /\ pc[w] = "ckptRead"
  /\ \/ /\ Decodes(status[cur[w]])
        /\ buf' = [buf EXCEPT ![w] = RecordOf(cur[w])]
        /\ Goto(w, "ckptWrite")
     \/ /\ ~Decodes(status[cur[w]])
        /\ Goto(w, "summarize")
        /\ UNCHANGED buf
  /\ UNCHANGED <<jobVars, docVars, serverVars, cur, doc, res, temp, client, crashes, faults>>

CheckpointWrite(w) ==
  /\ pc[w] = "ckptWrite"
  /\ \/ /\ Commits
        /\ status' = [status EXCEPT ![cur[w]] = buf[w].status]
        /\ ckpt' = [ckpt EXCEPT ![cur[w]] = doc[w]]
     \/ /\ Fails
        /\ UNCHANGED <<status, ckpt>>
  /\ Goto(w, "summarize")
  /\ UNCHANGED <<stamp, expired, docVars, serverVars, cur, buf, doc, res, temp, client, crashes>>

\* update_node upserts: summaries of a document deleted meanwhile come back as orphans.
Summarized(d) ==
  CASE docState[d] = "nodes"   -> "summarized"
    [] docState[d] = "deleted" -> "orphan"
    [] OTHER                   -> docState[d]

SummarizeNodes(w) ==
  docState' = IF cur[w] \in SummaryJobs
              THEN [docState EXCEPT ![doc[w]] = Summarized(doc[w])]
              ELSE docState

Summarize(w) ==
  /\ pc[w] = "summarize"
  /\ SummarizeNodes(w)
  /\ PipelineEnd(w, "completed")
  /\ UNCHANGED <<jobVars, docJob, indexed, unindexing, serverVars, cur, buf, doc, temp, client,
                 crashes, faults>>

RemoveTempFile(w) ==
  /\ pc[w] = "rmfile"
  /\ temp' = temp \ {cur[w]}
  /\ Goto(w, AfterPipeline(cur[w], res[w]))
  /\ UNCHANGED <<jobVars, docVars, serverVars, cur, buf, doc, res, client, crashes, faults>>

\* update_document reads the old document (an error when it is gone) ...
TagRead(w) ==
  /\ pc[w] = "tagRead"
  /\ IF Stored(doc[w])
     THEN Goto(w, "tagWrite") /\ UNCHANGED res
     ELSE Goto(w, "finishRead") /\ res' = [res EXCEPT ![w] = "failed"]
  /\ UNCHANGED <<jobVars, docVars, serverVars, cur, buf, doc, temp, client, crashes, faults>>

\* ... and writes the new one in another transaction, which revives a document deleted in
\* between.
TagWrite(w) ==
  /\ pc[w] = "tagWrite"
  /\ docState' = [docState EXCEPT ![doc[w]] = IF Stored(doc[w]) THEN @ ELSE "revived"]
  /\ Goto(w, "index")
  /\ UNCHANGED <<jobVars, docJob, indexed, unindexing, serverVars, cur, buf, doc, res, temp,
                 client, crashes, faults>>

\* index_document_nodes: the entries of whatever nodes are found, then a commit
IndexNodes(w) ==
  /\ pc[w] = "index"
  /\ \/ /\ indexed' = IF docState[doc[w]] \in {"nodes", "summarized"}
                      THEN indexed \cup {doc[w]} ELSE indexed
        /\ UNCHANGED res
     \/ /\ res' = [res EXCEPT ![w] = "failed"]
        /\ UNCHANGED indexed
  /\ Goto(w, "finishRead")
  /\ UNCHANGED <<jobVars, docState, docJob, unindexing, serverVars, cur, buf, doc, temp,
                 client, crashes, faults>>

\* resume_summarization: an error when the checkpointed document is gone, nothing to do when
\* no node lacks a summary (a document without nodes included).
ResumeLookup(w) ==
  /\ pc[w] = "resume"
  /\ \/ /\ ~Stored(doc[w])
        /\ res' = [res EXCEPT ![w] = "failed"]
        /\ Goto(w, "finishRead")
     \/ /\ docState[doc[w]] \in {"summarized", "revived", "doc"}
        /\ res' = [res EXCEPT ![w] = "completed"]
        /\ Goto(w, "finishRead")
     \/ /\ docState[doc[w]] = "nodes"
        /\ Goto(w, "resummarize")
        /\ UNCHANGED res
  /\ UNCHANGED <<jobVars, docVars, serverVars, cur, buf, doc, temp, client, crashes, faults>>

\* process_job returns straight after resume_summarization: no tags, no text index, and the
\* temp file of a File job stays.
Resummarize(w) ==
  /\ pc[w] = "resummarize"
  /\ \/ SummarizeNodes(w) /\ res' = [res EXCEPT ![w] = "completed"]
     \/ UNCHANGED docState /\ res' = [res EXCEPT ![w] = "failed"]
  /\ Goto(w, "finishRead")
  /\ UNCHANGED <<jobVars, docJob, indexed, unindexing, serverVars, cur, buf, doc, temp, client,
                 crashes, faults>>

(***************************************************************************)
(* update_status with the outcome, and back to the drain loop              *)
(***************************************************************************)

Released(w) ==
  /\ cur' = [cur EXCEPT ![w] = NoJob]
  /\ doc' = [doc EXCEPT ![w] = NoDoc]
  /\ buf' = [buf EXCEPT ![w] = [status |-> "new", ckpt |-> NoDoc]]
  /\ res' = [res EXCEPT ![w] = "failed"]

\* Mutant: a failed job returns without an update of its record.
FinishReadSkipsFailure(w) ==
  /\ pc[w] = "finishRead"
  /\ \/ /\ res[w] # "failed"
        /\ buf' = [buf EXCEPT ![w] = RecordOf(cur[w])]
        /\ Goto(w, "finishWrite")
        /\ UNCHANGED <<cur, doc, res>>
     \/ /\ res[w] = "failed"
        /\ Goto(w, "claim")
        /\ Released(w)
  /\ UNCHANGED <<jobVars, docVars, serverVars, temp, client, crashes, faults>>

FinishRead(w) ==
  /\ pc[w] = "finishRead"
  /\ \/ /\ Decodes(status[cur[w]])
        /\ buf' = [buf EXCEPT ![w] = RecordOf(cur[w])]
        /\ Goto(w, "finishWrite")
        /\ UNCHANGED <<cur, doc, res>>
     \/ /\ ~Decodes(status[cur[w]])
        /\ Goto(w, "claim")
        /\ Released(w)
  /\ UNCHANGED <<jobVars, docVars, serverVars, temp, client, crashes, faults>>

\* Mutant: a failed job is put back into the queue.
FinishWriteRetry(w) ==
  /\ pc[w] = "finishWrite"
  /\ Commits
  /\ status' = [status EXCEPT ![cur[w]] = IF res[w] = "failed" THEN "queued" ELSE res[w]]
  /\ ckpt' = [ckpt EXCEPT ![cur[w]] = NoDoc]
  /\ Goto(w, "claim")
  /\ Released(w)
  /\ UNCHANGED <<stamp, expired, docVars, serverVars, temp, client, crashes>>

\* Mutant: a worker takes one job per notification.
FinishWriteOnce(w) ==
  /\ pc[w] = "finishWrite"
  /\ Commits
  /\ status' = [status EXCEPT ![cur[w]] = res[w]]
  /\ ckpt' = [ckpt EXCEPT ![cur[w]] = buf[w].ckpt]
  /\ Goto(w, "idle")
  /\ Released(w)
  /\ UNCHANGED <<stamp, expired, docVars, serverVars, temp, client, crashes>>

FinishWrite(w) ==
  /\ pc[w] = "finishWrite"
  /\ \/ /\ Commits
        /\ status' = [status EXCEPT ![cur[w]] = res[w]]
        /\ ckpt' = [ckpt EXCEPT ![cur[w]] = buf[w].ckpt]
     \/ /\ Fails
        /\ UNCHANGED <<status, ckpt>>
  /\ Goto(w, "claim")
  /\ Released(w)
  /\ UNCHANGED <<stamp, expired, docVars, serverVars, temp, client, crashes>>

(***************************************************************************)
(* Expiry, and clients that delete documents                               *)
(***************************************************************************)

\* JOB_EXPIRY_SECS have passed since the outcome was written.
Expire(j) ==
  /\ status[j] \in Terminal
  /\ j \notin expired
  /\ expired' = expired \cup {j}
  /\ UNCHANGED <<status, ckpt, stamp, docVars, serverVars, workerVars, temp, client, crashes,
                 faults>>

CleanupRead ==
  /\ phase = "serving"
  /\ doomed = {}
  /\ doomed' = {j \in Jobs : status[j] \in Terminal /\ j \in expired}
  /\ doomed' # {}
  /\ UNCHANGED <<jobVars, docVars, phase, todo, chan, leader, workerVars, temp, client, crashes,
                 faults>>

\* delete_jobs: records and order entries in one transaction
CleanupDelete ==
  /\ doomed # {}
  /\ status' = [j \in Jobs |-> IF j \in doomed THEN "gone" ELSE status[j]]
  /\ ckpt' = [j \in Jobs |-> IF j \in doomed THEN NoDoc ELSE ckpt[j]]
  /\ stamp' = [j \in Jobs |-> IF j \in doomed THEN 0 ELSE stamp[j]]
  /\ expired' = expired \ doomed
  /\ doomed' = {}
  /\ UNCHANGED <<docVars, phase, todo, chan, leader, workerVars, temp, client, crashes, faults>>

\* The delete_document route: the store transaction, then the text index.
DeleteDocument(d) ==
  /\ phase # "down"
  /\ d \in Deletable
  /\ Stored(d)
  /\ docState' = [docState EXCEPT ![d] = "deleted"]
  /\ unindexing' = unindexing \cup {d}
  /\ UNCHANGED <<jobVars, docJob, indexed, serverVars, workerVars, temp, client, crashes, faults>>

UnindexDocument(d) ==
  /\ d \in unindexing
  /\ unindexing' = unindexing \ {d}
  /\ indexed' = indexed \ {d}
  /\ UNCHANGED <<jobVars, docState, docJob, serverVars, workerVars, temp, client, crashes, faults>>

(***************************************************************************)
(* The specification                                                       *)
(***************************************************************************)

WorkerStep(w) ==
  \/ Listen(w) \/ CheckLeader(w)
  \/ \E j \in Jobs : Claim(w, j)
  \/ ClaimNone(w) \/ ClaimPersist(w)
  \/ \E d \in Docs : IngestDocument(w, d)
  \/ PipelineFails(w) \/ InsertNodes(w)
  \/ CheckpointRead(w) \/ CheckpointWrite(w)
  \/ Summarize(w) \/ RemoveTempFile(w) \/ TagRead(w) \/ TagWrite(w) \/ IndexNodes(w)
  \/ ResumeLookup(w) \/ Resummarize(w)
  \/ FinishRead(w) \/ FinishWrite(w)

Recover == Start \/ StartWorkers \/ \E j \in Jobs : ResumeJob(j)

ClientStep ==
  \/ \E j \in Jobs : Enqueue(j) \/ EnqueueNotify(j) \/ EnqueueReply(j)
  \/ \E d \in Docs : DeleteDocument(d) \/ UnindexDocument(d)

Housekeeping == CleanupRead \/ CleanupDelete \/ \E j \in Jobs : Expire(j)

Next ==
  \/ ClientStep
  \/ Recover
  \/ Dispatch
  \/ \E w \in Workers : WorkerStep(w)
  \/ Housekeeping
  \/ LeaderChange
  \/ Crash

Spec == Init /\ [][Next]_vars

\* The runtime polls every ready task and every await of the pipeline returns; nothing is
\* assumed of clients, of crashes or of the passage of an hour.
Fairness ==
  /\ \A w \in Workers : WF_vars(WorkerStep(w))
  /\ WF_vars(Dispatch)
  /\ WF_vars(Recover)
  /\ \A j \in Jobs : WF_vars(EnqueueNotify(j))

FairSpec == Spec /\ Fairness

(***************************************************************************)
(* Properties                                                              *)
(***************************************************************************)

\* The types of the state.
TypeOK ==
  /\ status \in [Jobs -> Statuses]
  /\ ckpt \in [Jobs -> Docs \cup {NoDoc}]
  /\ stamp \in [Jobs -> 0..MaxStamp]
  /\ expired \subseteq Jobs
  /\ temp \subseteq Jobs
  /\ docState \in [Docs -> DocStates]
  /\ docJob \in [Docs -> Jobs \cup {NoJob}]
  /\ indexed \subseteq Docs
  /\ unindexing \subseteq Docs
  /\ phase \in Phases
  /\ todo \subseteq Jobs
  /\ doomed \subseteq Jobs
  /\ chan \in 0..ChanCap
  /\ leader \in BOOLEAN
  /\ client \in [Jobs -> Clients]
  /\ pc \in [Workers -> PCs]
  /\ cur \in [Workers -> Jobs \cup {NoJob}]
  /\ buf \in [Workers -> Record]
  /\ doc \in [Workers -> Docs \cup {NoDoc}]
  /\ res \in [Workers -> Terminal]
  /\ crashes \in 0..MaxCrashes
  /\ faults \in 0..MaxFaults

HeldBySome(j) == \E w \in Workers : cur[w] = j

DocsOf(j) == {d \in Docs : docJob[d] = j}

\* Two workers never process the same job, across crashes, restarts and failing writes.
\* ("Each worker atomically claims jobs via claim_next_queued(), preventing duplicates.")
OneHolder ==
  \A v, w \in Workers : v # w /\ cur[v] # NoJob => cur[v] # cur[w]

\* set_checkpoint and update_status read the record in one transaction and write it back in
\* another: nothing has changed the record in between, so neither loses an update.
NoLostUpdate ==
  \A w \in Workers : pc[w] \in {"ckptWrite", "finishWrite"} => buf[w] = RecordOf(cur[w])

\* While the pool serves, a job shown as processing is in the hands of a live worker: crash
\* recovery leaves no such job behind (unless one of its writes failed).
ProcessingIsHeld ==
  phase = "serving" /\ faults = 0 =>
    \A j \in Jobs : status[j] = "processing" => HeldBySome(j)

\* A persisted checkpoint names a document of this very job whose nodes reached the store,
\* so summarization can resume from it after any crash.
CheckpointIsResumable ==
  \A j \in Jobs : ckpt[j] # NoDoc =>
    /\ docJob[ckpt[j]] = j
    /\ docState[ckpt[j]] \notin {"none", "doc"}

\* A job reported as completed has a checkpointed document, and if the server never crashed
\* that document is in the text index (unless it was deleted) and no temp file is left.
CompletedIsIngested ==
  \A j \in Jobs : status[j] = "completed" /\ faults = 0 =>
    /\ ckpt[j] # NoDoc
    /\ crashes = 0 =>
         /\ docState[ckpt[j]] \in {"nodes", "summarized"} => ckpt[j] \in indexed
         /\ j \notin temp

\* A document is ingested more than once only because of crashes, once per crash at most.
DuplicatesNeedCrashes ==
  \A j \in Jobs : Cardinality(DocsOf(j)) <= 1 + crashes

\* The record or the worker's copy of it names a checkpoint.
Checkpointed(j) ==
  ckpt[j] # NoDoc \/ \E w \in Workers : cur[w] = j /\ buf[w].ckpt # NoDoc

\* Once a job has a checkpoint no step builds another document for it: the chunking work is
\* never repeated ("resume summarization rather than re-chunking from scratch").
NoRechunking ==
  [][\A j \in Jobs : Checkpointed(j) => DocsOf(j)' = DocsOf(j)]_vars

\* The refinement mapping: a blank record is a job that runs.
LifeOf(s) ==
  CASE s = "queued" -> "waiting"
    [] s \in {"blank", "processing"} -> "running"
    [] OTHER -> s

Life == [j \in Jobs |-> LifeOf(status[j])]

Lifecycle == INSTANCE JobLifecycle WITH life <- Life

\* Seen through Life the queue only takes the steps of JobLifecycle: an outcome comes from a
\* running job, is never replaced, and only jobs with an outcome are forgotten.
LifecycleSpec == Lifecycle!Spec

\* A job that is being processed gets an outcome or, after a crash, is queued again, unless
\* the write of its record failed.
ProcessingEnds ==
  \A j \in Jobs : (status[j] = "processing") ~> (status[j] # "processing" \/ faults > 0)

\* A worker that is claiming or processing does not go back to sleep before every queued job
\* has been claimed: a job queued behind a busy pool is started, unless the server dies or a
\* claim transaction fails.
BusyPoolDrains ==
  \A j \in Jobs :
    (status[j] = "queued" /\ \E w \in Workers : pc[w] \in Holding \cup {"claim"})
      ~> (status[j] # "queued" \/ phase = "down" \/ faults > 0)

\* "Jobs are persisted to redb so they survive server restarts" (jobs.rs:3): while the pool
\* serves, a record without a readable job belongs to a worker that is about to write it.
JobsSurviveRestarts ==
  phase = "serving" /\ faults = 0 =>
    \A j \in Jobs : status[j] = "blank" => HeldBySome(j)

\* "Was waiting - re-notify the worker" (jobs.rs:299): a queued job is eventually claimed.
QueuedIsStarted ==
  \A j \in Jobs : (status[j] = "queued") ~> (status[j] # "queued")
=============================================================================
