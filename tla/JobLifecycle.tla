---------------------------- MODULE JobLifecycle ----------------------------
(***************************************************************************)
(* What the ingestion job queue promises its clients, without workers,     *)
(* notifications, transactions or documents: the states in which a job     *)
(* may be found, and the only ways from one to another.  A client polls    *)
(* GET /v1/jobs/{id} until it sees an outcome; an outcome, once seen, is   *)
(* the outcome until the record expires.                                   *)
(***************************************************************************)
CONSTANTS Jobs        \* every job id a client may ever be given

VARIABLES life        \* the state of each job

Outcomes == {"completed", "failed"}

Lives == {"new", "waiting", "running", "gone"} \cup Outcomes

Init == life = [j \in Jobs |-> "new"]

\* JobQueue::enqueue
Submit(j) ==
  /\ life[j] = "new"
  /\ life' = [life EXCEPT ![j] = "waiting"]

\* JobQueue::claim_next_queued
Begin(j) ==
  /\ life[j] = "waiting"
  /\ life' = [life EXCEPT ![j] = "running"]

\* JobQueue::resume_incomplete_jobs: an interrupted job waits again
Requeue(j) ==
  /\ life[j] = "running"
  /\ life' = [life EXCEPT ![j] = "waiting"]

\* JobQueue::update_status: only a running job gets an outcome
End(j) ==
  /\ life[j] = "running"
  /\ \E o \in Outcomes : life' = [life EXCEPT ![j] = o]

\* JobQueue::cleanup_expired_jobs: only jobs with an outcome are forgotten
Forget(S) ==
  /\ \A j \in S : life[j] \in Outcomes
  /\ life' = [j \in Jobs |-> IF j \in S THEN "gone" ELSE life[j]]

Next ==
  \/ \E j \in Jobs : Submit(j) \/ Begin(j) \/ Requeue(j) \/ End(j)
  \/ \E S \in SUBSET Jobs : Forget(S)

Spec == Init /\ [][Next]_life
=============================================================================
