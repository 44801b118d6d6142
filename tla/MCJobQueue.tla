---------------------------- MODULE MCJobQueue ----------------------------
(* Model values for JobQueue and the symmetry of workers and documents.  *)
EXTENDS JobQueue, TLC

Symmetry == Permutations(Workers) \cup Permutations(Docs)
=============================================================================
