----------------------------- MODULE MCLlmsJobs -----------------------------
(* LlmsJobs on small sets, for TLC. *)
EXTENDS LlmsJobs, TLC

-----------------------------------------------------------------------------
(* What comments of the code say and a run of it need not do.  Given as the *)
(* property of this module's configuration, each has a counterexample.      *)

\* service.go:419: a user has at most MaxActive active jobs.
ConcurrencyLimited == Cardinality(ActiveJobs) <= MaxActive

\* A completed row's file is in R2 (service.go:281-288 does not say so of
\* results served from the cache).
CompletedIsUploaded == \A j \in Job : status[j] = "completed" /\ start[j] # "copy" => j \in uploaded
=============================================================================
