------------------------------ MODULE JobTypes ------------------------------
(***************************************************************************)
(* The vocabulary of a job file (src/jobs/job.types.ts) and the limits of  *)
(* the configuration that bound the queue.                                 *)
(***************************************************************************)
EXTENDS Integers, FiniteSets

CONSTANTS
    MaxJobs,         \* how many jobs are ever submitted (a bound of the model)
    MaxActiveJobs,   \* BRIDGE_MAX_ACTIVE_JOBS
    MaxConcurrency   \* BRIDGE_MAX_CONCURRENCY

(* parsePositiveInt refuses a zero or a negative limit at startup.         *)
ASSUME LimitsAssumption ==
    /\ MaxJobs \in Nat
    /\ MaxActiveJobs \in Nat \ {0}
    /\ MaxConcurrency \in Nat \ {0}

(* A job is named by its place in the order of submission, which is the    *)
(* order of its queueOrder field.                                          *)
Job == 1 .. MaxJobs
NoJob == 0

(* "absent" stands for a job that has no file yet.                         *)
Terminal == {"succeeded", "failed", "cancelled"}
Active   == {"queued", "running"}
Status   == {"absent"} \cup Active \cup Terminal

(* The code paths that may write a terminal result. Two results written by *)
(* different paths differ in their captured output and execution metadata, *)
(* which is all the model keeps of them.                                   *)
Author   == {"execution", "callback", "cancel", "recovery"}
NoAuthor == "nobody"
=============================================================================
