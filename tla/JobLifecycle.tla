---------------------------- MODULE JobLifecycle ----------------------------
(***************************************************************************)
(* What the bridge promises about a job, whoever acts on it: an abstract   *)
(* specification over the durable job files alone.                         *)
(*                                                                         *)
(* A job is submitted once, is claimed, may be handed back to the queue    *)
(* while nothing has been executed for it, and is resolved exactly once.   *)
(* The resolution (its status and its author) never changes afterwards.    *)
(* At most MaxActiveJobs jobs are queued or running and at most            *)
(* MaxConcurrency of them are running, as far as a look at the files tells *)
(* (see lapse).                                                            *)
(*                                                                         *)
(* JobRunner is shown to implement this module.                            *)
(***************************************************************************)
EXTENDS JobTypes

VARIABLES
    status,          \* the status field of every job file
    author,          \* who wrote the terminal result stored in it
    lapse            \* the most files that one look at them has left out

lifecycleVars == <<status, author, lapse>>

With(st) == {j \in Job : status[j] \in st}

-----------------------------------------------------------------------------

Init ==
    /\ status = [j \in Job |-> "absent"]
    /\ author = [j \in Job |-> NoAuthor]
    /\ lapse = 0

(* Some files could not be read.                                           *)
Overlook ==
    /\ lapse' \in Nat
    /\ lapse' > lapse
    /\ UNCHANGED <<status, author>>

Submit(j) ==
    /\ status[j] = "absent"
    /\ \A k \in Job : k < j => status[k] # "absent"
    /\ Cardinality(With(Active)) < MaxActiveJobs + lapse
    /\ status' = [status EXCEPT ![j] = "queued"]
    /\ UNCHANGED <<author, lapse>>

Claim(j) ==
    /\ status[j] = "queued"
    /\ Cardinality(With({"running"})) < MaxConcurrency + lapse
    /\ status' = [status EXCEPT ![j] = "running"]
    /\ UNCHANGED <<author, lapse>>

Requeue(j) ==
    /\ status[j] = "running"
    /\ status' = [status EXCEPT ![j] = "queued"]
    /\ UNCHANGED <<author, lapse>>

(* What each author may write: an API cancellation always cancels, a       *)
(* restart always fails the job, and both an execution and a restart need  *)
(* a claimed job.                                                          *)
MayResolve(who, from, to) ==
    /\ to \in Terminal
    /\ who = "cancel" => to = "cancelled"
    /\ who = "recovery" => to = "failed"
    /\ from = "running" \/ (from = "queued" /\ who \in {"callback", "cancel"})

Resolve(j, who, to) ==
    /\ MayResolve(who, status[j], to)
    /\ status' = [status EXCEPT ![j] = to]
    /\ author' = [author EXCEPT ![j] = who]
    /\ UNCHANGED lapse

Next ==
    \/ Overlook
    \/ \E j \in Job :
        \/ Submit(j)
        \/ Claim(j)
        \/ Requeue(j)
        \/ \E who \in Author, to \in Terminal : Resolve(j, who, to)

Spec == Init /\ [][Next]_lifecycleVars

=============================================================================
