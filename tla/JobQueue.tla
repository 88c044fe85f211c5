------------------------------ MODULE JobQueue ------------------------------
(***************************************************************************)
(* The durable job files and the two serialized ways in: submission        *)
(* (JobsService.createJob, under createMutex) and claiming                 *)
(* (JobRunnerService.claimNext, under claimMutex).                         *)
(*                                                                         *)
(* Every step of this module ends at an await of the code: what was read   *)
(* before it may be stale after it. A listing may leave out files, which   *)
(* listAll skips when it cannot read them. JobRunner adds what happens to  *)
(* a claimed job, the API, and the life of the process.                    *)
(***************************************************************************)
EXTENDS JobTypes

CONSTANT
    MaxFaults     \* bound: how often reading or writing a job file may fail

ASSUME FaultsAssumption == MaxFaults \in Nat

VARIABLES
    \* The job files (JobQueueRepository): they survive the process.
    status,       \* [Job -> Status]
    author,       \* [Job -> Author \cup {NoAuthor}]
    \* The bridge process.
    phase,        \* where the process is in its life, see Phase
    inFlight,     \* JobRunnerService.inFlight
    creating,     \* createJob calls between countActive and save
    claimStep,    \* the holder of claimMutex, between two of its awaits
    seen,         \* claimNext's snapshot of the files (listAll)
    unread,       \* the files that snapshot leaves out
    chosen,       \* the candidate claimNext took from that snapshot
    \* The disk.
    faults,       \* how often reading or writing a job file has failed
    lapse         \* history: the most files that one listing left out

durableVars == <<status, author>>
claimVars   == <<claimStep, seen, unread, chosen>>
diskVars    == <<faults, lapse>>
queueVars   == <<status, author, phase, inFlight, creating,
                 claimStep, seen, unread, chosen>>

(* down: no process. recovering: onModuleInit before the first tick.       *)
(* serving: normal work. draining: onModuleDestroy is waiting for captured *)
(* work (shuttingDown). closing: it has returned, and the HTTP server is   *)
(* open until the process exits.                                           *)
Phase == {"down", "recovering", "serving", "draining", "closing"}

ShuttingDown == phase \in {"draining", "closing"}
ApiOpen      == phase \in {"serving", "draining", "closing"}

ClaimStep  == {"idle", "listed", "chosen", "written", "undo"}

With(st) == {j \in Job : status[j] \in st}
NoSnapshot == [j \in Job |-> "absent"]

QueueTypeOK ==
    /\ status \in [Job -> Status]
    /\ author \in [Job -> Author \cup {NoAuthor}]
    /\ phase \in Phase
    /\ inFlight \subseteq Job
    /\ creating \in Nat
    /\ claimStep \in ClaimStep
    /\ seen \in [Job -> Status]
    /\ unread \subseteq Job
    /\ chosen \in Job \cup {NoJob}
    /\ faults \in Nat
    /\ lapse \in Nat

QueueInit ==
    /\ status = [j \in Job |-> "absent"]
    /\ author = [j \in Job |-> NoAuthor]
    /\ phase = "down"
    /\ inFlight = {}
    /\ creating = 0
    /\ claimStep = "idle"
    /\ seen = NoSnapshot
    /\ unread = {}
    /\ chosen = NoJob
    /\ faults = 0
    /\ lapse = 0

-----------------------------------------------------------------------------
(* The repository. transition holds the job's own lock while it reads the  *)
(* file, compares its status and renames the new file over it, so it is    *)
(* one step.                                                               *)

(* A faulty variant, which writes whatever the file says by then.          *)
TransitionUnchecked(j, expected, to, who) ==
    /\ status' = [status EXCEPT ![j] = to]
    /\ author' = [author EXCEPT ![j] = who]

Transition(j, expected, to, who) ==
    IF status[j] \in expected
    THEN /\ status' = [status EXCEPT ![j] = to]
         /\ author' = [author EXCEPT ![j] = who]
    ELSE UNCHANGED durableVars

(* Reading or writing one file fails.                                      *)
FileFails ==
    /\ faults < MaxFaults
    /\ faults' = faults + 1
    /\ UNCHANGED lapse

(* listAll reads every file by itself and skips, with a warning, each one  *)
(* whose readFile fails: here those of S.                                  *)
Listing(S) ==
    /\ faults + Cardinality(S) =< MaxFaults
    /\ faults' = faults + Cardinality(S)
    /\ lapse' = IF Cardinality(S) > lapse THEN Cardinality(S) ELSE lapse

-----------------------------------------------------------------------------
(* Submission. countActive is read under createMutex; the file is written  *)
(* later, under the same mutex.                                            *)

(* findExistingRequestJob has found nothing (these submissions carry no    *)
(* requestId), and the queue is not full by the files countActive could    *)
(* read. A full queue answers 429 and changes nothing.                     *)
CreateAdmit ==
    /\ ApiOpen
    /\ creating = 0
    /\ \E j \in Job : status[j] = "absent"
    /\ \E skip \in SUBSET With(Active) :
          /\ Listing(skip)
          /\ Cardinality(With(Active) \ skip) < MaxActiveJobs
    /\ creating' = creating + 1
    /\ UNCHANGED <<durableVars, phase, inFlight, claimVars>>

CreateSave(j) ==
    /\ creating > 0
    /\ status[j] = "absent"
    /\ \A k \in Job : k < j => status[k] # "absent"
    /\ status' = [status EXCEPT ![j] = "queued"]
    /\ creating' = creating - 1
    /\ UNCHANGED <<author, phase, inFlight, claimVars, diskVars>>

(* The save throws: the request is answered 500, and there is no file.     *)
CreateFails ==
    /\ creating > 0
    /\ FileFails
    /\ creating' = creating - 1
    /\ UNCHANGED <<durableVars, phase, inFlight, claimVars>>

-----------------------------------------------------------------------------
(* claimNext.                                                              *)

ClaimIdle ==
    /\ claimStep' = "idle"
    /\ seen' = NoSnapshot
    /\ unread' = {}
    /\ chosen' = NoJob

(* A tick (the poll interval, a submission, the end of a run) reaches the  *)
(* head of claimMutex and lists the files. The snapshot lacks those that   *)
(* could not be read. When the process is shutting down or every slot is   *)
(* taken it returns at once and changes nothing.                           *)
ClaimList ==
    /\ phase = "serving"
    /\ claimStep = "idle"
    /\ Cardinality(inFlight) < MaxConcurrency
    /\ claimStep' = "listed"
    /\ \E skip \in SUBSET With(Active) :
          /\ Listing(skip)
          /\ unread' = skip
          /\ seen' = [j \in Job |-> IF j \in skip THEN "absent" ELSE status[j]]
    /\ UNCHANGED <<durableVars, phase, inFlight, creating, chosen>>

ClaimChoosable(j) ==
    /\ seen[j] = "queued"
    /\ j \notin inFlight

(* Running jobs of the snapshot that this process does not execute itself. *)
ExternallyRunning == {j \in Job : seen[j] = "running"} \ inFlight

SlotFree ==
    Cardinality(inFlight) + Cardinality(ExternallyRunning) < MaxConcurrency

(* A faulty variant: any queued job of the snapshot will do.               *)
CandidateUnordered(j) == ClaimChoosable(j)

(* The first queued job in queue order that is not already in flight.      *)
Candidate(j) ==
    /\ ClaimChoosable(j)
    /\ \A k \in Job : k < j => ~ClaimChoosable(k)

(* The synchronous code after listAll: the limits are checked against the  *)
(* snapshot and against inFlight as it is now.                             *)
ClaimChoose(j) ==
    /\ claimStep = "listed"
    /\ ~ShuttingDown
    /\ SlotFree
    /\ Candidate(j)
    /\ claimStep' = "chosen"
    /\ chosen' = j
    /\ seen' = NoSnapshot
    /\ UNCHANGED <<durableVars, phase, inFlight, creating, unread, diskVars>>

ClaimNothing ==
    /\ claimStep = "listed"
    /\ \/ ShuttingDown
       \/ ~SlotFree
       \/ \A j \in Job : ~ClaimChoosable(j)
    /\ ClaimIdle
    /\ UNCHANGED <<durableVars, phase, inFlight, creating, diskVars>>

ClaimWrite ==
    /\ claimStep = "chosen"
    /\ Transition(chosen, {"queued"}, "running", NoAuthor)
    /\ IF status[chosen] = "queued"
       THEN claimStep' = "written" /\ UNCHANGED <<seen, unread, chosen>>
       ELSE ClaimIdle
    /\ UNCHANGED <<phase, inFlight, creating, diskVars>>

ClaimAdmit ==
    /\ claimStep = "written"
    /\ ~ShuttingDown
    /\ inFlight' = inFlight \cup {chosen}
    /\ ClaimIdle
    /\ UNCHANGED <<durableVars, phase, creating, diskVars>>

(* A faulty variant: the late claim is dropped and its file left running.  *)
ClaimLateForgets ==
    /\ claimStep = "written"
    /\ ShuttingDown
    /\ ClaimIdle
    /\ UNCHANGED <<durableVars, phase, inFlight, creating, diskVars>>

(* The process began to shut down while the claim was being written.       *)
ClaimLate ==
    /\ claimStep = "written"
    /\ ShuttingDown
    /\ claimStep' = "undo"
    /\ UNCHANGED <<durableVars, phase, inFlight, creating, seen, unread, chosen,
                   diskVars>>

ClaimUndo ==
    /\ claimStep = "undo"
    /\ Transition(chosen, {"running"}, "queued", NoAuthor)
    /\ ClaimIdle
    /\ UNCHANGED <<phase, inFlight, creating, diskVars>>
=============================================================================
