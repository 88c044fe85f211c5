----------------------------- MODULE JobRunner ------------------------------
(***************************************************************************)
(* JobRunnerService and the JobsService handlers that race with it, for    *)
(* jobs in exec mode: executing a claimed job, the cancel and callback     *)
(* routes, shutdown, the end of the process at any moment, and recovery.   *)
(*                                                                         *)
(* A step is what the code does between two awaits. The child process of   *)
(* a job is alive exactly while run[j] = "executing"; the end of the       *)
(* bridge kills it (KillMode=control-group of omx-bridge.service).         *)
(***************************************************************************)
EXTENDS JobQueue

CONSTANT
    MaxRestarts       \* bound: how often the process may stop or die

ASSUME BoundsAssumption == MaxRestarts \in Nat

VARIABLES
    notified,        \* durable: the jobs whose file has a notifyOutcome
    run,             \* executeJob of each job, between two of its awaits
    result,          \* the outcome execute() resolved with, not yet written
    controllers,     \* abortControllers: the jobs that have an entry
    aborted,         \* the jobs whose AbortSignal has fired
    cancelling,      \* API handlers between their transition and runner.cancel
    notifying,       \* completionNotifications: notifications in progress
    instanceLock,    \* the process holds .omx-bridge-instance.lock
    captured,        \* the runs onModuleDestroy waits for
    overlooked,      \* the running files that recovery's listing left out
    skipped,         \* ends this process has given up announcing
    restarts,        \* how often the process has stopped or died
    executed         \* history: the jobs a child was ever spawned for

runVars   == <<run, result, controllers, aborted, executed>>
apiVars   == <<cancelling>>
shutVars  == <<instanceLock, captured>>
startVars == <<overlooked, skipped>>
bounds    == <<restarts, diskVars>>
vars == <<queueVars, notified, run, result, controllers, aborted, cancelling,
          notifying, instanceLock, captured, overlooked, skipped, restarts,
          diskVars, executed>>

(* lookup: getById is reading the job. found: it returned a running job.   *)
(* starting: the controller is registered, the cwd is being resolved.      *)
(* settled: execute() has a result. marking: writing it failed.            *)
RunStep == {"none", "lookup", "found", "requeue", "starting", "executing",
            "settled", "marking"}
NoResult == "none"

Alive(j) == run[j] = "executing"

TypeOK ==
    /\ QueueTypeOK
    /\ notified \subseteq Job
    /\ run \in [Job -> RunStep]
    /\ result \in [Job -> Terminal \cup {NoResult}]
    /\ controllers \subseteq Job
    /\ aborted \subseteq Job
    /\ cancelling \subseteq Job
    /\ notifying \subseteq Job
    /\ instanceLock \in BOOLEAN
    /\ captured \subseteq Job
    /\ overlooked \subseteq Job
    /\ skipped \subseteq Job
    /\ restarts \in Nat
    /\ executed \subseteq Job

Init ==
    /\ QueueInit
    /\ notified = {}
    /\ run = [j \in Job |-> "none"]
    /\ result = [j \in Job |-> NoResult]
    /\ controllers = {}
    /\ aborted = {}
    /\ cancelling = {}
    /\ notifying = {}
    /\ instanceLock = FALSE
    /\ captured = {}
    /\ overlooked = {}
    /\ skipped = {}
    /\ restarts = 0
    /\ executed = {}

-----------------------------------------------------------------------------
(* Submission and claiming, see JobQueue.                                  *)

Create ==
    /\ \/ CreateAdmit
       \/ \E j \in Job : CreateSave(j)
       \/ CreateFails
    /\ UNCHANGED <<notified, runVars, apiVars, notifying, shutVars, startVars,
                   restarts>>

ClaimWithoutRun ==
    /\ \/ ClaimList
       \/ \E j \in Job : ClaimChoose(j)
       \/ ClaimNothing
       \/ ClaimWrite
       \/ ClaimLate
       \/ ClaimUndo
    /\ UNCHANGED <<notified, runVars, apiVars, notifying, shutVars, startVars,
                   restarts>>

(* runOnce goes straight on to executeJob, whose first await is getById.   *)
Admit ==
    /\ ClaimAdmit
    /\ run' = [run EXCEPT ![chosen] = "lookup"]
    /\ UNCHANGED <<notified, result, controllers, aborted, executed, apiVars,
                   notifying, shutVars, startVars, restarts>>

ClaimNext == ClaimWithoutRun \/ Admit

-----------------------------------------------------------------------------
(* executeJob.                                                             *)

(* The finally blocks of executeJob and of runOnce.                        *)
EndRun(j) ==
    /\ run' = [run EXCEPT ![j] = "none"]
    /\ result' = [result EXCEPT ![j] = NoResult]
    /\ controllers' = controllers \ {j}
    /\ aborted' = aborted \ {j}
    /\ inFlight' = inFlight \ {j}

Lookup(j) ==
    /\ run[j] = "lookup"
    /\ IF status[j] = "running"
       THEN /\ run' = [run EXCEPT ![j] = "found"]
            /\ UNCHANGED <<result, controllers, aborted, inFlight>>
       ELSE EndRun(j)
    /\ UNCHANGED <<durableVars, phase, creating, claimVars, notified,
                   executed, apiVars, notifying, shutVars, startVars, bounds>>

(* A faulty variant: executeJob does not look at shuttingDown again.       *)
StartRegardless(j) ==
    /\ run[j] = "found"
    /\ run' = [run EXCEPT ![j] = "starting"]
    /\ controllers' = controllers \cup {j}
    /\ aborted' = aborted \ {j}
    /\ UNCHANGED <<queueVars, notified, result, executed, apiVars, notifying,
                   shutVars, startVars, bounds>>

(* The code after getById trusts the job it read.                          *)
Start(j) ==
    /\ run[j] = "found"
    /\ IF ShuttingDown
       THEN /\ run' = [run EXCEPT ![j] = "requeue"]
            /\ UNCHANGED <<controllers, aborted>>
       ELSE /\ run' = [run EXCEPT ![j] = "starting"]
            /\ controllers' = controllers \cup {j}
            /\ aborted' = aborted \ {j}
    /\ UNCHANGED <<queueVars, notified, result, executed, apiVars, notifying,
                   shutVars, startVars, bounds>>

Requeue(j) ==
    /\ run[j] = "requeue"
    /\ Transition(j, {"running"}, "queued", NoAuthor)
    /\ EndRun(j)
    /\ UNCHANGED <<phase, creating, claimVars, notified, executed, apiVars,
                   notifying, shutVars, startVars, bounds>>

Settle(j, s) ==
    /\ run' = [run EXCEPT ![j] = "settled"]
    /\ result' = [result EXCEPT ![j] = s]

(* After the cwd is resolved: a fired signal settles without a child.      *)
Spawn(j) ==
    /\ run[j] = "starting"
    /\ IF j \in aborted
       THEN /\ Settle(j, "cancelled")
            /\ UNCHANGED executed
       ELSE /\ run' = [run EXCEPT ![j] = "executing"]
            /\ executed' = executed \cup {j}
            /\ UNCHANGED result
    /\ UNCHANGED <<queueVars, notified, controllers, aborted, apiVars,
                   notifying, shutVars, startVars, bounds>>

(* The cwd is refused: execute() returns failed and spawns nothing.        *)
RefuseCwd(j) ==
    /\ run[j] = "starting"
    /\ Settle(j, "failed")
    /\ UNCHANGED <<queueVars, notified, controllers, aborted, executed,
                   apiVars, notifying, shutVars, startVars, bounds>>

(* The child is gone: it closed, timed out, was terminated, or never       *)
(* started (the error event). Once the signal has fired the result is      *)
(* cancelled, or failed when the signal could not be delivered.            *)
ChildGone(j) ==
    /\ Alive(j)
    /\ \E s \in IF j \in aborted THEN {"cancelled", "failed"}
                                 ELSE {"succeeded", "failed"} : Settle(j, s)
    /\ UNCHANGED <<queueVars, notified, controllers, aborted, executed,
                   apiVars, notifying, shutVars, startVars, bounds>>

(* Both transitions of executeJob notify only when they took place.        *)
NotifyIfWritten(j) ==
    notifying' = IF status[j] = "running" THEN notifying \cup {j} ELSE notifying

Record(j) ==
    /\ run[j] = "settled"
    /\ Transition(j, {"running"}, result[j], "execution")
    /\ NotifyIfWritten(j)
    /\ EndRun(j)
    /\ UNCHANGED <<phase, creating, claimVars, notified, executed, apiVars,
                   shutVars, startVars, bounds>>

(* The transition throws: the catch block will try to mark the job failed. *)
RecordFails(j) ==
    /\ run[j] = "settled"
    /\ FileFails
    /\ run' = [run EXCEPT ![j] = "marking"]
    /\ result' = [result EXCEPT ![j] = NoResult]
    /\ UNCHANGED <<queueVars, notified, controllers, aborted, executed,
                   apiVars, notifying, shutVars, startVars, restarts>>

(* A faulty variant: the run ends, and the file is left as it is.          *)
MarkNothing(j) ==
    /\ run[j] = "marking"
    /\ EndRun(j)
    /\ UNCHANGED <<durableVars, phase, creating, claimVars, notified, executed,
                   apiVars, notifying, shutVars, startVars, bounds>>

(* When this one throws as well, nothing catches the rejection of          *)
(* runOnce and the process ends: Crash.                                    *)
MarkFailed(j) ==
    /\ run[j] = "marking"
    /\ Transition(j, {"running"}, "failed", "execution")
    /\ NotifyIfWritten(j)
    /\ EndRun(j)
    /\ UNCHANGED <<phase, creating, claimVars, notified, executed, apiVars,
                   shutVars, startVars, bounds>>

ExecuteJob(j) ==
    \/ Lookup(j)
    \/ Start(j)
    \/ Requeue(j)
    \/ Spawn(j)
    \/ RefuseCwd(j)
    \/ ChildGone(j)
    \/ Record(j)
    \/ RecordFails(j)
    \/ MarkFailed(j)

-----------------------------------------------------------------------------
(* The cancel and callback routes. Each resolves the job first and then    *)
(* looks for its controller. The refusals (404, 409, a replayed callback)  *)
(* change nothing.                                                         *)

ResolveFromApi(j, s, who) ==
    /\ ApiOpen
    /\ status[j] \in Active
    /\ Transition(j, Active, s, who)
    /\ cancelling' = cancelling \cup {j}
    /\ UNCHANGED <<phase, inFlight, creating, claimVars, notified, runVars,
                   notifying, shutVars, startVars, bounds>>

CancelJob(j) == ResolveFromApi(j, "cancelled", "cancel")

CompleteFromCallback(j) ==
    \E s \in Terminal : ResolveFromApi(j, s, "callback")

(* A faulty variant: the slot is given away while the child still runs.    *)
RunnerCancelFreesSlot(j) ==
    /\ j \in cancelling
    /\ cancelling' = cancelling \ {j}
    /\ aborted' = IF j \in controllers THEN aborted \cup {j} ELSE aborted
    /\ notifying' = notifying \cup {j}
    /\ inFlight' = inFlight \ {j}
    /\ UNCHANGED <<durableVars, phase, creating, claimVars, notified, run,
                   result, controllers, executed, shutVars, startVars, bounds>>

(* JobRunnerService.cancel after its getById, then the notification.       *)
RunnerCancel(j) ==
    /\ j \in cancelling
    /\ cancelling' = cancelling \ {j}
    /\ aborted' = IF j \in controllers THEN aborted \cup {j} ELSE aborted
    /\ notifying' = notifying \cup {j}
    /\ UNCHANGED <<queueVars, notified, run, result, controllers, executed,
                   shutVars, startVars, bounds>>

(* That getById throws: the request is answered 500, nothing is signalled  *)
(* and nobody is told.                                                     *)
RunnerCancelFails(j) ==
    /\ j \in cancelling
    /\ FileFails
    /\ cancelling' = cancelling \ {j}
    /\ skipped' = skipped \cup {j}
    /\ UNCHANGED <<queueVars, notified, runVars, notifying, shutVars, overlooked,
                   restarts>>

(* notifyJobComplete has tried every channel and stored the outcome.       *)
Notify(j) ==
    /\ j \in notifying
    /\ notifying' = notifying \ {j}
    /\ notified' = notified \cup {j}
    /\ UNCHANGED <<queueVars, runVars, apiVars, shutVars, startVars, bounds>>

(* persistOutcome could not read the job, or could not save the outcome,   *)
(* which it only logs.                                                     *)
NotifyFails(j) ==
    /\ j \in notifying
    /\ FileFails
    /\ notifying' = notifying \ {j}
    /\ skipped' = skipped \cup {j}
    /\ UNCHANGED <<queueVars, notified, runVars, apiVars, shutVars, overlooked,
                   restarts>>

-----------------------------------------------------------------------------
(* The life of the process.                                                *)

(* The instance lock is taken, and recoverInterruptedJobs lists the files. *)
Acquire ==
    /\ phase = "down"
    /\ phase' = "recovering"
    /\ instanceLock' = TRUE
    /\ overlooked' \in SUBSET With({"running"})
    /\ Listing(overlooked')
    /\ UNCHANGED <<durableVars, inFlight, creating, claimVars, notified,
                   runVars, apiVars, notifying, captured, skipped, restarts>>

(* A faulty variant: an interrupted job is given another try.              *)
RecoverByRequeue(j) ==
    /\ phase = "recovering"
    /\ status[j] = "running"
    /\ j \notin overlooked
    /\ Transition(j, {"running"}, "queued", NoAuthor)
    /\ UNCHANGED <<phase, inFlight, creating, claimVars, notified, runVars,
                   apiVars, notifying, shutVars, startVars, bounds>>

(* recoverInterruptedJobs fails what the previous process left running, as *)
(* far as its listing goes.                                                *)
Recover(j) ==
    /\ phase = "recovering"
    /\ status[j] = "running"
    /\ j \notin overlooked
    /\ Transition(j, {"running"}, "failed", "recovery")
    /\ UNCHANGED <<phase, inFlight, creating, claimVars, notified, runVars,
                   apiVars, notifying, shutVars, startVars, bounds>>

(* A faulty variant: results of the previous process are not announced.    *)
ServeWithoutReconcile ==
    /\ phase = "recovering"
    /\ With({"running"}) \subseteq overlooked
    /\ phase' = "serving"
    /\ UNCHANGED <<durableVars, inFlight, creating, claimVars, notified,
                   runVars, apiVars, notifying, shutVars, startVars, bounds>>

(* onModuleInit goes on: reconcileTerminalNotifications is launched for    *)
(* every terminal job of another listing that has no outcome, and the      *)
(* ticks begin. (Its loop stops at a shutdown; that those notifications    *)
(* may be dropped then is covered by the process ending before they        *)
(* happen.)                                                                *)
Serve ==
    /\ phase = "recovering"
    /\ With({"running"}) \subseteq overlooked
    /\ phase' = "serving"
    /\ skipped' \in SUBSET (With(Terminal) \ notified)
    /\ Listing(skipped')
    /\ notifying' = (With(Terminal) \ notified) \ skipped'
    /\ UNCHANGED <<durableVars, inFlight, creating, claimVars, notified,
                   runVars, apiVars, shutVars, overlooked, restarts>>

(* onModuleDestroy: raise shuttingDown, capture the runs, abort them.      *)
BeginShutdown ==
    /\ phase = "serving"
    /\ restarts < MaxRestarts
    /\ phase' = "draining"
    /\ captured' = inFlight
    /\ aborted' = aborted \cup controllers
    /\ UNCHANGED <<durableVars, inFlight, creating, claimVars, notified, run,
                   result, controllers, executed, apiVars, notifying,
                   instanceLock, startVars, bounds>>

CapturedSettled == claimStep = "idle" /\ captured \cap inFlight = {}

(* A faulty variant: the lock goes when the waits end, settled or not.     *)
DrainEndReleases ==
    /\ phase = "draining"
    /\ phase' = "closing"
    /\ aborted' = aborted \cup controllers
    /\ controllers' = {}
    /\ instanceLock' = FALSE
    /\ UNCHANGED <<durableVars, inFlight, creating, claimVars, notified, run,
                   result, executed, apiVars, notifying, captured, startVars,
                   bounds>>

(* The waits end: the captured work has settled, or the timeout has passed *)
(* and the lock is kept.                                                   *)
DrainEnd ==
    /\ phase = "draining"
    /\ phase' = "closing"
    /\ aborted' = aborted \cup controllers
    /\ controllers' = {}
    /\ instanceLock' = ~CapturedSettled
    /\ UNCHANGED <<durableVars, inFlight, creating, claimVars, notified, run,
                   result, executed, apiVars, notifying, captured, startVars,
                   bounds>>

(* releaseInstanceLockAfterShutdownWork.                                   *)
ReleaseLate ==
    /\ phase = "closing"
    /\ instanceLock
    /\ CapturedSettled
    /\ instanceLock' = FALSE
    /\ UNCHANGED <<queueVars, notified, runVars, apiVars, notifying, captured,
                   startVars, bounds>>

(* The process is gone, and everything but the files with it.              *)
ProcessEnds ==
    /\ restarts' = restarts + 1
    /\ phase' = "down"
    /\ inFlight' = {}
    /\ creating' = 0
    /\ ClaimIdle
    /\ run' = [j \in Job |-> "none"]
    /\ result' = [j \in Job |-> NoResult]
    /\ controllers' = {}
    /\ aborted' = {}
    /\ cancelling' = {}
    /\ notifying' = {}
    /\ instanceLock' = FALSE
    /\ captured' = {}
    /\ overlooked' = {}
    /\ skipped' = {}
    /\ UNCHANGED <<durableVars, notified, diskVars, executed>>

(* The HTTP server is closed and the process exits.                        *)
Exit ==
    /\ phase = "closing"
    /\ ProcessEnds

(* The process dies at any moment.                                         *)
Crash ==
    /\ phase # "down"
    /\ restarts < MaxRestarts
    /\ ProcessEnds

Next ==
    \/ Create
    \/ ClaimNext
    \/ \E j \in Job :
        \/ ExecuteJob(j)
        \/ CancelJob(j)
        \/ CompleteFromCallback(j)
        \/ RunnerCancel(j)
        \/ RunnerCancelFails(j)
        \/ Notify(j)
        \/ NotifyFails(j)
        \/ Recover(j)
    \/ Acquire
    \/ Serve
    \/ BeginShutdown
    \/ DrainEnd
    \/ ReleaseLate
    \/ Exit
    \/ Crash

Spec == Init /\ [][Next]_vars

(* The poll interval keeps claiming; every await of a run, of a request    *)
(* and of a notification returns; a child ends because of its own timeout  *)
(* and the SIGKILL behind it; systemd (Restart=always) starts the process  *)
(* again. Nothing makes a client submit, cancel or call back, and nothing  *)
(* makes the process stop.                                                 *)
Fairness ==
    /\ WF_vars(ClaimNext)
    /\ \A j \in Job :
        /\ WF_vars(ExecuteJob(j))
        /\ WF_vars(RunnerCancel(j))
        /\ WF_vars(Notify(j))
        /\ WF_vars(Recover(j))
    /\ WF_vars(Acquire)
    /\ WF_vars(Serve)
    /\ WF_vars(DrainEnd)
    /\ WF_vars(Exit)

LiveSpec == Spec /\ Fairness

-----------------------------------------------------------------------------
(* Safety.                                                                 *)

(* However many jobs were cancelled while their children still run, the    *)
(* bridge never has more than BRIDGE_MAX_CONCURRENCY children: a slot is   *)
(* given away when the run has ended, not when the job has.                *)
ChildrenWithinCap ==
    Cardinality({j \in Job : Alive(j)}) =< MaxConcurrency

(* While the process serves, every running job file has a run, or the      *)
(* claim that wrote it, behind it, or is one that recovery could not read: *)
(* no other job is left running.                                           *)
RunningIsOwned ==
    ApiOpen => \A j \in With({"running"}) \ overlooked :
                  \/ j \in inFlight
                  \/ claimStep \in {"written", "undo"} /\ chosen = j

(* The instance lock is held as long as any claim or run of this process   *)
(* may still write, also after shutdown waits have timed out               *)
(* (docs/runtime-smoke.md).                                                *)
LockCoversWork ==
    inFlight # {} \/ claimStep # "idle" => instanceLock

(* Once shutdown has begun, every child that runs, or that is about to be  *)
(* spawned, has been told to stop.                                         *)
ShutdownStopsChildren ==
    ShuttingDown => \A j \in Job :
                       run[j] \in {"starting", "executing"} => j \in aborted

(* Whatever dies, is retried or is requeued, no job is executed twice:     *)
(* only a job nothing was spawned for goes back to the queue.              *)
AtMostOneExecution ==
    [][\A j \in Job : Alive(j)' /\ ~Alive(j) => j \notin executed]_vars

(* Jobs enter execution in the order they were submitted: only a queued    *)
(* job whose file the claim's listing could not read is overtaken.         *)
ClaimedInOrder ==
    [][\A j \in inFlight' \ inFlight :
          \A k \in Job : k < j /\ status[k] = "queued" => k \in unread]_vars

(* The bridge implements the lifecycle it promises: one resolution per     *)
(* job, and the capacity and the concurrency limit of the durable files,   *)
(* exceeded by no more files than one listing left out.                    *)
Lifecycle == INSTANCE JobLifecycle
ImplementsLifecycle == Lifecycle!Spec

(* The child of a job cancelled through the API has been signalled once    *)
(* the request has been answered (README, Notes). Not so: see the run      *)
(* runner_cancel_orphan.                                                   *)
CancelStopsChild ==
    \A j \in Job :
        author[j] = "cancel" /\ j \notin cancelling /\ Alive(j)
            => j \in aborted

-----------------------------------------------------------------------------
(* Liveness.                                                               *)

(* The running jobs that nobody executes and that recovery has overlooked: *)
(* they stay until a client or the next start resolves them.               *)
Lost == overlooked \cap With({"running"})

(* Every job is eventually resolved, unless recovery overlooked it, or it  *)
(* overlooked so many that the claims count every slot as taken.           *)
JobsSettle ==
    \A j \in Job :
        status[j] \in Active
            ~> \/ status[j] \in Terminal
               \/ j \in Lost
               \/ Cardinality(Lost) >= MaxConcurrency

(* Every result is eventually announced, or its failed attempt recorded,   *)
(* unless a file that could not be read or written kept this process from  *)
(* it; the next start then tries again.                                    *)
ResultsAnnounced ==
    \A j \in Job :
        status[j] \in Terminal ~> j \in notified \/ j \in skipped
=============================================================================
