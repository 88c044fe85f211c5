----------------------------- MODULE TmuxRunner -----------------------------
(***************************************************************************)
(* One job in tmux mode: TmuxSessionRunnerService and the branches of      *)
(* JobRunnerService and JobsService that use it. The session is a process  *)
(* of the tmux server. It outlives the bridge, which knows of it by the    *)
(* session field of the job file, and its results by the exit-code file    *)
(* in the job's artifact directory.                                        *)
(*                                                                         *)
(* A step is what the code does between two awaits: a tmux command, a file *)
(* written or a file read. Claiming among several jobs is in JobQueue.     *)
(***************************************************************************)
EXTENDS Naturals

CONSTANTS
    MaxRestarts,   \* bound: how often the bridge may stop or die by itself
    MaxFaults      \* bound: how many tmux commands, reads or writes may fail

ASSUME BoundsAssumption == MaxRestarts \in Nat /\ MaxFaults \in Nat

VARIABLES
    status,        \* durable: the job file; "resolved" is any final status
    verdict,       \* durable: what resolved the job
    known,         \* durable: status of the job file's session field
    artifacts,     \* durable: the artifact directory exists
    exitCode,      \* durable: the exit-code file is in it
    alive,         \* the tmux server has the session
    started,       \* history: how many sessions were started
    expired,       \* jobTimeoutMs has passed since startedAt
    phase,         \* of the bridge process
    starter,       \* executeJob and startTmuxJob, between two awaits
    collector,     \* collectTmuxJob, of the reconciliation or of the recovery
    outcome,       \* what the collector is about to record
    request,       \* API handlers, between two awaits
    cleaner,       \* removeArtifacts, between two awaits
    overlooked,    \* recovery's listing has left the running job out
    restarts,      \* how often the process has ended
    faults         \* how many commands, reads and writes have failed

jobVars   == <<status, verdict, known>>
paneVars  == <<artifacts, exitCode, alive, started>>
collVars  == <<collector, outcome>>
bounds    == <<overlooked, restarts, faults>>
vars == <<status, verdict, known, artifacts, exitCode, alive, started, expired,
          phase, starter, collector, outcome, request, cleaner, overlooked,
          restarts, faults>>

(* What the steps of a start, of the collector, of a request, of the       *)
(* process, and of the session with the clock leave alone.                 *)
starterRest   == <<expired, phase, collVars, request, cleaner, overlooked,
                   restarts>>
collectorRest == <<expired, phase, starter, request, cleaner, overlooked,
                   restarts>>
requestRest   == <<expired, phase, starter, collVars, cleaner, overlooked,
                   restarts>>
processRest   == <<jobVars, paneVars, expired, starter, request, cleaner,
                   bounds>>
bridgeVars    == <<phase, starter, collVars, request, cleaner>>

NoVerdict == "none"
FromApi   == {"cancel", "callback"}
Verdict   == {"exit", "timeout", "vanished", "interrupted", "start_failed"}
                 \cup FromApi

(* Up to creating no session has been started yet.                         *)
Early       == {"lookup", "found", "requeue", "preparing", "creating"}
StarterStep == Early \cup {"none", "created", "persisting", "marking"}
CollectStep == {"idle", "reading", "killing", "probing", "waiting", "writing",
                "recording", "undecided", "left"}

(* A cancellation ends the session first when it sees one, and otherwise   *)
(* after the job is resolved, as a callback does.                          *)
Request     == {"kill_first", "resolve_first", "callback"}
ResolvedBy(q) == IF q = "callback" THEN "callback" ELSE "cancel"
RequestStep == {"idle", "asking", "killing", "writing", "marking", "resolving"}

TypeOK ==
    /\ status \in {"queued", "running", "resolved", "deleted"}
    /\ verdict \in Verdict \cup {NoVerdict}
    /\ known \in {"none", "running", "cancelled", "ended"}
    /\ artifacts \in BOOLEAN
    /\ exitCode \in BOOLEAN
    /\ alive \in BOOLEAN
    /\ started \in Nat
    /\ expired \in BOOLEAN
    /\ phase \in {"down", "recovering", "serving", "stopping"}
    /\ starter \in StarterStep
    /\ collector \in CollectStep
    /\ outcome \in {"exit", "timeout", "vanished", NoVerdict}
    /\ request \in [Request -> RequestStep]
    /\ cleaner \in {"idle", "probing", "removing"}
    /\ overlooked \in BOOLEAN
    /\ restarts \in Nat
    /\ faults \in Nat

Init ==
    /\ status = "queued" /\ verdict = NoVerdict /\ known = "none"
    /\ artifacts = FALSE /\ exitCode = FALSE /\ alive = FALSE /\ started = 0
    /\ expired = FALSE
    /\ phase = "down"
    /\ starter = "none"
    /\ collector = "idle" /\ outcome = NoVerdict
    /\ request = [q \in Request |-> "idle"]
    /\ cleaner = "idle"
    /\ overlooked = FALSE
    /\ restarts = 0 /\ faults = 0

-----------------------------------------------------------------------------
(* repository.transition to a final status: nothing but the first counts.  *)
Resolve(from, v) ==
    IF status \in from
    THEN status' = "resolved" /\ verdict' = v
    ELSE UNCHANGED <<status, verdict>>

Fault == faults < MaxFaults /\ faults' = faults + 1

(* The process is gone. The session may go with it (systemd ends whatever  *)
(* is in the bridge's control group) or not: see SessionGone.              *)
ProcessEnds ==
    /\ restarts' = restarts + 1
    /\ phase' = "down"
    /\ starter' = "none"
    /\ collector' = "idle" /\ outcome' = NoVerdict
    /\ request' = [q \in Request |-> "idle"]
    /\ cleaner' = "idle"
    /\ overlooked' = FALSE
    /\ UNCHANGED <<jobVars, paneVars, expired>>

-----------------------------------------------------------------------------
(* executeJob and startTmuxJob.                                            *)

Claim ==
    /\ phase = "serving" /\ starter = "none" /\ status = "queued"
    /\ status' = "running"
    /\ expired' = FALSE
    /\ starter' = "lookup"
    /\ UNCHANGED <<verdict, known, paneVars, phase, collVars, request, cleaner,
                   bounds>>

StarterOnly == UNCHANGED <<jobVars, paneVars, faults, starterRest>>

Lookup ==
    /\ starter = "lookup"
    /\ starter' = IF status = "running" THEN "found" ELSE "none"
    /\ StarterOnly

Begin ==
    /\ starter = "found"
    /\ starter' = IF phase = "stopping" THEN "requeue" ELSE "preparing"
    /\ StarterOnly

Requeue ==
    /\ starter = "requeue"
    /\ starter' = "none"
    /\ status' = IF status = "running" THEN "queued" ELSE status
    /\ UNCHANGED <<verdict, known, paneVars, faults, starterRest>>

(* The directory with the files of the session; old results are removed.   *)
Prepare ==
    /\ starter = "preparing"
    /\ starter' = "creating"
    /\ artifacts' = TRUE
    /\ exitCode' = FALSE
    /\ UNCHANGED <<jobVars, alive, started, faults, starterRest>>

(* The cwd is outside the allowed prefixes: looked at with the directory   *)
(* in place.                                                               *)
RefuseCwd ==
    /\ starter = "creating"
    /\ starter' = "marking"
    /\ StarterOnly

NewSession ==
    /\ starter = "creating"
    /\ starter' = "created"
    /\ alive' = TRUE
    /\ started' = started + 1
    /\ UNCHANGED <<jobVars, artifacts, exitCode, faults, starterRest>>

(* session.json says running, then start() returns.                        *)
WriteSession ==
    /\ starter = "created"
    /\ starter' = "persisting"
    /\ artifacts' = TRUE
    /\ UNCHANGED <<jobVars, exitCode, alive, started, faults, starterRest>>

(* Only now the job file names the session, if the job still runs.         *)
Persist ==
    /\ starter = "persisting"
    /\ starter' = "none"
    /\ known' = IF status = "running" THEN "running" ELSE known
    /\ UNCHANGED <<status, verdict, paneVars, faults, starterRest>>

StartFails ==
    /\ starter \in {"preparing", "creating", "created", "persisting"}
    /\ Fault
    /\ starter' = "marking"
    /\ UNCHANGED <<jobVars, paneVars, starterRest>>

(* A faulty variant: the failure of a start is only logged.                *)
MarkNothing ==
    /\ starter = "marking"
    /\ starter' = "none"
    /\ StarterOnly

MarkFailed ==
    /\ starter = "marking"
    /\ starter' = "none"
    /\ Resolve({"running"}, "start_failed")
    /\ UNCHANGED <<known, paneVars, faults, starterRest>>

(* Nothing catches the rejection of runOnce.                               *)
MarkFails == starter = "marking" /\ Fault /\ ProcessEnds

Starter ==
    \/ Lookup \/ Begin \/ Requeue \/ Prepare \/ RefuseCwd \/ NewSession
    \/ WriteSession \/ Persist \/ StartFails \/ MarkFailed \/ MarkFails

-----------------------------------------------------------------------------
(* The session: the capture wrapper in its pane.                           *)

WrapperWritesExitCode ==
    /\ alive /\ artifacts /\ ~exitCode
    /\ exitCode' = TRUE
    /\ UNCHANGED <<jobVars, artifacts, alive, started, expired, bounds,
                   bridgeVars>>

(* After its exit code; or without one, when it fails or is killed.        *)
SessionGone ==
    /\ alive
    /\ alive' = FALSE
    /\ UNCHANGED <<jobVars, artifacts, exitCode, started, expired, bounds,
                   bridgeVars>>

Expire ==
    /\ status = "running" /\ ~expired
    /\ expired' = TRUE
    /\ UNCHANGED <<jobVars, paneVars, bounds, bridgeVars>>

-----------------------------------------------------------------------------
(* collect: one reading at a time of a job listed as running.              *)

CollectorOnly == UNCHANGED <<phase, processRest>>

CollectStart ==
    /\ phase \in {"recovering", "serving"}
    /\ collector = "idle" /\ status = "running" /\ known # "none"
    /\ collector' = "reading"
    /\ UNCHANGED outcome
    /\ CollectorOnly

ToRecord(o) == collector' = "writing" /\ outcome' = o

ReadExitCode ==
    /\ collector = "reading"
    /\ IF exitCode THEN ToRecord("exit")
       ELSE /\ collector' = IF expired THEN "killing" ELSE "probing"
            /\ UNCHANGED outcome
    /\ CollectorOnly

(* A faulty variant: the session of a timed out job is left alone.         *)
RecordExpired ==
    /\ collector = "killing"
    /\ ToRecord("timeout")
    /\ CollectorOnly

(* kill-session of a timed out job; its own result is not looked at.       *)
KillExpired ==
    /\ collector = "killing"
    /\ ToRecord("timeout")
    /\ \/ alive' = FALSE /\ UNCHANGED faults
       \/ Fault /\ UNCHANGED alive
    /\ UNCHANGED <<jobVars, artifacts, exitCode, started, collectorRest>>

(* While the session lives there is nothing to collect.                    *)
NothingYet == IF phase = "recovering" THEN "undecided" ELSE "idle"

(* has-session: a command that fails counts as a missing session here.     *)
Probe ==
    /\ collector = "probing"
    /\ \/ /\ collector' = IF alive THEN NothingYet ELSE "waiting"
          /\ UNCHANGED faults
       \/ Fault /\ collector' = "waiting"
    /\ UNCHANGED <<jobVars, paneVars, outcome, collectorRest>>

(* A faulty variant: the exit code is not looked for again.                *)
GiveUp ==
    /\ collector = "waiting"
    /\ ToRecord("vanished")
    /\ CollectorOnly

(* waitForExitCode: the file may have come after the first reading.        *)
AwaitExitCode ==
    /\ collector = "waiting"
    /\ IF exitCode THEN collector' = "reading" /\ UNCHANGED outcome
                   ELSE ToRecord("vanished")
    /\ CollectorOnly

WriteCollected ==
    /\ collector = "writing"
    /\ collector' = "recording"
    /\ artifacts' = TRUE
    /\ UNCHANGED <<jobVars, exitCode, alive, started, outcome, faults,
                   collectorRest>>

Record ==
    /\ collector = "recording"
    /\ Resolve({"running"}, outcome)
    /\ known' = IF status = "running" THEN "ended" ELSE known
    /\ collector' = "idle" /\ outcome' = NoVerdict
    /\ UNCHANGED <<paneVars, faults, collectorRest>>

(* A write fails: runOnce swallows the error during a shutdown only, and   *)
(* otherwise, as in the recovery, it ends the process.                     *)
CollectFails ==
    /\ collector \in {"writing", "recording"}
    /\ Fault
    /\ IF phase = "stopping"
       THEN /\ collector' = "idle" /\ outcome' = NoVerdict
            /\ UNCHANGED <<jobVars, paneVars, collectorRest>>
       ELSE ProcessEnds

Collector ==
    \/ CollectStart \/ ReadExitCode \/ KillExpired \/ Probe \/ AwaitExitCode
    \/ WriteCollected \/ Record \/ CollectFails

-----------------------------------------------------------------------------
(* The cancel and callback routes. runner.cancel is asking to marking.     *)

ApiOpen == phase \in {"serving", "stopping"}
Goto(q, step) == request' = [request EXCEPT ![q] = step]
RequestOnly == UNCHANGED <<jobVars, paneVars, faults, requestRest>>

(* cancelJob reads the job.                                                *)
CancelJob ==
    /\ ApiOpen /\ status \in {"queued", "running"}
    /\ LET ends == status = "running" /\ known # "none"
           q    == IF ends THEN "kill_first" ELSE "resolve_first"
       IN /\ request[q] = "idle"
          /\ Goto(q, IF ends THEN "asking" ELSE "resolving")
    /\ RequestOnly

CompleteFromCallback ==
    /\ ApiOpen /\ status \in {"queued", "running"}
    /\ request["callback"] = "idle"
    /\ Goto("callback", "resolving")
    /\ RequestOnly

(* What loses the race for the job answers 409. A cancellation that killed *)
(* the session is done; otherwise runner.cancel is next. (The session it   *)
(* carries over is the one the job file has.)                              *)
ResolveJob(q) ==
    /\ request[q] = "resolving"
    /\ Resolve({"queued", "running"}, ResolvedBy(q))
    /\ Goto(q, IF status \in {"queued", "running"} /\ q # "kill_first"
               THEN "asking" ELSE "idle")
    /\ UNCHANGED <<known, paneVars, faults, requestRest>>

(* A faulty variant: runner.cancel leaves sessions of finished jobs alone. *)
AskRunningOnly(q) ==
    /\ request[q] = "asking"
    /\ Goto(q, IF status = "running" /\ known # "none"
               THEN "killing" ELSE "idle")
    /\ RequestOnly

(* runner.cancel reads the job again. Without a session there is nothing   *)
(* it could end: tmux runs have no abort controller.                       *)
Ask(q) ==
    /\ request[q] = "asking"
    /\ Goto(q, IF status # "deleted" /\ known # "none"
               THEN "killing" ELSE "idle")
    /\ RequestOnly

(* kill-session fails when the session is gone, too.                       *)
Kill(q) ==
    /\ request[q] = "killing"
    /\ \/ /\ alive' = FALSE
          /\ Goto(q, IF alive THEN "writing" ELSE "idle")
          /\ UNCHANGED faults
       \/ Fault /\ Goto(q, "idle") /\ UNCHANGED alive
    /\ UNCHANGED <<jobVars, artifacts, exitCode, started, requestRest>>

WriteCancelled(q) ==
    /\ request[q] = "writing"
    /\ Goto(q, "marking")
    /\ artifacts' = TRUE
    /\ UNCHANGED <<jobVars, exitCode, alive, started, faults, requestRest>>

MarkCancelled(q) ==
    /\ request[q] = "marking"
    /\ known' = IF status = "running" THEN "cancelled" ELSE known
    /\ Goto(q, IF q = "kill_first" THEN "resolving" ELSE "idle")
    /\ UNCHANGED <<status, verdict, paneVars, faults, requestRest>>

(* A write fails: the request ends with an error.                          *)
RequestFails(q) ==
    /\ request[q] \in {"writing", "marking", "resolving"}
    /\ Fault
    /\ Goto(q, "idle")
    /\ UNCHANGED <<jobVars, paneVars, requestRest>>

Handle(q) == ResolveJob(q) \/ Ask(q) \/ Kill(q) \/ WriteCancelled(q)
                 \/ MarkCancelled(q) \/ RequestFails(q)

-----------------------------------------------------------------------------
(* Retention.                                                              *)

CleanerOnly == UNCHANGED <<verdict, known, alive, started, expired, phase,
                           starter, collVars, request, overlooked, restarts>>

(* cleanupTerminalJobs deletes the file; a job that names a session may    *)
(* have artifacts. (It also runs once between Recover and Serve, when      *)
(* nothing else does.)                                                     *)
DeleteJob ==
    /\ phase = "serving" /\ status = "resolved" /\ cleaner = "idle"
    /\ status' = "deleted"
    /\ cleaner' = IF known # "none" THEN "probing" ELSE "idle"
    /\ UNCHANGED <<artifacts, exitCode, faults>>
    /\ CleanerOnly

(* cleanupStaleOrphans. Nothing has been written to the directory for      *)
(* retentionDays, so no await of a start, a collection or a request that   *)
(* began before that is still pending. (A directory without a readable     *)
(* session.json is kept by the code; no session was started from it.)      *)
SweepOrphan ==
    /\ phase = "serving" /\ status = "deleted" /\ cleaner = "idle"
    /\ artifacts
    /\ starter = "none" /\ collector = "idle"
    /\ \A q \in Request : request[q] = "idle"
    /\ cleaner' = "probing"
    /\ UNCHANGED <<status, artifacts, exitCode, faults>>
    /\ CleanerOnly

(* A faulty variant: any failure of has-session is a missing session.      *)
ProbeTrusting ==
    /\ cleaner = "probing"
    /\ \/ /\ cleaner' = IF artifacts /\ ~alive THEN "removing" ELSE "idle"
          /\ UNCHANGED faults
       \/ Fault /\ cleaner' = "removing"
    /\ UNCHANGED <<status, artifacts, exitCode>>
    /\ CleanerOnly

(* Only a has-session that names the session missing lets it go on.        *)
ProbeArtifacts ==
    /\ cleaner = "probing"
    /\ \/ /\ cleaner' = IF artifacts /\ ~alive THEN "removing" ELSE "idle"
          /\ UNCHANGED faults
       \/ Fault /\ cleaner' = "idle"
    /\ UNCHANGED <<status, artifacts, exitCode>>
    /\ CleanerOnly

RemoveArtifacts ==
    /\ cleaner = "removing"
    /\ cleaner' = "idle"
    /\ artifacts' = FALSE
    /\ exitCode' = FALSE
    /\ UNCHANGED <<status, faults>>
    /\ CleanerOnly

Retention == DeleteJob \/ SweepOrphan \/ ProbeArtifacts \/ RemoveArtifacts

-----------------------------------------------------------------------------
(* The life of the process.                                                *)

Boot ==
    /\ phase = "down"
    /\ phase' = "recovering"
    /\ UNCHANGED <<collVars, processRest>>

(* A faulty variant: an interrupted job is started again.                  *)
RecoverByRequeue ==
    /\ phase = "recovering" /\ status = "running"
    /\ \/ collector = "idle" /\ known = "none"
       \/ collector = "undecided"
    /\ status' = "queued"
    /\ collector' = "idle"
    /\ UNCHANGED <<verdict, known, paneVars, outcome, faults, collectorRest>>

(* recoverInterruptedJobs: a job without a result is left to the           *)
(* reconciliation when its session is known to run, and failed otherwise.  *)
Recover ==
    /\ phase = "recovering" /\ status = "running"
    /\ \/ collector = "idle" /\ known = "none"
       \/ collector = "undecided"
    /\ IF known = "running"
       THEN collector' = "left" /\ UNCHANGED <<status, verdict>>
       ELSE collector' = "idle" /\ Resolve({"running"}, "interrupted")
    /\ UNCHANGED <<known, paneVars, outcome, faults, collectorRest>>

Serve ==
    /\ phase = "recovering"
    /\ status # "running" \/ collector = "left"
    /\ phase' = "serving"
    /\ collector' = "idle"
    /\ UNCHANGED <<outcome, processRest>>

(* The job file could not be read when recovery listed the running jobs:   *)
(* the bridge serves, and the job is still running.                        *)
ServeUnread ==
    /\ phase = "recovering" /\ status = "running" /\ collector = "idle"
    /\ Fault
    /\ phase' = "serving"
    /\ overlooked' = TRUE
    /\ UNCHANGED <<jobVars, paneVars, collVars, expired, starter, request,
                   cleaner, restarts>>

BeginShutdown ==
    /\ phase = "serving" /\ restarts < MaxRestarts
    /\ phase' = "stopping"
    /\ UNCHANGED <<collVars, processRest>>

Exit == phase = "stopping" /\ ProcessEnds /\ UNCHANGED faults

Crash ==
    /\ phase \in {"recovering", "serving"} /\ restarts < MaxRestarts
    /\ ProcessEnds
    /\ UNCHANGED faults

Process == Boot \/ Recover \/ Serve \/ ServeUnread \/ BeginShutdown \/ Exit \/ Crash

Next ==
    \/ Claim \/ Starter
    \/ WrapperWritesExitCode \/ SessionGone \/ Expire
    \/ Collector
    \/ CancelJob \/ CompleteFromCallback
    \/ \E q \in Request : Handle(q)
    \/ Retention
    \/ Process

Spec == Init /\ [][Next]_vars

(* The poll interval keeps claiming and collecting, every await returns,   *)
(* time passes, and systemd starts the process again. Nothing makes a      *)
(* session end, a client call or the process stop.                         *)
Fairness ==
    /\ WF_vars(Claim)
    /\ WF_vars(Starter)
    /\ WF_vars(Collector)
    /\ WF_vars(Expire)
    /\ WF_vars(Boot)
    /\ WF_vars(Recover)
    /\ WF_vars(Serve)
    /\ WF_vars(Exit)

LiveSpec == Spec /\ Fairness

-----------------------------------------------------------------------------
(* Properties.                                                             *)

(* A prompt is given to tmux once: neither a shutdown between claim and    *)
(* start, nor a crash at any later moment, leads to a second session.      *)
SessionStartedOnce == started =< 1

(* A job is failed for a session that vanished, or that ran too long, only *)
(* when that session is over. (A tmux command that fails may break this:   *)
(* collect takes every failing has-session for a missing session.)         *)
FailedSessionIsOver ==
    verdict \in {"vanished", "timeout"} /\ faults = 0 => ~alive

(* A session that has left an exit code is judged by it: the job is not    *)
(* failed as vanished because the code came after the first reading.       *)
ExitCodeCounts == verdict = "vanished" /\ faults = 0 => ~exitCode

(* A restart does not interrupt a job whose session the job file names.    *)
KnownSessionSurvivesRestart == verdict = "interrupted" => known = "none"

(* Retention never takes the files away from under a session that lives.   *)
ArtifactsOutliveSession == alive => artifacts

(* Once the requests are answered, no session that the file of a cancelled *)
(* or called back job names is left running, however the request raced     *)
(* with the start and the collection. (A crash or a failing tmux command   *)
(* in between, and a session the job file does not name yet, are the       *)
(* exceptions.)                                                            *)
ResolvedSessionIsEnded ==
    /\ status = "resolved" /\ verdict \in FromApi
    /\ known # "none"
    /\ \A q \in Request : request[q] = "idle"
    /\ restarts = 0 /\ faults = 0
    => ~alive

(* Whatever becomes of the session, the job is resolved. (A job that names *)
(* no session yet, and that recovery could not read, is left to a client   *)
(* or to the next start.)                                                  *)
JobIsResolved ==
    status \in {"queued", "running"}
        ~> status \in {"resolved", "deleted"} \/ (overlooked /\ known = "none")
=============================================================================
