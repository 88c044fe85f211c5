# Verification of omx-bridge

TLA+ specifications of omx-bridge, TLC configurations that check them on small
instances, and TLAPS proofs of the theorems that hold for every instance.
Paths below are relative to the repository root. Definitions follow the code;
`PROJECT.json` names, for each of them, the lines it stands for.

## The system

omx-bridge accepts jobs over HTTP, keeps each job as a JSON file, executes it
by spawning `omx exec` (or a tmux session), and announces the result. A second
program, omx-dispatch, is an MCP server that submits jobs, receives the
announcements on a webhook and hands them to a model session.

| Component | State it keeps | Operations | Talks to |
| --- | --- | --- | --- |
| Job queue, `src/jobs/job-queue.repository.ts` | one file per job; a lock per job id in memory | save, transition (compare status, then write), getById, listAll, retention cleanup, quarantine | the file system |
| Intake and API, `src/jobs/jobs.service.ts` | createMutex, queueSequence | createJob, cancelJob, completeJobFromCallback, triggerNotifyRetry, reads | queue, runner, notification |
| Runner, `src/jobs/job-runner.service.ts` | claimMutex, inFlight, inFlightRuns, abortControllers, completionNotifications, shuttingDown, timers | onModuleInit (recover, cleanup, reconcile), tick/runOnce/claimNext/executeJob, cancel, onModuleDestroy | queue, child execution, tmux, notification, instance lock |
| Child execution, `src/jobs/omx-exec.service.ts` | per run: settled, cancelled, timedOut, process group, timers, two output buffers | execute with timeout, abort, SIGTERM and SIGKILL | the child process |
| Tmux sessions, `src/jobs/tmux-session-runner.service.ts`, `tmux-capture-wrapper.ts` | session directories with marker, exit and output files | start, collect, cancel, cleanup | tmux, the file system |
| Notification, `src/jobs/job-notify.service.ts` | persist locks; notifyOutcome and notifyHistory in the job file | notifyJobComplete over the configured channels, persistOutcome | webhook, OpenClaw, Telegram, queue |
| Instance lock, `src/jobs/bridge-instance-lock.service.ts` | the lock file, its handle | acquire, release | the file system, pids |
| Dispatch store, `omx-dispatch/notification-store.ts` | a JSONL file shared by processes, a lock file, a queue in memory | enqueue, drainAll, drainForJob, getStats, init | the file system |
| Dispatch operations, `omx-dispatch/job-operations.ts` | none beyond a call | runAndWait, waitForJobCompletion | bridge over HTTP, dispatch store |
| Dispatch webhook, `omx-dispatch/webhook-server.ts`, `webhook-codec.ts` | none | one request: check the signature, normalize the job, enqueue | dispatch store |
| Callers' tools, `omx-dispatch/tool-handlers.ts`, `omx-bridge-plugin/index.ts` | none | turn a model's arguments into requests | bridge over HTTP |
| Guards and DTOs, `src/jobs/*.guard.ts`, `src/jobs/dto/` | none | admit and validate requests | intake |
| Configuration, operator scripts | none | parsing, smoke tests | |

What makes the system hard: a Node process interleaves its handlers at every
`await`; whatever was read before one may be stale after it. Job files outlive
the process, which may die anywhere and is started again by systemd
(`omx-bridge.service`). Cancellation, callbacks, execution and recovery compete
for one result. Shutdown has to stop work that is only just starting. Several
processes share the lock file and the dispatch store.

What each part has to get right:

- queue and lifecycle: one result per job, for good; limits on active and
  running jobs;
- runner: no more children than slots, jobs in order, nothing executed twice,
  nothing left running without a run, everything resolved in the end;
- shutdown: no child escapes, and the lock is kept while work may still write;
- requests: one job per requestId, now and across upgrades, and never a job that is
  other work; a repeated callback changes nothing;
- notification: every end is announced, and no record is lost when several
  announcements meet; retention keeps the newest jobs and no more than it may, though
  a save under way brings a file back;
- the formats of a job: what one side accepts, all others can read;
- instance lock: one process per directory, and no stale file stops the bridge;
- child execution: settles once, with the right precedence and the right excerpt
  of the output, and ends;
- tmux: one session per job, at any restart; its exit code counts; no session a
  cancelled job names is left running; no files are taken from a living session;
- dispatch store: nothing in it lost or back, and no lock that stays;
- dispatch operations: a wait ends in time and tells the truth.

## Modules

| Module | Models |
| --- | --- |
| `JobTypes` | statuses, authors of a result, and the limits with their assumptions |
| `JobLifecycle` | the abstract specification: submit, claim, requeue, resolve once, within both limits as far as a look at the files tells |
| `JobQueue` | job files, submission under createMutex, claiming under claimMutex |
| `JobRunner` | the whole bridge process for exec jobs: extends JobQueue with execution, API, notification, shutdown, crash, recovery |
| `JobRunnerProofs` | theorems about JobRunner, that it implements JobLifecycle, and that it uses executions as ExecContract says |
| `InstanceLock` | competing bridge processes on one lock file |
| `InstanceLockProofs` | theorems about InstanceLock |
| `OmxExec` | one execution: the event handlers of `OmxExecService.execute` against a child that forks |
| `ExecContract` | what a call of `execute` promises to JobRunner: spawned or not, signalled or not, one of three statuses |
| `OmxExecProofs` | theorems about OmxExec and OmxOutput, and that an execution keeps ExecContract |
| `TmuxRunner` | one tmux job: start, collection, cancel, callback, retention, crash and recovery around a session that outlives the bridge |
| `TmuxRunnerProofs` | theorems about TmuxRunner, and that a tmux job follows JobLifecycle |
| `NotificationQueue` | the abstract queue of completion notifications |
| `NotificationStore` | omx-dispatch processes that share the store file under a lock file; implements NotificationQueue |
| `NotificationProofs` | theorems about NotificationStore, and that it implements NotificationQueue |
| `OmxOutput` | OmxExec with the data events of the child: the captured output and its excerpt |
| `JobNotify` | job files between requests, announcements, retention and restarts |
| `JobNotifyProofs` | theorems about JobNotify |
| `DispatchWait` | calls that wait for a job: the loop of drain, request and sleep, over NotificationQueue |
| `DispatchWaitProofs` | theorems about DispatchWait |
| `JobContract`, `MCJobContract` | the fields of a job on their way through tools, DTOs, files, callbacks and notifications; four callers |
| `JobContractProofs` | theorems about JobContract |

How they compose: JobRunner extends JobQueue and implements JobLifecycle.
OmxOutput extends OmxExec. ExecContract stands between OmxExec, which implements it, and
JobRunner, which plays it for each job, so that the theorems about the runner hold of the
executions of OmxExec. NotificationStore implements NotificationQueue, and
DispatchWait takes its steps from NotificationQueue, so that what it relies
on is what the store was shown to do. JobRunner, TmuxRunner, JobNotify and
JobContract look at the same handlers from four sides (scheduling, sessions,
announcements, data), each with the whole control of its side.

### JobQueue and JobRunner against the code

An action is the code between two awaits. `Transition` is
`repository.transition`: it holds the job's lock across read, comparison and
rename, so it is one step; every other read and the write that uses it are two.

- `status`, `author`, `notified`: fields of the job file. `author` stands for
  everything in a terminal result that tells who wrote it.
- `creating`: a createJob between `countActive` and `save`. `CreateAdmit` is
  the code up to the capacity check, `CreateSave` the rest. A job is named by its place in the
  queue order, so `CreateSave` takes the lowest free one.
- `Listing(S)`: one call of listAll, which logs and skips each file whose readFile fails
  (job-queue.repository.ts:116-131), here those of `S`. countActive, claimNext,
  recoverInterruptedJobs and reconcileTerminalNotifications all go through it.
- `claimStep`, `seen`, `unread`, `chosen`: the one holder of claimMutex. `ClaimList` reads the
  snapshot, which lacks what could not be read, `ClaimChoose` or `ClaimNothing` is the synchronous code behind
  `listAll`, `ClaimWrite` the transition to running, then `ClaimAdmit`, or
  `ClaimLate` and `ClaimUndo` when shutdown began meanwhile.
- `run`: where executeJob is. `Lookup` (getById), `Start` (the code that trusts
  what was read: shutdown check, AbortController), `Requeue`, `Spawn`,
  `RefuseCwd`, `ChildGone`, `Record`, `RecordFails`, `MarkFailed`; `EndRun` is both
  finally blocks.
- `controllers`, `aborted`: abortControllers and the signals that have fired.
- `cancelling`: a handler that has resolved the job and waits for
  `runner.cancel` to read it. `RunnerCancel` is what follows, with the
  notification; `RunnerCancelFails` is a getById that throws (line 253), after which
  nothing is signalled and nothing announced.
- `notifying`: announcements on their way. `Notify` ends one with a stored outcome,
  `NotifyFails` with none: persistOutcome rejects when it cannot read the job, and
  only logs when it cannot save it (job-notify.service.ts:72, 83-85).
- `overlooked`: the running files that recovery's listing left out. They stay
  running, and nobody executes them, until a client resolves them or the next start
  does. claimNext counts them as running elsewhere, so each blocks a slot.
- `skipped`: ends this process will not announce any more, as a read or save failed.
- `phase`: `Acquire`, `Recover`, `Serve` are onModuleInit; `BeginShutdown`, `DrainEnd`,
  `ReleaseLate` are onModuleDestroy; `Exit` and `Crash` end the process, and with it
  everything but the files and the history.
- `executed` and `lapse` are history variables: the jobs a child was ever spawned for,
  and the most files that one listing has left out.

Abstractions, and why they are safe:

- Requests that are refused (404, 409, 429, a replayed callback) change nothing
  and have no action.
- A cancellation reads the job before its transition; a stale read there can
  only lead to a refusal, so the pair is the transition alone.
- listAll reads the files one by one. The model reads them at once, all but
  those that fail. Only a claim makes a job running and claims are serialized, so the
  different moments of the reads hide no running job; a job that leaves the
  queue meanwhile is caught by the transition. A submission that completes
  during the listing may be missed, and waits for the next tick.
- A notification is one step, or fails as one. Its channels, and its own races with
  retention, are in JobNotify.
- The processes run under the systemd unit, whose KillMode takes the children
  down with the bridge. Without it a crash leaves children behind, as the
  README says.
- Exec jobs only; the tmux branches of the same handlers are in TmuxRunner.
- `MaxFaults` bounds how often a file cannot be read or written, together: in a
  listing (each file left out counts), in createJob's save (`CreateFails`), in
  runner.cancel, in persistOutcome, and when a result is written (`RecordFails`).
  An error of a request before it has changed anything is a refusal. Those that nothing
  catches, in a claim, a requeue, the recovery's transitions or the second attempt to write
  a result, end the process: Crash.
- A stop signal before the service listens is a Crash: nothing is in flight
  yet.
- One bridge process at a time, as InstanceLock provides when starts do not
  overlap.

### TmuxRunner against the code

An action is the code up to the next tmux command, file operation or await.

- `status`, `verdict`: the job file; all final statuses are `resolved`, and `verdict`
  tells what resolved it. `known` is the status of its session field, `none` while
  the file names no session.
- `artifacts`, `exitCode`: the job's directory and the exit-code file in it.
  `alive` is the session as tmux knows it, `started` counts new-session.
- `starter`: executeJob and startTmuxJob. `Lookup`, `Begin`, `Requeue` are as in
  JobRunner; `Prepare` makes the directory and removes old results, `RefuseCwd` or
  `NewSession` follows, then `WriteSession` (session.json) and `Persist` (the job
  file). Between NewSession and Persist nothing else can find the session.
  `StartFails` is an error anywhere on the way, `MarkFailed` the catch block.
- `collector`, `outcome`: collectTmuxJob, of the reconciliation or of the recovery.
  `ReadExitCode`, `KillExpired`, `Probe` (has-session), `AwaitExitCode`
  (waitForExitCode, then collect from its beginning), `WriteCollected` and `Record`.
- `request`: cancelJob, which kills first when it sees a running job with a
  session (`kill_first`) and resolves first otherwise, and
  completeJobFromCallback. `Ask` to `MarkCancelled` are runner.cancel. There is
  at most one request of each of the three kinds at a time.
- `cleaner`: `DeleteJob` and `SweepOrphan` (cleanupStaleOrphans) lead to
  `ProbeArtifacts` and `RemoveArtifacts`, both of removeArtifacts.
- `phase`: `Boot`, `Recover`, `Serve` are the recovery; `Exit` and `Crash` end the
  bridge, whose session goes on or goes with it (`SessionGone`): the unit's
  KillMode reaches a tmux server that was started from the bridge, and no other.
- `WrapperWritesExitCode` and `SessionGone` are the wrapper and its session: the
  exit code comes or does not come, and a session may go on for ever.
- `Fault` is a tmux command, a read or a write that fails. Where nothing catches it
  (`MarkFails`, `CollectFails`) it ends the process. `ServeUnread` is a recovery whose
  listing left the running job out (`overlooked`): if its file names a session, the
  reconciliation of the interval finds it later; otherwise nothing does before the next
  start. A listing of the interval that misses the job is one that does not collect it.

Abstractions: one job, so the slots it shares with others are not here; the
retention period is nondeterministic, but the sweep waits until no step that
began before it is pending, as retentionDays lie between; what the wrapper
captures, and the result made from it, is left out.

Three things the code does are in the model, and the properties exclude them by
name: a session the job file does not name yet is left running when the job is
cancelled or the process dies at that moment; a failing has-session counts as a missing
session in collect; and a failing kill-session leaves the session running.

### InstanceLock against the code

`OpenFresh` is the first `open(.., 'wx')`, `Tighten` the permission check that
throws on a missing file, `ReadExisting` the awaited reading of the file,
`MisreadExisting` the same when it fails, which counts as a stale file (the catch of
line 90), `TestPid` the probe of the pid that was read (`pid`), in a later
continuation: that process may have ended by then and the path may have a new
file. `RemoveStale` is the unlink by path, `Reopen` the second open,
`Write` the payload, `ReleaseRead` and `UnlinkOwnLock` the release. The payload is
written through the handle, so it never reaches a file that has taken the same path:
`file` therefore names the process that created what is at the path, and its
content follows from that process's step. `DeadPid` and `DeadEmpty` are what a
dead process leaves; `Ends` turns a pid that others have read into a dead one. `Exit` is
the end of a process that has released. A dead process has no pid: reuse of pids is not modelled (see
hazards). Each start is a new process, so one `Process` may start again;
`refused` is a process that an error of acquire has ended.

### OmxExec against the code

A handler runs to its end without an await, so each is one action, with every
helper it calls: `Finish` (finish and clearProcessOwnership), `Terminate`,
`FinishTerminated`, `GiveUpGroup`. `armed` holds the timers that are set and
the abort listener, `owned` stands for ownedProcessGroupPid, `result` for what
the promise was settled with. signalOwnedProcess has three outcomes,
`Delivery`: sent, gone (ESRCH) or refused (any other error). The poll every
10 ms is `OnPoll`, which acts only when the group is gone.

The child and its descendants are the environment: they fork, leave the group,
close their ends of the pipes and die at any time. They need not react to
SIGTERM, so SIGTERM changes nothing in the model; SIGKILL empties the group.
close is due when the child is dead and nobody holds the pipes (`CloseIsDue`).
With `PidsReused` the id of an empty group may be given to strangers, who then
answer the probe. Left out: Windows, and the output (its text decides nothing
here; OmxOutput adds it). The interval between exit and close is there; the
`exit` event has no handler. docs/runtime-smoke.md:38 says that
BRIDGE_JOB_TIMEOUT_MS bounds the child execution: a descendant that has left the
group and keeps the pipes open delays close past that, since nothing signals it.
The fairness below therefore assumes that such processes end some day.

JobRunner sees an execution as `RefuseCwd`, or as `Spawn` followed by `ChildGone`, with
one of the results that ExecContract allows. Its `Alive` takes the child for gone when the
execution has ended. That is so except after a signal that could not be sent, which ends the
execution at once (execution_error; `ChildEndsFirst`). A promise that execute rejects counts
as failed: executeJob's catch block then writes failed where the result would have been written.

### OmxOutput against the code

`OnData` is the data event of stdout and `AppendCapturedOutput` what it does with a
chunk: the head keeps everything up to the limit; once the output is longer, the
head is cut to half of what the marker leaves and the tail keeps the rest.
`RenderCapturedOutput` is called by finish, in every event that settles the run
(`OtherEvent`). A character is the number of its place in the output, so an
excerpt shows which characters it has. `Omitted` is buildTruncationMarker: the
marker contains the number of missing characters, whose digits lengthen the
marker. The loop of the code, which goes up from the smallest number to the
first that fits (`Aware` is the number a marker of some length makes true), is a
CHOOSE of the smallest; the bound of the CHOOSE is never reached (`OmittedGives`). `Wording` and `Radix` stand for the 26
characters of the marker's text and the decimal system, so that a short output
already has numbers of two digits and limits that leave the marker no room.
The bytes of a character are not there: chunk.toString() is applied to each
chunk, and a character whose bytes arrive in two of them is damaged by the code.

### NotificationStore against the code

A process works on one operation at a time (withStoreLock). `step` is where:
`Lock` is the open with wx, `Inspect` the stat, `RemoveStale` the rm by path,
`TimeOut` the error after lockTimeoutMs, `Read` readUnsafe with the returns that
follow it, `Write` the rewrite or clear, `Append` the fallback of enqueue, `ReadToken`
and `Unlock` the finally block. `Age` is the passing of lockStaleMs. The
file's lines are a set, as every reader deduplicates and sorts them;
`receivedAt` values are distinct (`Receive` stamps them in order of arrival).
`Faults` names the file operations that may fail, `OwnersStall` lets an
operation outlast lockStaleMs, `Crash` ends a process anywhere.

`entered`, `taken` and `dropped` are the history NotificationQueue is about:
what enqueues have put into the file, what drains have removed from it, and
what the limit has displaced. `robbed` is set when a living owner's lock file is
removed by another; what is claimed of the file is claimed until then, and
`OnlyDeathOrDelayRobs` says what it takes.

Abstractions: the open of the lock file and the write of its token are one step
(an empty lock file ages and is taken over like any other; a token that cannot
be written ends the operation with the lock removed, and is left out); lines
are never malformed; a rewrite is atomic, as it renames a temporary file; the
in-memory queue, which only getStats uses when it cannot read, is left out.

Two things README.md says of the store hold only as far as the model shows:
each completion is returned "once" (454) unless clearing fails after the read, or
two processes take over a dead one's lock at once and both read before either
clears; and the store keeps "at most" its limit (577) unless the rewrite fails and
enqueue appends. A notification whose append fails as well is nowhere, and
the webhook answers 200 all the same: it never enters the queue of the model.

### JobNotify against the code

- `exists`, `status`, `request`, `ended`, `history`: the job files, with what announcements
  and retention look at. `ended` orders the ends as finishedAt does. What was removed
  keeps its values: persistOutcome may still hold them.
- `createLock`, `creating`: createMutex, and what its holder is about to save.
  `Search` is createJob up to the decision, from two listings (`Finds`: the one of
  findExistingRequestJob and the one of countActive, either of which may miss files),
  `Create` the rest, or its failure. Which unused id is drawn does not matter (`NextId`).
- `untracked`, `Track`: between a terminal transition and trackCompletionNotification,
  which a failing runner.cancel prevents.
- `notice`, for each job and each of three callers (the end itself, a manual retry, the
  startup): `Announce` is the start of notifyJobComplete with the channels of the mode
  and without those that have no address; `Post` is one attempt of the webhook, with its
  retries and `Fallback` to Telegram; `Send` is one of the channels that are tried once.
  Whether a channel accepted is not kept: what follows does not depend on it, except
  for the fallback, which only a webhook that was not accepted has.
- `queue`: persistLocks of the job. `ReadLatest` is persistOutcome's getById, `SaveOutcome`
  its save of the whole job: a file that was removed in between is written again.
- `listing`, `todo`: reconcileTerminalNotifications, in `ReconcileList` and one `ReconcileNext`
  per job. A job its listing could not read is in `skipped`.
- `doomed`, `surplus`: cleanupTerminalJobs, whose choice (`Choose`) is made at the start
  (`StartCleanup`) and by an interval (`CleanUpAgain`), and whose removals are `RemoveFile`,
  one by one.
- `phase`: the order of onModuleInit: recovery, cleanup, and then reconciliation beside
  everything else.

`saves`, `unseen` and `skipped` are history variables. `unseen` keeps, for a job that is created, the
jobs of the same request that its search did not see: files the listing could not read, and
removed ones that a save under way brings back later. Abstractions: a job that
is active just ends (who runs it is JobRunner's matter); ages are a choice of which
ended jobs are old; an outcome is its attemptIndex; a graceful shutdown, which
waits for announcements and stops reconciling, is a Crash at a moment when nothing is pending, or at
any other.

src/README.md:160-164 describes the reconciliation as one of jobs without an outcome. The code looks
at the outcome once, in the listing: an outcome that is recorded after it, by a manual retry or by the
announcement of a job that the recovery collected, does not keep the startup from announcing
the job again. The model does the same (`ReconcileNext` has no such guard), and no property
denies it.

### DispatchWait against the code

Each call of waitForJobCompletion is a `Waiter`. `Start` is resolveWaitOptions with
`Clamp`, `Answer` the moment the bridge reads the job for a request, `Begin` the
first answer, `Drain` drainNotificationForJob, `Look` everything between an answer and
the sleep: the grace period (`GraceOver`), the deadline (`Late`) and the delay. `Fails`
is an error or the timeout of a request or a drain. Time passes by `Tick`, and no
further than the `due` of a pending request, drain or sleep: a request takes up to
RequestTimeout, a drain up to DrainTimeout. The store is NotificationQueue, whose `Take`
`Drain` and `OtherReader` use, and whose `Enter` is a notification of the bridge
(`Notified`: at any time after the end, more than once, or never). Local
variables of a call that has returned are reset.

The answer's body is taken with its head; the code clears the timeout after the
head (bridge-client.ts:44, 72), so neither `WaitIsBounded` nor `EveryWaitEnds` says anything
of a bridge that stalls between them.

### JobContract against the code

One job, and the values of its fields reduced to what the code tells apart
(`Kind`): absent, null, empty, two values, one the program supplies, one that another process
of the program supplies, a value too long to be posted, a wrong one, and the old name of a source. The way of a request is
`SubmitBody` (what the two tools pass on; dispatch adds the URL of its own webhook when none is given),
`ApiTokenGuard`, `RequestValid` and `CreateJobDto` (the
DTO), `CwdAllowed` and `Normalized` (assertAllowedCwd), and `JobOf` (the file). `Parsed` and
`IsBridgeJob` are the reading of a file, `AfterReading` what a listing or a lookup
does with one that is invalid: it is put aside. `Resubmit` is a further request and its
answer, by the same process or, with another `Url`, by one that listens elsewhere: the port is drawn at
random for each process of dispatch unless it is configured (webhook-server.ts:82-91), and the URL is part of
the fingerprint. It goes on with `FingerprintMatches` and its two exceptions for older releases (`Upgrade` is a
job such a release has left). `Callback` merges a result (`Merged`), `Replay` is a callback
for a job that has ended. `Notify` is the webhook's answer to the notification with
`SignatureFits` and `NormalizeWebhookJob`, `Reload` the same normalization by another process's
read of the store.

`last` is the latest exchange with its answer, and there is one in each state of the
job, as exchanges leave the job as it is. Requests and callbacks have at most
`MaxOdd` fields other than the plain ones; the proofs have no such bound. A
secret is one value for the token and the signature; how they are computed is
left out.

## Runs

| Run | Bounds | Result |
| --- | --- | --- |
| `runner` | 2 jobs, queue of 2, 1 slot, 1 restart, 1 failed read or write | holds |
| `runner_cancel_orphan` | 1 job, no failed read or write | violated: a finding |
| `lock_recovery` | 3 processes, unbounded restarts and crashes | holds |
| `lock_race` | 2 processes | violated: a finding |
| `exec_protocol` | a child and 2 descendants; escapes, failing signals, reused ids; outputs of up to 14 characters in chunks of up to 5, limits 4 and 8 | holds |
| `tmux_session` | 1 job, 1 restart, 1 failing command, read or write | holds |
| `store_shared` | 2 processes, 2 jobs, 2 notifications, limit 1, 1 death, all file faults | holds |
| `job_notify` | 2 jobs, 2 clients, 1 request, both modes, 1 terminal job and 1 outcome kept, 2 tries, all faults, 3 events | holds |
| `dispatch_wait` | 2 calls and another reader, 1 job, 2 notifications, timeouts up to 7 ticks | holds |
| `contract` | 4 callers, 2 unusual fields | holds |
| `contract_lost` | the same | violated: a finding |
| `contract_replay` | the same | violated: a finding |

- `runner` asks whether, with every await an interleaving point, the
  runner keeps its limits (`ChildrenWithinCap`), owns every running file
  (`RunningIsOwned`), keeps the lock while anything may write
  (`LockCoversWork`), reaches every child at shutdown (`ShutdownStopsChildren`),
  executes nothing twice (`AtMostOneExecution`), keeps the order
  (`ClaimedInOrder`), implements the lifecycle (`ImplementsLifecycle`), resolves every
  queued job (`JobsSettle`) and announces every result (`ResultsAnnounced`). Where the
  code relies on a listing, the property names what a skipped file costs: a running job
  that recovery overlooked has no owner and does not settle, and holds a slot that others
  then wait for; an older job is overtaken by a claim that could not read it; the two limits on
  the files are exceeded by as many files as one listing left out (`lapse`); an end is not announced
  by a process that could not read or write its file. The limit on children has no such
  exception: runs are counted in memory. Two
  jobs on one slot give a candidate something to overtake, leave a cancelled job's
  child holding the slot the other waits for, and show a slot that is not given back.
  With two jobs and a queue of two the limit on active jobs refuses nothing, and three jobs
  are too many for the liveness part: that limit is the matter of the theorems
  (`LimitsHold`), which hold for all bounds. One restart is enough for a process to see the leavings of another.
- `runner_cancel_orphan` checks what the README says about cancellation
  (README.md:579). Counterexample: executeJob's getById has read the job as
  running; a cancellation writes cancelled, finds no controller and returns; the run goes
  on to register a controller nobody will use and spawns the child.
  The result stays cancelled (`ImplementsLifecycle`), the slot stays taken.
- `lock_recovery` asks whether an uncontended lock stays exclusive
  (`SettledStaysAlone`: while it is taken, all others have yet to read the file or have read its
  owner's pid, and none misreads it) and whether the lock is always obtained again
  (`LockIsObtained`), whatever dead processes leave at the path.
- `lock_race` checks README.md:570. Counterexample: the second process reads the
  first one's file before the payload is in it, removes it and makes its own. A pid that was read from
  the file of an owner who has ended since, and is tested when a third process has the lock, ends in
  the same way.
- `exec_protocol` asks whether an execution settles once and with the right
  result (`SettlesAsAsked`), leaves neither a process of its group
  (`StoppedGroupIsGone`) nor a timer (`NothingArmedOnceSettled`) behind, ends
  (`ExecutionEnds`), for every order of the events, and shows the right excerpt of the
  output (`OutputIsFaithful`), for every cut of the output into chunks. Two descendants
  are enough for one to outlive the child in the group and another to escape with the
  pipes; each can fork the other. With a marker of 3 or more characters, the limit 4
  leaves room for one character or for none, and the limit 8 for a head and a tail; 14
  characters are past the point where the number in the marker gains a digit.
- `tmux_session` asks whether a prompt is given to tmux once
  (`SessionStartedOnce`), whether a job is failed only for a session that is over
  (`FailedSessionIsOver`) and that left no exit code (`ExitCodeCounts`), whether
  files stay while the session lives (`ArtifactsOutliveSession`), whether a
  cancelled or called back job's session ends (`ResolvedSessionIsEnded`), and
  whether the job is resolved whatever happens (`JobIsResolved`). The properties
  are about one job's files and session, and all actors of one job are here at
  once. One restart lets a process find every intermediate state another has
  left; one fault hits every command and write. Deadlock is not
  checked: once the job is deleted nothing may be left to do.
- `store_shared` asks whether the lock is only taken from the dead or the slow
  (`OnlyDeathOrDelayRobs`), whether the store implements the queue (`ImplementsQueue`), so that
  it loses nothing and brings nothing back, and whether a dead owner's lock is freed
  (`LockIsFreed`). Two notifications and a limit of one make the older one
  be superseded (same job) or displaced (another job); one death leaves an orphan
  lock, which both processes may find at once when the dead one is started again.
- `job_notify` asks whether there is one file per request (`OneFilePerRequest`, which names the two
  cases in which the code makes a second: the first could not be read, or a save brings it back later),
  whether outcomes recorded at the same time all end up in the history (`HistoryIsComplete`),
  whether retention by number keeps the newest (`NewestAreKept`) and, whatever comes back,
  cannot be read or is interrupted, in the end no more than it may (`RetentionIsEnforced`), and whether
  every end is announced, removed or given up until the next start (`EveryEndIsAnnounced`). The three
  events are shared by submissions, manual retries, faults and deaths: one submission, a death and a
  retry meet, or two submissions of one request and a fault. Two jobs are enough for one to be surplus.
  Deadlock is not checked: nobody has to call.
- `dispatch_wait` asks whether a wait is bounded (`WaitIsBounded`), tells the truth about a timeout
  (`TimedOutIsTrue`) and about a missing notification (`MissingIsTrue`), reports an end in time
  (`EndIsReported`), and ends (`EveryWaitEnds`). The options are the default and one that is out
  of range, so both ends of `Clamp` occur; two calls for one job compete for its two
  notifications with another reader. The longest wait is several rounds of polls of either
  length. Deadlock is not checked: calls end.
- `contract` asks whether a job of a tool keeps a file the bridge can read (`ToolJobsAreKept`), whether a
  request sent again finds its job (`RetryFindsTheJob`; it may get 409 only when dispatch filled in another
  receiver, as another process or one that was started again does) and no other work does (`SameJobSameWork`),
  whether a replayed callback changes nothing (`ReplayIsIdempotent`), and whether dispatch keeps what the
  file tells (`NoticeTellsTheJob`). Two unusual fields are those a pair of checks can
  disagree about, in the request, in the callback, or one in each. Callers are a plain HTTP client with
  the right and with another secret, and either tool. Deadlock is not
  checked: the last exchange leaves nothing to do.
- `contract_lost` checks README.md:267 and 258. Counterexample: a request with a null in an optional
  field is accepted, and the next read puts its file aside.
- `contract_replay` checks docs/routing-contract.md:7. Counterexample: a callback without
  stdout is applied; the same callback again is answered with 409.

Every property has a faulty variant of the code beside the definition it
replaces (marked "A faulty variant" in the modules; not part of any
specification) that makes TLC find the property violated.

### Fairness

`LiveSpec` of JobRunner assumes that the poll interval keeps claiming, that
every await of a run, handler, notification or recovery returns, that a child
ends (job timeout and SIGKILL), and that systemd restarts the process
(`Restart=always`). No client has to submit, cancel or call back, and no process has
to stop or die. The number of restarts is bounded by `MaxRestarts`, as
no job would settle in a process that dies for ever. `LiveSpec` of
InstanceLock assumes that ended processes are started again and that each
started acquire or unlink goes on, and that a process that has released exits; `LockIsObtained` excuses
endless crashes explicitly.

`LiveSpec` of JobNotify assumes that every await of an announcement, a submission, a
recovery or a cleanup returns (requests time out after notifyTimeoutMs), and that systemd
starts the process again; nobody has to call, no job has to end, and deaths are
bounded by `MaxEvents`. The interval's cleanup has to find what is surplus at some time if it always
could: a timer that runs as long as the process, with listings that fail a bounded number of times. `LiveSpec` of
DispatchWait assumes that time passes and that a call proceeds or fails when it can, as
timers do; the bridge need not answer and jobs need not end.

`Fairness` of OmxExec assumes that the cwd is resolved (or refused) at some
time, that timers go off and that events are delivered; nobody has to abort and
no process of the group has to end by itself. It also assumes that processes that have left the
group end some day; without it close may never come. OmxOutput has the same
fairness: no output has to come. `LiveSpec` of
NotificationStore assumes that every await returns and that an orphan lock
grows old; nobody has to call, give up waiting, or die.

`LiveSpec` of TmuxRunner assumes that the poll interval keeps claiming and
collecting (`Claim`, `Collector`), that the awaits of a start and of a recovery
return (`Starter`, `Recover`, `Serve`), that jobTimeoutMs passes (`Expire`), and that
a process that shuts down ends and is started again (`Exit`, `Boot`). No
session has to end, no client has to call, and retention does not have to run.

## Proofs

All theorems hold for every value of the constants that satisfies
`LimitsAssumption` (limits are positive, as parsePositiveInt enforces),
the two `BoundsAssumption`s, `FaultsAssumption`, `LockFileAssumption`, `ProcessAssumption`,
`StoreAssumption` (model values differ, flags are Booleans, bounds are natural numbers),
`NotifyAssumption` (finitely many jobs, at least one try and one outcome kept),
`WaitAssumption` (limits in order, a poll of at least one tick) and `ContractAssumption`.

`JobRunnerProofs`. None of the properties is inductive. `IInv` strengthens them:

- `RunsAreInFlight`: a job is in inFlight exactly while its run exists, and its
  file is running or terminal then;
- `ClaimIsSound`: what the claim on its way may rely on; the snapshot shows every
  file that is running now, or could not read it;
- `RunsFit`: inFlight and the pending claim fit into the slots, whatever listings
  show. This bounds the children when cancelled jobs still execute;
- `SlotsSuffice`: inFlight, running files and the pending claim together fit into the
  slots and `lapse`. The step that needs work is `ClaimChoose`: it
  counted a snapshot, and `ClaimIsSound` says the files can only have fewer
  running jobs since, but for those it could not read (`UnreadIsSmall`); `OccupiedShrinks`
  covers all other steps;
- `CreateIsSound`: an admitted submission still has its place, up to `lapse`;
- `NotYetExecuted`: a queued job, or one on its way to Spawn, never had a child;
- `LockIsHeld`, `AbortIsComplete`: the lock, and the signals, by phase;
- `Quiet`, `UnresolvedHasNoAuthor`.

`Invariance` is `Spec => []IInv`; from it follow `CapHolds`, `NoOrphanedFile`,
`LockOutlivesWork`, `ShutdownReachesChildren`, `ExecutedOnce`, and
`BridgeImplementsLifecycle`, the refinement, whose step lemma maps CreateSave to
Submit, ClaimWrite to Claim, the requeues to Requeue and every terminal
transition to Resolve or a stutter. `OrderHolds` needs a second invariant,
`InOrder`: between the snapshot and the claim nothing that precedes the
candidate enters the queue while the process serves.

From the refinement follows more about the job files, which no run lists:
`LimitsHold` (both limits hold of the files, not only of the children, but for as many files as one
listing left out: exactly, if every file can be read), `ResultsStaySigned`
(each resolution is by somebody who may, and no resolution is without an author) and
`ResolutionsAreFinal` (nothing writes over one). `ReportsAreHonest` has an invariant of its
own: a success that the runner reports was executed, and only ends are announced.

The last part is about executions. `RunnerCallsExec`: as long as the process lives, a call of
execute changes by steps of ExecContract only, and it begins as the contract does.
`EveryOutcomeIsExpected` is the other direction: every step that the contract allows an execution
is one `ExecuteJob` has. So nothing the runner's theorems say depends on an execution that
behaves better than `ExecKeepsContract` (below) shows it to behave. A signal whose delivery
fails settles the execution in one step of OmxExec and in two of JobRunner.

`InstanceLockProofs`: `LockInvariance` (the path names only a process that has the
file, and a pid that was read and not tested is that of a process which is still there, or a dead one's)
justifies the way the module names files; `SettledLockExcludes` proves
`SettledStaysAlone` for any number of processes. `OnlyARobberyMakesTwo` tells how much is wrong
with what `lock_race` refutes: in every behaviour in which no takeover unlinks the file of a
process that has it (`Robs`: the path was read as stale, empty or not at all, or the pid read from it has
died since, and a live process has the file by now), there is one instance at most. Neither deaths, nor
late unlinks, nor any number of starters need be feared besides.

`OmxExecProofs`: `ExecInv` adds to the properties that the flags follow the
signals (`FlagsFollowSignals`: terminationStarted exactly when cancelled or timed
out, and the escalation is armed only on a group that is owned), that nothing
happens before the spawn (`StagesInOrder`), and `LostGroupIsGone`: as long as
the run has not settled, the group is given up only when it is empty. From `ExecInvariance` follow
`NothingLeftBehind`, `NothingLeftArmed` and, with one step per handler, `SettledOnce`;
`ExecKeepsContract`, the refinement of ExecContract, where a handler that settles is End, Refuse
or Signal and any other a stutter; and `ChildEndsFirst`.

`OutputStaysFaithful` is about data. `OutputInv` says that the capture is a function of what was
written: below the limit all of it, above it a prefix and a suffix of the lengths that the
marker of the length so far leaves room for. It is kept (`AppendStep`) because a longer output has a
longer marker, so a part that is needed later was not cut off earlier. That rests on
`OmittedGives`, which shows that the loop of buildTruncationMarker ends and that its count is right
for the marker it makes, and on `MarkerMonotone`; these on the digits of a number
(`DigitsGives`, `DigitsMonotone`) and on the powers of the radix. `Power` is a recursive
function, and what it gives is shown by induction: the library's induction
theorems cannot be used here, but the naturals are well-founded, so a set of naturals that has 0 and
each successor is all of them (`EveryNumber`). `KeptIsFaithful` is the step from the capture to the
property. OmxOutput only adds to OmxExec (`OutputIsAnExecution`), so the other theorems hold of it.

`TmuxRunnerProofs`: `IInv` adds what each actor may rely on across its awaits.
`StartIsFirst`: only a job nothing was started for can be queued, so no second
session comes (`StartedOnce`). `KnownIsStarted`: whoever handles a session comes after its
start, so what is found dead stays dead. `KilledIsDead` and `CollectorIsRight`
carry that from the tmux command to the write that uses it (`FailureIsReal`,
`ExitCodeIsUsed`). `RecoveryIsAlone`: no start or request is pending during the recovery
(`RestartKeepsSessions`). `FilesAreThere`: retention works on deleted jobs that no
start is early in, and a session found missing does not come back
(`ArtifactsStay`). `SomebodyEndsIt`: a session that outlives its resolved job has
a request that is still to kill it (`ApiEndsSession`). `TmuxFollowsLifecycle` shows that the
file of the job takes the steps of JobLifecycle only, as those of exec jobs do: one resolution, by somebody
who may, and no later one. It begins when the job has been submitted, and a
deleted file counts as what it was. Whether an exit code or a callback means a success or a failure
is not in the model, and makes no difference to those steps.

`NotificationProofs` has two layers. `QueueStep` shows that the abstract queue
keeps `QueueInv` (nothing lost, nothing back, and everything has entered), where
`NotLatest` gives a newer notification for each one that deduplication leaves out.
`SafeInv` is about the processes: `LockIsOwn` (whoever is inside is named by
the lock file, and a writer's snapshot is still what the file holds), `Fresh` (an
enqueue that has not written yet has a notification of its own, so that it enters once)
and `EnqueueAppends`. `RefinementStep` then maps Enqueue and Append to Enter, Drain to Take,
Compact to Compact and everything else to a stutter, so QueueInv holds
of the store too: `StoreInvariance`, `LockIsExclusive`, `StoreLosesNothing`,
`StoreBringsNothingBack`, `StoreImplementsQueue`. `RobbedOnlyByDeathOrDelay` needs
`Undisturbed` besides: without a death no lock is old unless an owner is slow.

`JobNotifyProofs`: `QueueInv` says of each job who waits in persistLocks and that
whoever is saving is first there and has read the latest history; so a save
records one outcome more, and `RecordCompletes` shows that this turns the complete history
of n outcomes into that of n + 1 (`HistoryInv`, hence `OutcomesAreKept`). `RequestInv` is what the
holder of createMutex may rely on: a job of its request is in `unseen`, or gone with no save to bring it back
(`RequestsHaveOneFile`); it needs `MadeInv`, as the id that is drawn must not be in use, and `GoneStays`: no
step brings a file back but a save that had read it, which is `RemovedStaysRemoved`.
`TriesInv` bounds the posts. `RetentionInv` is about the cleanup, which
removes one file after another by a listing that grows old: each file that goes for being one too
many is survived by as many newer ones as may stay, not counting those that are to go as well. The
listing makes it true (`OverflowLeavesEnough`: of the surplus, the newest is survived by enough, and the
others are older still) and `Spares` is what any other step does: it takes none of those that stay. `NewestStay`
follows.

`DispatchWaitProofs`: `CallInv` gives, for each call, what its stage says about the time: it has
not gone past what is due (`Punctual`), its answer is as old as its request at most
(`Informed`), an end that was before the request has been observed (`Reported`), and what it
has returned was so (`Told`). `QueueInv` says that what a drain takes was pending and no more than once,
from which `ToldOnce` follows.

`JobContractProofs`: `FromRequest` (what the file asks for is what the request asked for, or the
null of an absent field), `Printed` (its fingerprint is the one of a release), `ResultKnown` (its result is
that of a command, of a request, or the last callback's merged into one of these) and `ToolFile` (no
tool's job has a null where the file may have none) are the invariant; each theorem is one of its
conjuncts, as every exchange is decided by the file alone.

The type invariants are proved in the same way (`TypeCorrectness` twice, `WaitTyped`, `ContractTyped`,
and within the invariants of the others); no run repeats them. Neither do runs
repeat `NothingIsLost`, `NothingComesBack` and `LockExcludes`, which follow from what `store_shared`
checks, `KnownSessionSurvivesRestart` and `NotifiedOnce`: TLC has found them to hold on
the instances above, and they are proved.

Model-checked only: the liveness properties (`JobsSettle`, `ResultsAnnounced`,
`LockIsObtained`, `ExecutionEnds`, `JobIsResolved`, `LockIsFreed`, `RetentionIsEnforced`, `EveryEndIsAnnounced`,
`EveryWaitEnds`), which
need fairness and ENABLED, out of this prover's reach. Every safety property of a passing run is stated by a
theorem. The violated properties are refuted by their runs. Conversely, what only theorems state
(`LimitsHold`, `ResultsStaySigned`, `ResolutionsAreFinal`, `ReportsAreHonest`, `OnlyARobberyMakesTwo`,
`TmuxFollowsLifecycle` and those about ExecContract) TLC has found to hold on the instances above.

## Not modelled

- Parsing, formatting and read-only operations: configuration values, the texts tools and
  notifications have, how tokens and signatures are computed, the content type and size
  of requests, the permissions of directories, lists, statistics and health. They change no state, and the
  properties do not depend on them.
- Operator scripts (`scripts/`): smoke and release tooling outside the system.
- Windows: process trees are ended by another program there.
- The capture wrapper's byte limit and the reading of captured output: the same idea as
  OmxOutput for bytes in files; TmuxRunner only has the exit code.
- Two bridge processes over one jobs directory, for requests that are served after the
  lock was released: one JobRunner process is already at the limit of what TLC can
  explore with every await apart.
- Exec and tmux jobs that share the slots: the composition of JobRunner and TmuxRunner has the
  same limit. A running tmux job takes a slot by its file alone (`ExternallyRunning`).
- Pids that are used again, in InstanceLock: the code cannot tell a living owner from a stranger with
  its pid, so it refuses to start, and an operator removes the file.
- Malformed and partial lines of the store, and its copy in memory: a line that cannot be
  read is skipped by every reader alike, and only getStats looks at the copy, when it
  cannot read.
- The clock: job order and age follow the order of events here; queueOrder and finishedAt
  follow the wall clock, which may be set back.
