------------------------------ MODULE OmxExec ------------------------------
(***************************************************************************)
(* OmxExecService.execute: one child, started as the leader of a process   *)
(* group of its own, and the handlers that may end the execution: error,   *)
(* close, the timeout, the abort signal, the SIGKILL timer and the poll    *)
(* for the end of the group. A handler runs to its end, so each is a step. *)
(*                                                                         *)
(* The processes of the child are the environment. They fork, leave the    *)
(* group, close their ends of the output pipes and die as they like. close *)
(* comes when the child is dead and nobody holds the pipes open.           *)
(***************************************************************************)
CONSTANTS
    Leader,          \* the direct child
    Descendant,      \* processes it may fork, directly or not
    Escapes,         \* descendants may leave the process group (setsid)
    SignalMayFail,   \* process.kill may fail, other than with ESRCH
    PidsReused       \* a group id that is free again may be given out

ASSUME ProcessAssumption ==
    /\ Leader \notin Descendant
    /\ Escapes \in BOOLEAN
    /\ SignalMayFail \in BOOLEAN
    /\ PidsReused \in BOOLEAN

VARIABLES
    started,         \* waiting for the cwd, over, or the spawn that followed
    result,          \* what the promise was settled with
    aborted,         \* the AbortSignal has fired
    cancelled,       \* handleAbort has run
    timedOut,        \* the timeout has fired
    stdinFailed,     \* stdinWriteFailed
    terminating,     \* terminationStarted
    closed,          \* childClosed
    owned,           \* ownedProcessGroupPid is set
    armed,           \* timers that are set, and the abort listener
    alive,           \* processes that run
    unborn,          \* descendants not forked yet
    outside,         \* processes that have left the group
    holding,         \* processes that have the pipes open
    exitCode,        \* how the child ended
    strangers        \* the group id belongs to somebody else's group

handlers  == <<cancelled, timedOut, stdinFailed, terminating, closed>>
ownership == <<result, owned, armed>>
processes == <<alive, unborn, outside, holding, exitCode, strangers>>
vars      == <<started, aborted, handlers, ownership, processes>>

Process == {Leader} \cup Descendant

(* The result by its errorType. A rejected promise has none.               *)
Failure == {"invalid_cwd", "spawn_error", "non_zero_exit", "timeout",
            "execution_error", "rejected"}

Result == Failure \cup {"none", "succeeded", "cancelled"}

TypeOK ==
    /\ started \in {"resolving", "never", "failed", "spawned"}
    /\ result \in Result
    /\ aborted \in BOOLEAN
    /\ cancelled \in BOOLEAN
    /\ timedOut \in BOOLEAN
    /\ stdinFailed \in BOOLEAN
    /\ terminating \in BOOLEAN
    /\ closed \in BOOLEAN
    /\ owned \in BOOLEAN
    /\ strangers \in BOOLEAN
    /\ armed \subseteq {"timeout", "abort", "kill", "poll"}
    /\ alive \subseteq Process
    /\ unborn \subseteq Descendant
    /\ outside \subseteq Descendant
    /\ holding \subseteq Process
    /\ exitCode \in {"none", "zero", "other"}

Group == alive \ outside

Settled == result # "none"

Init ==
    /\ started = "resolving"
    /\ result = "none"
    /\ aborted = FALSE
    /\ cancelled = FALSE
    /\ timedOut = FALSE
    /\ stdinFailed = FALSE
    /\ terminating = FALSE
    /\ closed = FALSE
    /\ owned = FALSE
    /\ armed = {}
    /\ alive = {}
    /\ unborn = Descendant
    /\ outside = {}
    /\ holding = {}
    /\ exitCode = "none"
    /\ strangers = FALSE

-----------------------------------------------------------------------------
(* The helpers of the closure.                                             *)

(* A faulty variant, which leaves its timers behind.                       *)
FinishLeavesTimers(r) ==
    /\ result' = IF Settled THEN result ELSE r
    /\ armed' = armed \ {"abort"}
    /\ owned' = FALSE

(* finish, which only the first caller gets through, and the               *)
(* clearProcessOwnership that goes with each of its calls.                 *)
Finish(r) ==
    /\ result' = IF Settled THEN result ELSE r
    /\ armed' = {}
    /\ owned' = FALSE

GroupAnswers == owned /\ (Group # {} \/ strangers)

(* What signalOwnedProcess may meet.                                       *)
Delivery ==
    IF ~owned THEN {"unowned"}
    ELSE IF ~GroupAnswers THEN {"gone"}
    ELSE {"sent"} \cup (IF SignalMayFail THEN {"refused"} ELSE {})

(* terminate, on behalf of a handler that leaves left armed.               *)
Terminate(left) ==
    /\ terminating' = TRUE
    /\ \/ /\ terminating
          /\ armed' = left
          /\ UNCHANGED <<result, owned>>
       \/ /\ ~terminating
          /\ "sent" \in Delivery
          /\ armed' = left \cup {"kill"}
          /\ UNCHANGED <<result, owned>>
       \/ /\ ~terminating
          /\ "refused" \in Delivery
          /\ Finish("execution_error")
       \/ /\ ~terminating
          /\ Delivery \cap {"unowned", "gone"} # {}
          /\ armed' = left
          /\ owned' = FALSE
          /\ UNCHANGED result

(* finishTerminated, once close has come.                                  *)
FinishTerminated == Finish(IF cancelled THEN "cancelled" ELSE "timeout")

-----------------------------------------------------------------------------
(* execute, up to the return of the promise.                               *)

RefuseCwd ==
    /\ started = "resolving"
    /\ started' = "never"
    /\ \E r \in {"invalid_cwd", "rejected"} : result' = r
    /\ UNCHANGED <<aborted, handlers, owned, armed, processes>>

CancelledBeforeSpawn ==
    /\ started = "resolving"
    /\ aborted
    /\ started' = "never"
    /\ result' = "cancelled"
    /\ UNCHANGED <<aborted, handlers, owned, armed, processes>>

Spawn ==
    /\ started = "resolving"
    /\ ~aborted
    /\ started' = "spawned"
    /\ owned' = TRUE
    /\ armed' = {"timeout", "abort"}
    /\ alive' = {Leader}
    /\ holding' = {Leader}
    /\ UNCHANGED <<result, aborted, handlers, unborn, outside, exitCode,
                   strangers>>

(* The child has no pid; the error event will follow.                      *)
SpawnFails ==
    /\ started = "resolving"
    /\ ~aborted
    /\ started' = "failed"
    /\ armed' = {"timeout", "abort"}
    /\ UNCHANGED <<result, aborted, handlers, owned, processes>>

-----------------------------------------------------------------------------
(* The events.                                                             *)

OnError ==
    /\ started = "failed"
    /\ ~Settled
    /\ Finish("spawn_error")
    /\ UNCHANGED <<started, aborted, handlers, processes>>

OnStdinError ==
    /\ started = "spawned"
    /\ ~closed
    /\ stdinFailed' = TRUE
    /\ UNCHANGED <<started, aborted, cancelled, timedOut, terminating, closed,
                   ownership, processes>>

CloseIsDue ==
    /\ started = "spawned"
    /\ ~closed
    /\ Leader \notin alive
    /\ alive \cap holding = {}

(* The end of a child that nobody has told to stop.                        *)
CloseResult ==
    IF stdinFailed THEN "execution_error"
    ELSE IF exitCode = "zero" THEN "succeeded" ELSE "non_zero_exit"

(* A faulty variant, which does not wait for the group.                    *)
OnCloseAtOnce ==
    /\ CloseIsDue
    /\ closed' = TRUE
    /\ IF cancelled \/ timedOut THEN FinishTerminated ELSE Finish(CloseResult)
    /\ UNCHANGED <<started, aborted, cancelled, timedOut, stdinFailed,
                   terminating, processes>>

(* A faulty variant, which looks at the exit code only.                    *)
OnCloseByCode ==
    /\ CloseIsDue
    /\ closed' = TRUE
    /\ Finish(CloseResult)
    /\ UNCHANGED <<started, aborted, cancelled, timedOut, stdinFailed,
                   terminating, processes>>

OnClose ==
    /\ CloseIsDue
    /\ closed' = TRUE
    /\ \/ /\ cancelled \/ timedOut
          /\ terminating /\ GroupAnswers
          /\ armed' = armed \cup {"poll"}
          /\ UNCHANGED <<result, owned>>
       \/ /\ cancelled \/ timedOut
          /\ ~(terminating /\ GroupAnswers)
          /\ FinishTerminated
       \/ /\ ~cancelled /\ ~timedOut
          /\ Finish(CloseResult)
    /\ UNCHANGED <<started, aborted, cancelled, timedOut, stdinFailed,
                   terminating, processes>>

OnPoll ==
    /\ "poll" \in armed
    /\ ~GroupAnswers
    /\ FinishTerminated
    /\ UNCHANGED <<started, aborted, handlers, processes>>

OnTimeout ==
    /\ "timeout" \in armed
    /\ timedOut' = TRUE
    /\ Terminate(armed \ {"timeout"})
    /\ UNCHANGED <<started, aborted, cancelled, stdinFailed, closed,
                   processes>>

(* handleAbort, when the listener is there.                                *)
OnAbort ==
    /\ ~aborted
    /\ aborted' = TRUE
    /\ \/ /\ "abort" \in armed
          /\ cancelled' = TRUE
          /\ Terminate(armed \ {"abort"})
       \/ /\ "abort" \notin armed
          /\ UNCHANGED <<cancelled, terminating, ownership>>
    /\ UNCHANGED <<started, timedOut, stdinFailed, closed, processes>>

SigkillReaches ==
    /\ alive' = alive \ Group
    /\ exitCode' = IF Leader \in alive THEN "other" ELSE exitCode
    /\ UNCHANGED <<unborn, outside, holding, strangers>>

(* The SIGKILL timer gives up the group whatever became of the signal, and *)
(* leaves the end of the execution to close when that has not come.        *)
GiveUpGroup ==
    IF closed
    THEN FinishTerminated
    ELSE /\ owned' = FALSE
         /\ armed' = armed \ {"kill", "poll"}
         /\ UNCHANGED result

(* A faulty variant, which gives up the group without a last signal.       *)
OnKillTimerIdle ==
    /\ "kill" \in armed
    /\ GiveUpGroup
    /\ UNCHANGED <<started, aborted, handlers, processes>>

OnKillTimer ==
    /\ "kill" \in armed
    /\ \/ /\ "sent" \in Delivery
          /\ SigkillReaches
          /\ GiveUpGroup
       \/ /\ "refused" \in Delivery
          /\ Finish("execution_error")
          /\ UNCHANGED processes
       \/ /\ "gone" \in Delivery
          /\ GiveUpGroup
          /\ UNCHANGED processes
    /\ UNCHANGED <<started, aborted, handlers>>

Handler ==
    \/ OnError
    \/ OnStdinError
    \/ OnClose
    \/ OnPoll
    \/ OnTimeout
    \/ OnKillTimer

-----------------------------------------------------------------------------
(* The processes.                                                          *)

Fork(p, d) ==
    /\ p \in alive
    /\ d \in unborn
    /\ unborn' = unborn \ {d}
    /\ alive' = alive \cup {d}
    /\ outside' = IF p \in outside THEN outside \cup {d} ELSE outside
    /\ holding' = IF p \in holding THEN holding \cup {d} ELSE holding
    /\ UNCHANGED <<exitCode, strangers>>

LeaveGroup(p) ==
    /\ Escapes
    /\ p \in Group \ {Leader}
    /\ outside' = outside \cup {p}
    /\ UNCHANGED <<alive, unborn, holding, exitCode, strangers>>

ClosePipes(p) ==
    /\ p \in alive \cap holding
    /\ holding' = holding \ {p}
    /\ UNCHANGED <<alive, unborn, outside, exitCode, strangers>>

Die(p) ==
    /\ p \in alive
    /\ alive' = alive \ {p}
    /\ IF p = Leader THEN exitCode' \in {"zero", "other"}
                     ELSE UNCHANGED exitCode
    /\ UNCHANGED <<unborn, outside, holding, strangers>>

(* The kernel gives out an id only when no process or group has it.        *)
ReusePid ==
    /\ PidsReused
    /\ started = "spawned"
    /\ Group = {}
    /\ strangers' = TRUE
    /\ UNCHANGED <<alive, unborn, outside, holding, exitCode>>

ProcessStep ==
    \/ \E p \in Process, d \in Descendant : Fork(p, d)
    \/ \E p \in Process : LeaveGroup(p) \/ ClosePipes(p) \/ Die(p)
    \/ ReusePid

Environment ==
    /\ ProcessStep
    /\ UNCHANGED <<started, aborted, handlers, ownership>>

Next ==
    \/ RefuseCwd
    \/ CancelledBeforeSpawn
    \/ Spawn
    \/ SpawnFails
    \/ Handler
    \/ OnAbort
    \/ Environment

Spec == Init /\ [][Next]_vars

(* The cwd is resolved at some time, timers go off and events come. The    *)
(* processes need not do anything, nor need anybody abort; but those that  *)
(* have left the group end.                                                *)
Fairness ==
    /\ WF_vars(RefuseCwd \/ CancelledBeforeSpawn \/ Spawn \/ SpawnFails)
    /\ WF_vars(OnError)
    /\ WF_vars(OnClose)
    /\ WF_vars(OnPoll)
    /\ WF_vars(OnTimeout)
    /\ WF_vars(OnKillTimer)
    /\ \A p \in Process : WF_vars(p \in outside /\ Die(p) /\ Environment)

-----------------------------------------------------------------------------
(* A run that ends as cancelled or timed out leaves no process of its      *)
(* group behind, although close tells only of the child and its pipes, and *)
(* whichever of close, the poll and the SIGKILL timer comes first.         *)
StoppedGroupIsGone ==
    started = "spawned" /\ result \in {"cancelled", "timeout"} => Group = {}

(* The promise is settled once, with a result JobRunner counts on: never   *)
(* a success after the signal has fired, never cancelled before. A timeout *)
(* hides neither a cancellation nor a failure to stop the child.           *)
SettlesAsAsked ==
    [][result' # result =>
          /\ ~Settled
          /\ result' \in
                IF aborted' /\ started' = "spawned"
                THEN {"cancelled", "execution_error"}
                ELSE IF timedOut' /\ started' = "spawned"
                THEN {"timeout", "execution_error"}
                ELSE Result \ {"none", "timeout"}
          /\ result' = "cancelled" => aborted']_vars

(* A settled run has neither a timer nor a listener left: what went off    *)
(* later would signal a group that may be somebody else's by then.         *)
NothingArmedOnceSettled == Settled => armed = {} /\ ~owned

(* Every execution ends unless a process that has left the group keeps the *)
(* pipes for ever: by itself, or by the timeout and the one escalation     *)
(* from SIGTERM to SIGKILL, also when signals fail.                        *)
ExecutionEnds == <>Settled
=============================================================================
