----------------------------- MODULE DispatchWait -----------------------------
(***************************************************************************)
(* waitForJobCompletion of omx-dispatch: calls that wait for a job, each   *)
(* in a loop of draining the shared store for the job's notification,      *)
(* asking the bridge for its status, and sleeping. The store is the        *)
(* abstract NotificationQueue, which NotificationStore implements.         *)
(*                                                                         *)
(* Time passes in ticks. A request to the bridge takes up to               *)
(* RequestTimeout, a drain up to DrainTimeout, anything else no time.      *)
(***************************************************************************)
EXTENDS Integers, FiniteSets

CONSTANTS
    Waiter,            \* calls of omx_wait_for_job, each of them once
    Job,
    None,              \* an option not given, a time not set, no notification
    Given,             \* values of the two options of a call
    DefaultWait, MinWait, MaxWait,
    DefaultPoll, MinPoll, MaxPoll,
    Grace,             \* terminalNotificationGraceMs
    RequestTimeout,
    DrainTimeout,
    MaxNotifications,
    MaxQueueSize,
    MaxTime            \* bound: when calls begin

ASSUME WaitAssumption ==
    /\ Given \subseteq Int \cup {None}
    /\ {DefaultWait, DefaultPoll} \subseteq Int
    /\ MinWait \in Nat /\ MaxWait \in Nat /\ MinWait <= MaxWait
    /\ MinPoll \in Nat \ {0} /\ MaxPoll \in Nat /\ MinPoll <= MaxPoll
    /\ Grace \in Nat
    /\ RequestTimeout \in Nat
    /\ DrainTimeout \in Nat
    /\ MaxNotifications \in Nat
    /\ MaxTime \in Nat
    /\ None \notin Int

VARIABLES
    now,
    ended,             \* when each job reached a terminal status
    stage,             \* where each call is
    target,            \* the job it waits for
    started, timeout, poll,
    due,               \* when its request or drain times out, or its sleep ends
    seen,              \* the status that the answer to its request tells
    observed,          \* terminalObservedAt
    result,            \* how it has ended, when, and with what
    others,            \* history: notifications other readers have drained
    pending, entered, taken, dropped

Q == INSTANCE NotificationQueue

call  == <<target, started, timeout, poll>>
queue == <<pending, entered, taken, dropped>>
vars  == <<now, ended, stage, call, due, seen, observed, result,
           others, queue>>

Outcome == {"none", "notified", "missing", "timedOut", "error"}

TypeOK ==
    /\ now \in Nat
    /\ ended \in [Job -> Nat \cup {None}]
    /\ stage \in [Waiter -> {"idle", "first", "draining", "asking", "sleeping",
                             "done"}]
    /\ target \in [Waiter -> Job]
    /\ started \in [Waiter -> Nat]
    /\ timeout \in [Waiter -> MinWait .. MaxWait]
    /\ poll \in [Waiter -> MinPoll .. MaxPoll]
    /\ due \in [Waiter -> Nat]
    /\ seen \in [Waiter -> {"none", "running", "terminal"}]
    /\ observed \in [Waiter -> Nat \cup {None}]
    /\ result \in [Waiter -> [kind : Outcome, at : Nat,
                              with : Q!Notification \cup {None}]]
    /\ others \subseteq Q!Notification
    /\ taken \subseteq Q!Notification
    /\ pending \subseteq Q!Notification

Init ==
    /\ now = 0
    /\ ended = [j \in Job |-> None]
    /\ stage = [w \in Waiter |-> "idle"]
    /\ target \in [Waiter -> Job]
    /\ started = [w \in Waiter |-> 0]
    /\ timeout = [w \in Waiter |-> MinWait]
    /\ poll = [w \in Waiter |-> MinPoll]
    /\ due = [w \in Waiter |-> 0]
    /\ seen = [w \in Waiter |-> "none"]
    /\ observed = [w \in Waiter |-> None]
    /\ result = [w \in Waiter |-> [kind |-> "none", at |-> 0, with |-> None]]
    /\ others = {}
    /\ Q!Init

Smaller(a, b) == IF a <= b THEN a ELSE b
Larger(a, b)  == IF a <= b THEN b ELSE a

-----------------------------------------------------------------------------
(* Jobs end, the bridge posts their notifications, some of them twice, and *)
(* other readers drain them.                                               *)

JobEnds(j) ==
    /\ ended[j] = None
    /\ ended' = [ended EXCEPT ![j] = now]
    /\ UNCHANGED <<now, stage, call, due, seen, observed, result, others,
                   queue>>

Notified(j) ==
    /\ ended[j] # None
    /\ Cardinality(entered) < MaxNotifications
    /\ Q!Enter([job |-> j, at |-> Cardinality(entered) + 1])
    /\ UNCHANGED <<now, ended, stage, call, due, seen, observed, result,
                   others>>

OtherReader ==
    /\ \E J \in {Job} \cup {{j} : j \in Job} : Q!Take(J)
    /\ others' = others \cup (taken' \ taken)
    /\ pending' # pending
    /\ UNCHANGED <<now, ended, stage, call, due, seen, observed, result>>

-----------------------------------------------------------------------------
(* clampNumber: an option that is no number counts as not given.           *)
Clamp(given, default, min, max) ==
    Larger(min, Smaller(max, IF given = None THEN default ELSE given))

Start(w) ==
    /\ stage[w] = "idle"
    /\ now <= MaxTime
    /\ \E t \in Given, p \in Given :
        /\ timeout' = [timeout EXCEPT ![w] = Clamp(t, DefaultWait, MinWait, MaxWait)]
        /\ poll' = [poll EXCEPT ![w] = Clamp(p, DefaultPoll, MinPoll, MaxPoll)]
    /\ started' = [started EXCEPT ![w] = now]
    /\ due' = [due EXCEPT ![w] = now + RequestTimeout]
    /\ stage' = [stage EXCEPT ![w] = "first"]
    /\ UNCHANGED <<now, ended, target, seen, observed, result, others, queue>>

Deadline(w) == started[w] + timeout[w]

(* The bridge reads the job; its answer may take a while.                  *)
Answer(w) ==
    /\ stage[w] \in {"first", "asking"}
    /\ seen[w] = "none"
    /\ seen' = [seen EXCEPT ![w] =
                  IF ended[target[w]] = None THEN "running" ELSE "terminal"]
    /\ UNCHANGED <<now, ended, stage, call, due, observed, result, others,
                   queue>>

(* What the call kept for itself is gone with it.                          *)
Returns(w, kind, n) ==
    /\ stage' = [stage EXCEPT ![w] = "done"]
    /\ result' = [result EXCEPT ![w] = [kind |-> kind, at |-> now, with |-> n]]
    /\ due' = [due EXCEPT ![w] = 0]
    /\ seen' = [seen EXCEPT ![w] = "none"]
    /\ observed' = [observed EXCEPT ![w] = None]

(* A faulty variant, a client whose requests have no timeout.              *)
FailsNever(w) == FALSE /\ UNCHANGED vars

(* A request that times out or is refused ends the call, and so does a     *)
(* drain that cannot get the lock of the store.                            *)
Fails(w) ==
    /\ stage[w] \in {"first", "draining", "asking"}
    /\ Returns(w, "error", None)
    /\ UNCHANGED <<now, ended, call, others, queue>>

(* The first answer only shows that there is such a job.                   *)
Begin(w) ==
    /\ stage[w] = "first"
    /\ seen[w] # "none"
    /\ seen' = [seen EXCEPT ![w] = "none"]
    /\ stage' = [stage EXCEPT ![w] = "draining"]
    /\ due' = [due EXCEPT ![w] = now + DrainTimeout]
    /\ UNCHANGED <<now, ended, call, observed, result, others, queue>>

Mine(w) == {n \in Q!Latest(pending) : n.job = target[w]}

Ask(w) ==
    /\ stage' = [stage EXCEPT ![w] = "asking"]
    /\ due' = [due EXCEPT ![w] = now + RequestTimeout]
    /\ UNCHANGED <<seen, observed, result, queue>>

(* A faulty variant, which gives up after the drain when time is over.     *)
DrainGivesUp(w) ==
    /\ stage[w] = "draining"
    /\ \/ /\ \E n \in Mine(w) : Returns(w, "notified", n)
          /\ Q!Take({target[w]})
       \/ /\ Mine(w) = {} /\ now >= Deadline(w)
          /\ Returns(w, "timedOut", None)
          /\ UNCHANGED queue
       \/ Mine(w) = {} /\ now < Deadline(w) /\ Ask(w)
    /\ UNCHANGED <<now, ended, call, others>>

Drain(w) ==
    /\ stage[w] = "draining"
    /\ \/ /\ \E n \in Mine(w) : Returns(w, "notified", n)
          /\ Q!Take({target[w]})
       \/ Mine(w) = {} /\ Ask(w)
    /\ UNCHANGED <<now, ended, call, others>>

(* A faulty variant, which begins the grace period again at every look.    *)
ObservedAnew(w) == IF seen[w] = "terminal" THEN now ELSE None

(* A faulty variant, whose grace period begins with the call.              *)
ObservedEarly(w) == IF seen[w] = "terminal" THEN started[w] ELSE None

(* terminalObservedAt: the first look since which the job was terminal.    *)
Observed(w) ==
    IF seen[w] # "terminal" THEN None
    ELSE IF observed[w] = None THEN now ELSE observed[w]

(* A faulty variant, which sleeps past the deadline.                       *)
DelayUncut(w) == IF Observed(w) # None THEN MinPoll ELSE poll[w]

Delay(w) ==
    Smaller(Deadline(w) - now, IF Observed(w) # None THEN MinPoll ELSE poll[w])

GraceOver(w) == Observed(w) # None /\ now - Observed(w) >= Grace
Late(w)      == now >= Deadline(w)

(* The answer of the bridge, and what follows from it.                     *)
Look(w) ==
    /\ stage[w] = "asking"
    /\ seen[w] # "none"
    /\ \/ /\ seen[w] = "terminal"
          /\ GraceOver(w) \/ Late(w)
          /\ Returns(w, "missing", None)
       \/ /\ seen[w] = "running"
          /\ Late(w)
          /\ Returns(w, "timedOut", None)
       \/ /\ ~GraceOver(w)
          /\ ~Late(w)
          /\ stage' = [stage EXCEPT ![w] = "sleeping"]
          /\ due' = [due EXCEPT ![w] = now + Delay(w)]
          /\ seen' = [seen EXCEPT ![w] = "none"]
          /\ observed' = [observed EXCEPT ![w] = Observed(w)]
          /\ UNCHANGED result
    /\ UNCHANGED <<now, ended, call, others, queue>>

Wake(w) ==
    /\ stage[w] = "sleeping"
    /\ now >= due[w]
    /\ stage' = [stage EXCEPT ![w] = "draining"]
    /\ due' = [due EXCEPT ![w] = now + DrainTimeout]
    /\ UNCHANGED <<now, ended, call, seen, observed, result, others, queue>>

-----------------------------------------------------------------------------
(* Nothing takes longer than it may.                                       *)
Tick ==
    /\ now < MaxTime \/ \E w \in Waiter : stage[w] \notin {"idle", "done"}
    /\ \A w \in Waiter : stage[w] \notin {"idle", "done"} => now < due[w]
    /\ now' = now + 1
    /\ UNCHANGED <<ended, stage, call, due, seen, observed, result, others,
                   queue>>

Proceed(w) ==
    \/ Begin(w)
    \/ Drain(w)
    \/ Look(w)
    \/ Wake(w)

Next ==
    \/ \E j \in Job : JobEnds(j) \/ Notified(j)
    \/ OtherReader
    \/ \E w \in Waiter :
        \/ Start(w)
        \/ Answer(w)
        \/ Fails(w)
        \/ Proceed(w)
    \/ Tick

Spec == Init /\ [][Next]_vars

(* Time passes, timers fire, and a request that is not answered times out. *)
(* The bridge need not answer, and jobs need not end.                      *)
LiveSpec ==
    /\ Spec
    /\ WF_vars(Tick)
    /\ \A w \in Waiter : WF_vars(Proceed(w)) /\ WF_vars(Fails(w))

-----------------------------------------------------------------------------
(* A call outlasts its timeout by one round of the loop at most, and by    *)
(* the first request when that takes longer than the timeout. (The body of *)
(* an answer is taken with its head: the code's timeout covers the head.)  *)
WaitIsBounded ==
    \A w \in Waiter :
        stage[w] \notin {"idle", "done"} =>
            now <= started[w] + Larger(timeout[w], RequestTimeout)
                     + DrainTimeout + RequestTimeout

(* A call says that it timed out only of a job that was still running one  *)
(* request's duration before the deadline: not of an older answer.         *)
TimedOutIsTrue ==
    \A w \in Waiter :
        result[w].kind = "timedOut" /\ ended[target[w]] # None =>
            ended[target[w]] >= Deadline(w) - RequestTimeout

(* "notificationMissing explains that the bridge terminal state was        *)
(* observed without a queued notification" (docs/runtime-smoke.md): the    *)
(* job has ended, and its notification had the grace period to come since, *)
(* or the deadline is over.                                                *)
MissingIsTrue ==
    \A w \in Waiter :
        result[w].kind = "missing" =>
            /\ ended[target[w]] # None
            /\ \/ result[w].at >= ended[target[w]] + Grace
               \/ result[w].at >= Deadline(w)

(* Two calls for one job and another reader of the store never get the     *)
(* same notification.                                                      *)
NotifiedOnce ==
    \A w \in Waiter :
        result[w].kind = "notified" =>
            /\ result[w].with \in taken \ others
            /\ \A v \in Waiter \ {w} :
                  result[v].kind = "notified" => result[v].with # result[w].with

(* Once its job has ended, a call ends within a poll and the grace period, *)
(* however its rounds fall and whether or not a notification comes.        *)
EndIsReported ==
    \A w \in Waiter :
        stage[w] \notin {"idle", "done"} /\ ended[target[w]] # None =>
            now <= Larger(started[w], ended[target[w]])
                     + 3 * RequestTimeout + 2 * DrainTimeout
                     + poll[w] + Grace + MinPoll

(* Every call ends, also when the bridge stops answering.                  *)
EveryWaitEnds ==
    \A w \in Waiter : stage[w] = "first" ~> stage[w] = "done"
=============================================================================
