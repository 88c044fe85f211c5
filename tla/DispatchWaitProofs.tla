-------------------------- MODULE DispatchWaitProofs --------------------------
(***************************************************************************)
(* What a call of omx_wait_for_job is told, and when, for any number of    *)
(* calls and jobs and any timeouts.                                        *)
(***************************************************************************)
EXTENDS DispatchWait, FiniteSetTheorems, TLAPS

Active(w) == stage[w] \notin {"idle", "done"}

(* What has ended has ended by now.                                        *)
EndsPassed == \A j \in Job : ended[j] # None => ended[j] <= now

(* Nobody sleeps past the deadline, and no round begins after it.          *)
Punctual(w) ==
    LET round == started[w] + Larger(timeout[w], RequestTimeout)
    IN  /\ Active(w) => now <= due[w]
        /\ stage[w] = "first" => due[w] = started[w] + RequestTimeout
        /\ stage[w] = "draining" =>
              due[w] <= round + DrainTimeout /\ due[w] <= now + DrainTimeout
        /\ stage[w] = "asking" =>
              /\ due[w] <= round + DrainTimeout + RequestTimeout
              /\ due[w] <= now + RequestTimeout
        /\ stage[w] = "sleeping" =>
              due[w] <= Deadline(w) /\ due[w] <= now + poll[w]

(* What a call has seen was so, and what it saw running was still running  *)
(* when it asked.                                                          *)
Informed(w) ==
    LET end == ended[target[w]]
    IN  /\ seen[w] # "none" => stage[w] \in {"first", "asking"}
        /\ seen[w] = "terminal" => end # None
        /\ seen[w] = "running" /\ stage[w] = "asking" /\ end # None =>
              end >= due[w] - RequestTimeout
        /\ observed[w] # None =>
              /\ Active(w) /\ stage[w] # "first" /\ seen[w] # "running"
              /\ end # None /\ end <= observed[w] /\ observed[w] <= now

(* The end of the job is observed within a poll and two requests, and      *)
(* after that the grace period and one more round are left.                *)
Reported(w) ==
    LET since == Larger(started[w], ended[target[w]])
        last  == observed[w] + Grace + MinPoll
    IN  /\ ended[target[w]] # None /\ observed[w] = None =>
              /\ stage[w] = "sleeping" => due[w] <= since + RequestTimeout + poll[w]
              /\ stage[w] = "draining" =>
                    due[w] <= since + RequestTimeout + poll[w] + DrainTimeout
              /\ stage[w] = "asking" =>
                    due[w] <= since + 2 * RequestTimeout + poll[w] + DrainTimeout
        /\ observed[w] # None =>
              /\ observed[w] <= since + 2 * RequestTimeout + poll[w] + DrainTimeout
              /\ stage[w] = "sleeping" => due[w] <= last
              /\ stage[w] = "draining" => due[w] <= last + DrainTimeout
              /\ stage[w] = "asking" => due[w] <= last + DrainTimeout + RequestTimeout

(* What a call was told stays true when the job ends later.                *)
Told(w) ==
    LET end == ended[target[w]]
    IN  /\ result[w].kind # "none" => stage[w] = "done"
        /\ result[w].kind = "timedOut" =>
              /\ Deadline(w) <= now
              /\ end # None => end >= Deadline(w) - RequestTimeout
        /\ result[w].kind = "missing" =>
              /\ end # None
              /\ result[w].at >= end + Grace \/ result[w].at >= Deadline(w)

CallInv(w) == Punctual(w) /\ Informed(w) /\ Reported(w) /\ Told(w)

(* What was drained by others, or told to a call, has left the store.      *)
QueueInv ==
    /\ pending \subseteq entered
    /\ taken \subseteq entered
    /\ others \subseteq taken
    /\ pending \cap taken = {}
    /\ NotifiedOnce

TypeInv ==
    /\ TypeOK
    /\ entered \subseteq Q!Notification
    /\ IsFiniteSet(entered)

IInv == TypeInv /\ EndsPassed /\ (\A w \in Waiter : CallInv(w)) /\ QueueInv

-----------------------------------------------------------------------------
(* clampNumber keeps an option within its limits.                          *)
LEMMA ClampInRange ==
    ASSUME NEW given \in Given, NEW default \in Int,
           NEW min \in Nat, NEW max \in Nat, min <= max
    PROVE  Clamp(given, default, min, max) \in min .. max
BY WaitAssumption DEF Clamp, Larger, Smaller

StepOf(w) == Start(w) \/ Answer(w) \/ Fails(w) \/ Proceed(w)

(* A step of one call leaves the others alone, and time stands still.      *)
LEMMA OthersStay ==
    ASSUME TypeOK, NEW v \in Waiter, StepOf(v), NEW w \in Waiter, v # w
    PROVE  /\ stage'[w] = stage[w] /\ target'[w] = target[w]
           /\ started'[w] = started[w] /\ timeout'[w] = timeout[w]
           /\ poll'[w] = poll[w] /\ due'[w] = due[w]
           /\ seen'[w] = seen[w] /\ observed'[w] = observed[w]
           /\ result'[w] = result[w]
<1>1. CASE Start(v)
  BY <1>1 DEF Start, TypeOK
<1>2. CASE Answer(v)
  BY <1>2 DEF Answer, TypeOK, call
<1>3. CASE Fails(v) \/ Begin(v) \/ Wake(v)
  BY <1>3 DEF Fails, Begin, Wake, Returns, TypeOK, call
<1>4. CASE Drain(v)
  BY <1>4 DEF Drain, Ask, Returns, TypeOK, call
<1>5. CASE Look(v)
  BY <1>5 DEF Look, Returns, TypeOK, call
<1> QED
  BY <1>1, <1>2, <1>3, <1>4, <1>5 DEF StepOf, Proceed

LEMMA TimeStands ==
    ASSUME NEW v \in Waiter, StepOf(v)
    PROVE  now' = now /\ ended' = ended /\ others' = others
<1>1. CASE Start(v) \/ Answer(v) \/ Fails(v) \/ Begin(v) \/ Wake(v)
  BY <1>1 DEF Start, Answer, Fails, Begin, Wake
<1>2. CASE Drain(v) \/ Look(v)
  BY <1>2 DEF Drain, Look
<1> QED
  BY <1>1, <1>2 DEF StepOf, Proceed

(* The store's part of a step: nothing, or what a drain takes.             *)
LEMMA QueueOfStep ==
    ASSUME NEW v \in Waiter, StepOf(v)
    PROVE  \/ UNCHANGED queue
           \/ Drain(v) /\ Q!Take({target[v]})
<1>1. CASE Start(v) \/ Answer(v) \/ Fails(v) \/ Begin(v) \/ Wake(v)
  BY <1>1 DEF Start, Answer, Fails, Begin, Wake
<1>2. CASE Drain(v) \/ Look(v)
  BY <1>2 DEF Drain, Look, Ask
<1> QED
  BY <1>1, <1>2 DEF StepOf, Proceed

-----------------------------------------------------------------------------
(* Type correctness.                                                       *)

LEMMA InitTyped == Init => TypeInv
<1> SUFFICES ASSUME Init PROVE TypeInv
  OBVIOUS
<1>1. entered = {} /\ IsFiniteSet(entered)
  BY FS_EmptySet DEF Init, Q!Init
<1> QED
  BY <1>1, WaitAssumption DEF Init, Q!Init, TypeInv, TypeOK, Outcome

(* What enters has a time within the bound.                                *)
LEMMA EnterTyped ==
    ASSUME TypeInv, NEW j \in Job, Notified(j)
    PROVE  TypeInv'
<1> DEFINE n == [job |-> j, at |-> Cardinality(entered) + 1]
<1>1. Cardinality(entered) \in Nat /\ Cardinality(entered) < MaxNotifications
  BY FS_CardinalityType DEF TypeInv, Notified
<1>2. n \in Q!Notification
  BY <1>1, WaitAssumption DEF Q!Notification
<1>3. IsFiniteSet(entered \cup {n})
  BY FS_AddElement DEF TypeInv
<1>4. pending' \subseteq pending \cup {n}
  BY DEF Notified, Q!Enter, Q!Compacted, Q!Retained, Q!Latest
<1>5. entered' = entered \cup {n} /\ taken' = taken
  BY DEF Notified, Q!Enter
<1> HIDE DEF n
<1> QED
  BY <1>2, <1>3, <1>4, <1>5
  DEF Notified, TypeInv, TypeOK, call

LEMMA TakeTyped ==
    ASSUME TypeInv, NEW J, Q!Take(J)
    PROVE  /\ pending' \subseteq pending
           /\ taken' \subseteq taken \cup pending
           /\ entered' = entered
BY DEF Q!Take, Q!Latest

LEMMA StepTyped ==
    ASSUME TypeInv, NEW w \in Waiter, StepOf(w)
    PROVE  TypeInv'
<1> USE DEF TypeInv, TypeOK, Outcome
<1>1. CASE Start(w)
  <2>1. PICK t \in Given, p \in Given :
          /\ timeout' = [timeout EXCEPT ![w] = Clamp(t, DefaultWait, MinWait, MaxWait)]
          /\ poll' = [poll EXCEPT ![w] = Clamp(p, DefaultPoll, MinPoll, MaxPoll)]
    BY <1>1 DEF Start
  <2>2. Clamp(t, DefaultWait, MinWait, MaxWait) \in MinWait .. MaxWait
    BY ClampInRange, WaitAssumption
  <2>3. Clamp(p, DefaultPoll, MinPoll, MaxPoll) \in MinPoll .. MaxPoll
    BY ClampInRange, WaitAssumption
  <2> QED
    BY <1>1, <2>1, <2>2, <2>3, WaitAssumption DEF Start, queue
<1>2. CASE Answer(w)
  BY <1>2 DEF Answer, call, queue
<1>3. CASE Fails(w)
  BY <1>3 DEF Fails, Returns, call, queue
<1>4. CASE Begin(w) \/ Wake(w)
  <2>1. due' \in [Waiter -> Nat]
    BY <1>4, WaitAssumption DEF Begin, Wake
  <2> QED
    BY <1>4, <2>1 DEF Begin, Wake, call, queue
<1>5. CASE Drain(w)
  <2>1. CASE \E n \in Mine(w) : Returns(w, "notified", n) /\ Q!Take({target[w]})
    <3>1. PICK n \in Mine(w) : Returns(w, "notified", n)
      BY <2>1
    <3>2. n \in Q!Notification
      BY DEF Mine, Q!Latest
    <3> QED
      BY <1>5, <2>1, <3>1, <3>2, TakeTyped DEF Drain, Returns, call
  <2>2. CASE Ask(w)
    BY <1>5, <2>2, WaitAssumption DEF Drain, Ask, call, queue
  <2> QED
    BY <1>5, <2>1, <2>2 DEF Drain
<1>6. CASE Look(w)
  <2>1. Observed(w) \in Nat \cup {None}
    BY DEF Observed
  <2>2. now < Deadline(w) => now + Delay(w) \in Nat
    BY WaitAssumption DEF Deadline, Delay, Smaller
  <2>3. /\ stage' \in [Waiter -> {"idle", "first", "draining", "asking",
                                  "sleeping", "done"}]
        /\ seen' \in [Waiter -> {"none", "running", "terminal"}]
    BY <1>6 DEF Look, Returns
  <2>4. /\ due' \in [Waiter -> Nat]
        /\ observed' \in [Waiter -> Nat \cup {None}]
    <3>1. CASE \E kind \in {"missing", "timedOut"} : Returns(w, kind, None)
      BY <3>1 DEF Returns
    <3>2. CASE /\ ~Late(w)
               /\ due' = [due EXCEPT ![w] = now + Delay(w)]
               /\ observed' = [observed EXCEPT ![w] = Observed(w)]
      <4>1. now + Delay(w) \in Nat
        BY <2>2, <3>2, WaitAssumption DEF Deadline, Late
      <4> QED
        BY <2>1, <3>2, <4>1
    <3> QED
      BY <1>6, <3>1, <3>2 DEF Look
  <2>5. result' \in [Waiter -> [kind : Outcome, at : Nat,
                                with : Q!Notification \cup {None}]]
    BY <1>6 DEF Look, Returns
  <2>6. UNCHANGED <<now, ended, call, others, queue>>
    BY <1>6 DEF Look
  <2> QED
    BY <2>3, <2>4, <2>5, <2>6 DEF call, queue
<1> QED
  BY <1>1, <1>2, <1>3, <1>4, <1>5, <1>6 DEF StepOf, Proceed

LEMMA TypesKept ==
    ASSUME TypeInv, [Next]_vars
    PROVE  TypeInv'
<1>1. CASE UNCHANGED vars
  BY <1>1 DEF vars, call, queue, TypeInv, TypeOK
<1>2. ASSUME NEW j \in Job, JobEnds(j)
      PROVE  TypeInv'
  BY <1>2 DEF JobEnds, call, queue, TypeInv, TypeOK
<1>3. CASE OtherReader
  <2>1. PICK J : Q!Take(J)
    BY <1>3 DEF OtherReader
  <2> QED
    BY <1>3, <2>1, TakeTyped DEF OtherReader, call, TypeInv, TypeOK
<1>4. CASE Tick
  BY <1>4 DEF Tick, call, queue, TypeInv, TypeOK
<1> QED
  BY <1>1, <1>2, <1>3, <1>4, EnterTyped, StepTyped DEF Next, StepOf

-----------------------------------------------------------------------------
(* The steps of the calls, the jobs and the clock.                         *)

(* A step of another call, or of the store, leaves a call as it is.        *)
LEMMA StaysSame ==
    ASSUME NEW w \in Waiter, CallInv(w), now' = now, ended' = ended,
           stage'[w] = stage[w], target'[w] = target[w],
           started'[w] = started[w], timeout'[w] = timeout[w],
           poll'[w] = poll[w], due'[w] = due[w], seen'[w] = seen[w],
           observed'[w] = observed[w], result'[w] = result[w]
    PROVE  CallInv(w)'
BY DEF CallInv, Punctual, Informed, Reported, Told, Active, Deadline

(* A job ends while a call waits for it.                                   *)
LEMMA EndKeeps ==
    ASSUME TypeInv, EndsPassed, NEW j \in Job, JobEnds(j),
           NEW w \in Waiter, CallInv(w)
    PROVE  EndsPassed' /\ CallInv(w)'
<1> USE DEF TypeInv, TypeOK
<1>1. /\ ended' = [ended EXCEPT ![j] = now] /\ ended[j] = None
      /\ now' = now
      /\ UNCHANGED <<stage, target, started, timeout, poll, due, seen, observed,
                     result>>
  BY DEF JobEnds, call
<1>2. EndsPassed'
  BY <1>1 DEF EndsPassed
<1>3. CASE target[w] # j
  <2>1. ended'[target[w]] = ended[target[w]]
    BY <1>1, <1>3
  <2> QED
    BY <1>1, <1>2, <2>1
    DEF CallInv, Punctual, Informed, Reported, Told, Active, Deadline
<1>4. CASE target[w] = j
  <2>1. ended'[target[w]] = now /\ ended[target[w]] = None
    BY <1>1, <1>4
  <2>2. Punctual(w)'
    BY <1>1 DEF CallInv, Punctual, Active, Deadline
  <2>3. Informed(w)'
    BY <1>1, <2>1, WaitAssumption DEF CallInv, Informed, Punctual, Active
  <2>4. Reported(w)'
    BY <1>1, <2>1, WaitAssumption
    DEF CallInv, Reported, Punctual, Informed, Active, Deadline, Larger
  <2>5. Told(w)'
    <3>1. Deadline(w)' = Deadline(w) /\ Deadline(w) \in Nat
      BY <1>1, WaitAssumption DEF Deadline
    <3>2. now \in Nat /\ RequestTimeout \in Nat
      BY WaitAssumption
    <3>3. result[w].kind # "missing"
      BY <2>1 DEF CallInv, Told
    <3> QED
      BY <1>1, <2>1, <3>1, <3>2, <3>3 DEF CallInv, Told
  <2> QED
    BY <1>2, <2>2, <2>3, <2>4, <2>5 DEF CallInv
<1> QED
  BY <1>2, <1>3, <1>4

(* Time passes only as far as every call allows.                           *)
LEMMA TickKeeps ==
    ASSUME TypeInv, EndsPassed, Tick, NEW w \in Waiter, CallInv(w)
    PROVE  EndsPassed' /\ CallInv(w)'
<1> USE DEF TypeInv, TypeOK
<1>1. /\ now' = now + 1
      /\ Active(w) => now < due[w]
      /\ UNCHANGED <<ended, stage, target, started, timeout, poll, due, seen,
                     observed, result>>
  BY DEF Tick, call, Active
<1>2. EndsPassed'
  BY <1>1, WaitAssumption DEF EndsPassed
<1>3. Punctual(w)'
  BY <1>1, WaitAssumption DEF CallInv, Punctual, Active, Deadline
<1>4. Informed(w)'
  BY <1>1, WaitAssumption DEF CallInv, Informed, Active
<1>5. Reported(w)'
  BY <1>1 DEF CallInv, Reported
<1>6. Told(w)'
  BY <1>1, WaitAssumption DEF CallInv, Told, Deadline
<1> QED
  BY <1>2, <1>3, <1>4, <1>5, <1>6 DEF CallInv

(* A call goes on. Each of its own steps, with what it may rely on.        *)
LEMMA OwnStepKeeps ==
    ASSUME TypeInv, TypeInv', EndsPassed, NEW w \in Waiter, StepOf(w), CallInv(w)
    PROVE  CallInv(w)'
<1> USE WaitAssumption DEF TypeInv, TypeOK
<1> DEFINE j == target[w]
<1>1. now' = now /\ ended' = ended
  BY TimeStands
<1>2. /\ now \in Nat /\ started[w] \in Nat /\ timeout[w] \in Nat
      /\ poll[w] \in Nat /\ MinPoll <= poll[w] /\ due[w] \in Nat
      /\ ended[j] \in Nat \cup {None} /\ observed[w] \in Nat \cup {None}
      /\ ended[j] # None => ended[j] <= now
  BY DEF EndsPassed
<1>3. ASSUME NEW kind, NEW n, Returns(w, kind, n), UNCHANGED call
      PROVE  /\ stage'[w] = "done" /\ target' = target /\ seen'[w] = "none"
             /\ started' = started /\ timeout' = timeout /\ poll' = poll
             /\ observed'[w] = None
             /\ result'[w] = [kind |-> kind, at |-> now, with |-> n]
  BY <1>3 DEF Returns, call
<1>4. ASSUME NEW kind \in {"notified", "error"}, NEW n, Returns(w, kind, n),
             UNCHANGED call
      PROVE  CallInv(w)'
  BY <1>1, <1>3, <1>4
  DEF CallInv, Punctual, Informed, Reported, Told, Active
<1>5. CASE Start(w)
  <2>1. /\ stage'[w] = "first" /\ target' = target /\ seen' = seen
        /\ started'[w] = now /\ due'[w] = now + RequestTimeout
        /\ observed' = observed /\ result' = result
        /\ stage[w] = "idle"
    BY <1>5 DEF Start
  <2>2. seen[w] = "none" /\ observed[w] = None /\ result[w].kind = "none"
    BY <2>1 DEF CallInv, Informed, Told, Active
  <2> QED
    BY <1>1, <1>2, <2>1, <2>2
    DEF CallInv, Punctual, Informed, Reported, Told, Active
<1>6. CASE Answer(w)
  <2>1. /\ stage' = stage /\ target' = target /\ due' = due
        /\ started' = started /\ timeout' = timeout /\ poll' = poll
        /\ observed' = observed /\ result' = result
        /\ stage[w] \in {"first", "asking"}
        /\ seen'[w] = IF ended[j] = None THEN "running" ELSE "terminal"
    BY <1>6 DEF Answer, call
  <2> QED
    BY <1>1, <1>2, <2>1
    DEF CallInv, Punctual, Informed, Reported, Told, Active, Deadline
<1>7. CASE Fails(w)
  BY <1>4, <1>7 DEF Fails
<1>8. CASE Begin(w)
  <2>1. /\ stage'[w] = "draining" /\ target' = target
        /\ due'[w] = now + DrainTimeout
        /\ started' = started /\ timeout' = timeout /\ poll' = poll
        /\ observed' = observed /\ result' = result
        /\ stage[w] = "first" /\ seen'[w] = "none"
    BY <1>8 DEF Begin, call
  <2>2. /\ observed[w] = None
        /\ now <= started[w] + RequestTimeout
    BY <2>1 DEF CallInv, Punctual, Informed, Active
  <2> QED
    BY <1>1, <1>2, <2>1, <2>2
    DEF CallInv, Punctual, Informed, Reported, Told, Active, Larger
<1>9. CASE Wake(w)
  <2>1. /\ stage'[w] = "draining" /\ target' = target
        /\ due'[w] = now + DrainTimeout /\ seen' = seen
        /\ started' = started /\ timeout' = timeout /\ poll' = poll
        /\ observed' = observed /\ result' = result
        /\ stage[w] = "sleeping"
    BY <1>9 DEF Wake, call
  <2>2. now <= due[w] /\ due[w] <= started[w] + timeout[w]
    BY <2>1 DEF CallInv, Punctual, Active, Deadline
  <2> QED
    BY <1>1, <1>2, <2>1, <2>2
    DEF CallInv, Punctual, Informed, Reported, Told, Active, Larger
<1>10. CASE Drain(w)
  <2>1. CASE Ask(w)
    <3>1. /\ stage'[w] = "asking" /\ target' = target
          /\ due'[w] = now + RequestTimeout /\ seen' = seen
          /\ started' = started /\ timeout' = timeout /\ poll' = poll
          /\ observed' = observed /\ result' = result
          /\ stage[w] = "draining"
      BY <1>10, <2>1 DEF Drain, Ask, call
    <3>2. seen[w] = "none" /\ now <= due[w]
      BY <3>1 DEF CallInv, Informed, Punctual, Active
    <3> QED
      BY <1>1, <1>2, <3>1, <3>2
      DEF CallInv, Punctual, Informed, Reported, Told, Active, Larger
  <2> QED
    BY <1>4, <1>10, <2>1 DEF Drain
<1>11. CASE Look(w)
  <2>1. stage[w] = "asking" /\ UNCHANGED call /\ now <= due[w]
    BY <1>11 DEF Look, CallInv, Punctual, Active
  <2>2. /\ Observed(w) \in Nat \cup {None}
        /\ Observed(w) # None =>
              /\ ended[j] # None
              /\ ended[j] <= Observed(w)
              /\ Observed(w) <= now
              /\ seen[w] = "terminal"
        /\ observed[w] # None => Observed(w) = observed[w] \/ seen[w] # "terminal"
        /\ observed[w] = None => Observed(w) \in {None, now}
    BY <1>2 DEF Observed, CallInv, Informed
  <2>3. CASE /\ seen[w] = "terminal"
             /\ GraceOver(w) \/ Late(w)
             /\ Returns(w, "missing", None)
    <3>1. ended[j] # None /\ (now >= ended[j] + Grace \/ now >= Deadline(w))
      BY <1>2, <2>2, <2>3 DEF CallInv, Informed, GraceOver, Late, Deadline
    <3> QED
      BY <1>1, <1>3, <2>1, <2>3, <3>1
      DEF CallInv, Punctual, Informed, Reported, Told, Active, Deadline
  <2>4. CASE /\ seen[w] = "running"
             /\ Late(w)
             /\ Returns(w, "timedOut", None)
    <3>1. ended[j] # None => ended[j] >= Deadline(w) - RequestTimeout
      BY <1>2, <2>1, <2>4 DEF CallInv, Informed, Deadline, Late
    <3> QED
      BY <1>1, <1>3, <2>1, <2>4, <3>1
      DEF CallInv, Punctual, Informed, Reported, Told, Active, Deadline, Late
  <2>5. CASE /\ ~GraceOver(w)
             /\ ~Late(w)
             /\ stage' = [stage EXCEPT ![w] = "sleeping"]
             /\ due' = [due EXCEPT ![w] = now + Delay(w)]
             /\ seen' = [seen EXCEPT ![w] = "none"]
             /\ observed' = [observed EXCEPT ![w] = Observed(w)]
             /\ UNCHANGED result
    <3>1. /\ stage'[w] = "sleeping" /\ due'[w] = now + Delay(w)
          /\ seen'[w] = "none" /\ observed'[w] = Observed(w)
          /\ target' = target /\ started' = started /\ timeout' = timeout
          /\ poll' = poll /\ result' = result
      BY <2>1, <2>5 DEF call
    <3>2. /\ now + Delay(w) <= Deadline(w)
          /\ Delay(w) <= poll[w]
          /\ Observed(w) # None => Delay(w) <= MinPoll
          /\ Delay(w) \in Nat
      BY <1>2, <2>5 DEF Delay, Smaller, Deadline, Late
    <3>3. Punctual(w)'
      BY <1>1, <1>2, <3>1, <3>2 DEF Punctual, Active, Deadline
    <3>4. Informed(w)'
      BY <1>1, <2>2, <3>1 DEF Informed, Active
    <3>5. Reported(w)'
      <4> DEFINE since == Larger(started[w], ended[j])
      <4>1. CASE Observed(w) = None /\ ended[j] # None
        <5>1. seen[w] = "running"
          BY <1>2, <1>11, <4>1 DEF Observed, Look
        <5>2. now <= ended[j] + RequestTimeout
          BY <1>2, <2>1, <4>1, <5>1 DEF CallInv, Informed
        <5>3. now + Delay(w) <= since + RequestTimeout + poll[w]
          BY <1>2, <3>2, <4>1, <5>2 DEF Larger
        <5> QED
          BY <1>1, <3>1, <4>1, <5>3 DEF Reported
      <4>2. CASE Observed(w) # None
        <5>1. Observed(w) <= since + 2 * RequestTimeout + poll[w] + DrainTimeout
          <6>1. CASE observed[w] = None
            BY <1>2, <2>1, <2>2, <4>2, <6>1 DEF CallInv, Reported, Larger
          <6>2. CASE observed[w] # None
            BY <1>2, <2>2, <4>2, <6>2 DEF CallInv, Reported, Larger
          <6> QED
            BY <6>1, <6>2
        <5>2. now + Delay(w) <= Observed(w) + Grace + MinPoll
          BY <1>2, <2>2, <2>5, <3>2, <4>2 DEF GraceOver
        <5> QED
          BY <1>1, <3>1, <4>2, <5>1, <5>2 DEF Reported
      <4>3. CASE Observed(w) = None /\ ended[j] = None
        BY <1>1, <3>1, <4>3 DEF Reported
      <4> QED
        BY <4>1, <4>2, <4>3
    <3>6. Told(w)'
      BY <1>1, <2>1, <3>1 DEF CallInv, Told
    <3> QED
      BY <3>3, <3>4, <3>5, <3>6 DEF CallInv
  <2> QED
    BY <1>11, <2>3, <2>4, <2>5, Zenon DEF Look
<1> QED
  BY <1>5, <1>6, <1>7, <1>8, <1>9, <1>10, <1>11 DEF StepOf, Proceed

-----------------------------------------------------------------------------
(* The store.                                                              *)

(* Another notification enters; those that are told have left.             *)
LEMMA EnterKeeps ==
    ASSUME QueueInv, NEW n, Q!Enter(n), UNCHANGED <<others, result>>
    PROVE  QueueInv'
<1>1. /\ n \notin entered
      /\ entered' = entered \cup {n}
      /\ taken' = taken
      /\ pending' \subseteq pending \cup {n}
  BY DEF Q!Enter, Q!Compacted, Q!Retained, Q!Latest
<1> QED
  BY <1>1 DEF QueueInv, NotifiedOnce

(* A drain moves notifications from what is pending to what is taken.      *)
LEMMA TakeMoves ==
    ASSUME QueueInv, NEW J, Q!Take(J)
    PROVE  /\ entered' = entered
           /\ taken' = taken \cup {n \in Q!Latest(pending) : n.job \in J}
           /\ pending' \subseteq pending
           /\ taken \cap {n \in Q!Latest(pending) : n.job \in J} = {}
           /\ taken' \subseteq entered'
           /\ pending' \cap taken' = {}
BY DEF Q!Take, Q!Latest, QueueInv

(* What a call is told has been taken by nobody else.                      *)
LEMMA StepKeepsQueue ==
    ASSUME TypeInv, NEW w \in Waiter, StepOf(w), QueueInv
    PROVE  QueueInv'
<1> USE DEF TypeInv, TypeOK
<1>1. others' = others
  BY TimeStands
<1>2. ASSUME UNCHANGED queue,
             \A v \in Waiter : \/ result'[v] = result[v]
                               \/ result'[v].kind # "notified"
      PROVE  QueueInv'
  BY <1>1, <1>2 DEF QueueInv, NotifiedOnce, queue
<1>3. CASE Start(w) \/ Answer(w) \/ Begin(w) \/ Wake(w)
  BY <1>2, <1>3 DEF Start, Answer, Begin, Wake
<1>4. CASE Fails(w)
  BY <1>2, <1>4 DEF Fails, Returns
<1>5. CASE Look(w)
  <2>1. UNCHANGED queue
    BY <1>5 DEF Look
  <2>2. \A v \in Waiter : result'[v] = result[v] \/ result'[v].kind # "notified"
    BY <1>5 DEF Look, Returns
  <2> QED
    BY <1>2, <2>1, <2>2
<1>6. CASE Drain(w)
  <2>1. CASE Ask(w)
    BY <1>2, <2>1 DEF Ask
  <2>2. CASE \E n \in Mine(w) : Returns(w, "notified", n) /\ Q!Take({target[w]})
    <3>1. PICK n \in Mine(w) : Returns(w, "notified", n)
      BY <2>2
    <3>2. Q!Take({target[w]})
      BY <2>2
    <3>3. /\ n \in {m \in Q!Latest(pending) : m.job \in {target[w]}}
          /\ result' = [result EXCEPT ![w] = [kind |-> "notified", at |-> now,
                                              with |-> n]]
      BY <3>1 DEF Mine, Returns
    <3>4. n \notin taken /\ n \in taken' /\ taken \subseteq taken'
      BY <3>2, <3>3, TakeMoves
    <3>5. NotifiedOnce'
      BY <1>1, <3>3, <3>4 DEF NotifiedOnce, QueueInv
    <3> QED
      BY <1>1, <3>2, <3>4, <3>5, TakeMoves DEF QueueInv
  <2> QED
    BY <1>6, <2>1, <2>2 DEF Drain
<1> QED
  BY <1>3, <1>4, <1>5, <1>6 DEF StepOf, Proceed

LEMMA OtherReaderKeeps ==
    ASSUME OtherReader, QueueInv
    PROVE  QueueInv'
<1>1. PICK J : Q!Take(J)
  BY DEF OtherReader
<1>2. others' = others \cup (taken' \ taken) /\ result' = result
  BY DEF OtherReader
<1> QED
  BY <1>1, <1>2, TakeMoves DEF QueueInv, NotifiedOnce

-----------------------------------------------------------------------------
LEMMA InitHolds == Init => IInv
<1> SUFFICES ASSUME Init PROVE IInv
  OBVIOUS
<1>1. TypeInv
  BY InitTyped
<1>2. EndsPassed
  BY DEF Init, EndsPassed
<1>3. ASSUME NEW w \in Waiter
      PROVE  CallInv(w)
  BY <1>3 DEF Init, CallInv, Punctual, Informed, Reported, Told, Active
<1>4. QueueInv
  BY DEF Init, Q!Init, QueueInv, NotifiedOnce
<1> QED
  BY <1>1, <1>2, <1>3, <1>4 DEF IInv

LEMMA StepHolds == IInv /\ [Next]_vars => IInv'
<1> SUFFICES ASSUME IInv, [Next]_vars PROVE IInv'
  OBVIOUS
<1>1. TypeInv'
  BY TypesKept DEF IInv
<1>2. ASSUME UNCHANGED <<now, ended>>, UNCHANGED <<stage, call, due, seen,
                                                   observed, result>>
      PROVE  EndsPassed' /\ \A w \in Waiter : CallInv(w)'
  <2>1. EndsPassed'
    BY <1>2 DEF EndsPassed, IInv
  <2>2. ASSUME NEW w \in Waiter
        PROVE  CallInv(w)'
    BY <1>2, <2>2, StaysSame DEF IInv, call
  <2> QED
    BY <2>1, <2>2
<1>3. CASE UNCHANGED vars
  <2>1. QueueInv'
    BY <1>3 DEF vars, queue, IInv, QueueInv, NotifiedOnce
  <2> QED
    BY <1>1, <1>2, <1>3, <2>1 DEF vars, IInv
<1>4. ASSUME NEW j \in Job, JobEnds(j)
      PROVE  IInv'
  <2>1. EndsPassed' /\ \A w \in Waiter : CallInv(w)'
    <3>1. EndsPassed'
      BY <1>4 DEF JobEnds, EndsPassed, IInv, TypeInv, TypeOK
    <3>2. ASSUME NEW w \in Waiter
          PROVE  CallInv(w)'
      BY <1>4, <3>2, EndKeeps DEF IInv
    <3> QED
      BY <3>1, <3>2
  <2>2. QueueInv'
    BY <1>4 DEF JobEnds, queue, IInv, QueueInv, NotifiedOnce
  <2> QED
    BY <1>1, <2>1, <2>2 DEF IInv
<1>5. ASSUME NEW j \in Job, Notified(j)
      PROVE  IInv'
  <2>1. QueueInv'
    BY <1>5, EnterKeeps DEF Notified, IInv
  <2> QED
    BY <1>1, <1>2, <1>5, <2>1 DEF Notified, IInv
<1>6. CASE OtherReader
  <2>1. QueueInv'
    BY <1>6, OtherReaderKeeps DEF IInv
  <2> QED
    BY <1>1, <1>2, <1>6, <2>1 DEF OtherReader, IInv
<1>7. CASE Tick
  <2>1. EndsPassed' /\ \A w \in Waiter : CallInv(w)'
    <3>1. EndsPassed'
      BY <1>7, WaitAssumption DEF Tick, EndsPassed, IInv, TypeInv, TypeOK
    <3>2. ASSUME NEW w \in Waiter
          PROVE  CallInv(w)'
      BY <1>7, <3>2, TickKeeps DEF IInv
    <3> QED
      BY <3>1, <3>2
  <2>2. QueueInv'
    BY <1>7 DEF Tick, queue, IInv, QueueInv, NotifiedOnce
  <2> QED
    BY <1>1, <2>1, <2>2 DEF IInv
<1>8. ASSUME NEW v \in Waiter, StepOf(v)
      PROVE  IInv'
  <2>1. now' = now /\ ended' = ended
    BY <1>8, TimeStands
  <2>2. EndsPassed'
    BY <2>1 DEF EndsPassed, IInv
  <2>3. ASSUME NEW w \in Waiter
        PROVE  CallInv(w)'
    <3>1. CASE w = v
      BY <1>1, <1>8, <2>3, <3>1, OwnStepKeeps DEF IInv
    <3>2. CASE w # v
      BY <1>8, <2>1, <2>3, <3>2, OthersStay, StaysSame DEF IInv, TypeInv
    <3> QED
      BY <3>1, <3>2
  <2>4. QueueInv'
    BY <1>8, StepKeepsQueue DEF IInv
  <2> QED
    BY <1>1, <2>2, <2>3, <2>4 DEF IInv
<1> QED
  BY <1>3, <1>4, <1>5, <1>6, <1>7, <1>8 DEF Next, StepOf

(* The invariant of the calls and their store, for any timeouts.           *)
THEOREM WaitInvariance == Spec => []IInv
<1>1. Init => IInv
  BY InitHolds
<1>2. IInv /\ [Next]_vars => IInv'
  BY StepHolds
<1> QED
  BY <1>1, <1>2, PTL DEF Spec

(* Type correctness of the calls.                                          *)
THEOREM WaitTyped == Spec => []TypeOK
<1>1. IInv => TypeOK
  BY DEF IInv, TypeInv
<1> QED
  BY <1>1, WaitInvariance, PTL

(* A call outlasts its timeout by one round at most.                       *)
THEOREM WaitsAreBounded == Spec => []WaitIsBounded
<1>1. IInv => WaitIsBounded
  <2> SUFFICES ASSUME IInv, NEW w \in Waiter, Active(w)
               PROVE  now <= started[w] + Larger(timeout[w], RequestTimeout)
                               + DrainTimeout + RequestTimeout
    BY DEF WaitIsBounded, Active
  <2>1. Punctual(w)
    BY DEF IInv, CallInv
  <2> QED
    BY <2>1, WaitAssumption
    DEF Punctual, Active, Deadline, Larger, IInv, TypeInv, TypeOK
<1> QED
  BY <1>1, WaitInvariance, PTL

(* A call that timed out did not overlook the end of its job.              *)
THEOREM TimedOutWasTrue == Spec => []TimedOutIsTrue
<1>1. IInv => TimedOutIsTrue
  BY DEF IInv, CallInv, Told, TimedOutIsTrue
<1> QED
  BY <1>1, WaitInvariance, PTL

(* A call misses the notification of an ended job, after the grace period. *)
THEOREM MissingWasTrue == Spec => []MissingIsTrue
<1>1. IInv => MissingIsTrue
  BY DEF IInv, CallInv, Told, MissingIsTrue
<1> QED
  BY <1>1, WaitInvariance, PTL

(* No two readers of the store are told the same notification.             *)
THEOREM ToldOnce == Spec => []NotifiedOnce
<1>1. IInv => NotifiedOnce
  BY DEF IInv, QueueInv
<1> QED
  BY <1>1, WaitInvariance, PTL

(* Once its job has ended a call ends in time.                             *)
THEOREM EndsAreReported == Spec => []EndIsReported
<1>1. IInv => EndIsReported
  <2> SUFFICES ASSUME IInv, NEW w \in Waiter, Active(w), ended[target[w]] # None
               PROVE  now <= Larger(started[w], ended[target[w]])
                               + 3 * RequestTimeout + 2 * DrainTimeout
                               + poll[w] + Grace + MinPoll
    BY DEF EndIsReported, Active
  <2>1. Punctual(w) /\ Informed(w) /\ Reported(w)
    BY DEF IInv, CallInv
  <2>2. /\ started[w] \in Nat /\ ended[target[w]] \in Nat /\ poll[w] \in Nat
        /\ due[w] \in Nat /\ now \in Nat /\ observed[w] \in Nat \cup {None}
        /\ stage[w] \in {"first", "draining", "asking", "sleeping"}
    <3>1. target[w] \in Job
      BY DEF IInv, TypeInv, TypeOK
    <3>2. ended[target[w]] \in Nat
      BY <3>1 DEF IInv, TypeInv, TypeOK
    <3>3. stage[w] \in {"first", "draining", "asking", "sleeping"}
      BY DEF Active, IInv, TypeInv, TypeOK
    <3>4. started[w] \in Nat /\ due[w] \in Nat /\ now \in Nat
      BY DEF IInv, TypeInv, TypeOK
    <3>5. poll[w] \in Nat /\ observed[w] \in Nat \cup {None}
      BY WaitAssumption DEF IInv, TypeInv, TypeOK
    <3> QED
      BY <3>2, <3>3, <3>4, <3>5
  <2>3. now <= due[w]
    BY <2>1 DEF Punctual
  <2>4. CASE observed[w] = None
    <3>1. CASE stage[w] = "first"
      BY <2>1, <2>2, <2>3, <3>1, WaitAssumption DEF Punctual, Larger
    <3>2. CASE stage[w] \in {"draining", "asking", "sleeping"}
      BY <2>1, <2>2, <2>3, <2>4, <3>2, WaitAssumption DEF Reported, Larger
    <3> QED
      BY <2>2, <3>1, <3>2
  <2>5. CASE observed[w] # None
    BY <2>1, <2>2, <2>3, <2>5, WaitAssumption DEF Informed, Reported, Larger
  <2> QED
    BY <2>4, <2>5
<1> QED
  BY <1>1, WaitInvariance, PTL
=============================================================================
