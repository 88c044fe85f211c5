--------------------------- MODULE OmxExecProofs ---------------------------
(***************************************************************************)
(* What OmxExecService.execute guarantees for any number of descendants,   *)
(* whatever they do, and also when signals fail and ids are used again;    *)
(* that it keeps ExecContract; and what its result shows of the output,    *)
(* for any limit and any chunks.                                           *)
(***************************************************************************)
EXTENDS OmxOutput, WellFoundedInduction, SequenceTheorems, TLAPS

(* The handlers give up a group only when it is empty.                     *)
LostGroupIsGone ==
    started = "spawned" /\ ~owned => Settled \/ Group = {}

(* Before the spawn nothing has happened, and only a spawned child is      *)
(* owned or has closed.                                                    *)
StagesInOrder ==
    /\ started \in {"resolving", "never"} =>
          armed = {} /\ ~terminating /\ ~owned
    /\ owned \/ closed => started = "spawned"
    /\ started = "resolving" => ~Settled

(* The flags say which signals have come, and the timers of the escalation *)
(* run only after one has, on a group that is still owned.                 *)
FlagsFollowSignals ==
    /\ terminating <=> cancelled \/ timedOut
    /\ started = "spawned" /\ ~Settled =>
          /\ cancelled <=> aborted
          /\ "abort" \in armed <=> ~aborted
    /\ "kill" \in armed \/ "poll" \in armed => terminating /\ owned

ExecInv ==
    /\ TypeOK
    /\ StagesInOrder
    /\ FlagsFollowSignals
    /\ LostGroupIsGone
    /\ NothingArmedOnceSettled
    /\ StoppedGroupIsGone

(* SIGKILL empties the group, so the invariant survives the SIGKILL timer, *)
(* which settles a closed run at once.                                     *)
LEMMA KillTimerStep ==
    ASSUME ExecInv, OnKillTimer
    PROVE  ExecInv'
<1> USE ProcessAssumption DEF ExecInv, TypeOK, Process, Result, Failure, Settled,
        Group, Finish, StagesInOrder, FlagsFollowSignals, LostGroupIsGone,
        NothingArmedOnceSettled, StoppedGroupIsGone, handlers
<1>1. started = "spawned" /\ terminating /\ owned /\ ~Settled
  BY DEF OnKillTimer
<1>2. CASE "sent" \in Delivery /\ SigkillReaches /\ GiveUpGroup
  <2>1. Group' = {}
    BY <1>2 DEF SigkillReaches
  <2> QED
    BY <1>1, <1>2, <2>1
    DEF OnKillTimer, SigkillReaches, GiveUpGroup, FinishTerminated
<1>3. CASE Finish("execution_error") /\ UNCHANGED processes
  BY <1>1, <1>3 DEF OnKillTimer, processes
<1>4. CASE "gone" \in Delivery /\ GiveUpGroup /\ UNCHANGED processes
  <2>1. Group = {}
    BY <1>1, <1>4 DEF Delivery, GroupAnswers
  <2> QED
    BY <1>1, <1>4, <2>1
    DEF OnKillTimer, GiveUpGroup, FinishTerminated, processes
<1> QED
  BY <1>2, <1>3, <1>4 DEF OnKillTimer

(* terminate keeps what it finds, except for the group it has lost.        *)
LEMMA TerminateStep ==
    ASSUME ExecInv, OnTimeout \/ OnAbort
    PROVE  ExecInv'
<1> USE ProcessAssumption DEF ExecInv, TypeOK, Process, Result, Failure, Settled,
        Group, Finish, StagesInOrder, FlagsFollowSignals, LostGroupIsGone,
        NothingArmedOnceSettled, StoppedGroupIsGone, handlers, ownership,
        processes
<1>1. ASSUME NEW left, left \subseteq armed, Terminate(left), ~Settled
      PROVE  /\ terminating' = TRUE
             /\ armed' \subseteq {"timeout", "abort", "kill", "poll"}
             /\ result' \in {"none", "execution_error"}
             /\ result' = "none" =>
                   /\ armed' \in {left, left \cup {"kill"}}
                   /\ "abort" \in armed' <=> "abort" \in left
                   /\ owned' => owned
                   /\ "kill" \in armed' => owned'
                   /\ "poll" \in armed' => owned'
                   /\ started = "spawned" /\ ~owned' => Group = {}
             /\ result' = "execution_error" =>
                   owned /\ armed' = {} /\ ~owned'
             /\ owned' \in BOOLEAN
  <2>1. CASE /\ terminating
             /\ armed' = left
             /\ UNCHANGED <<result, owned>>
    BY <1>1, <2>1 DEF Terminate
  <2>2. CASE /\ ~terminating
             /\ "sent" \in Delivery
             /\ armed' = left \cup {"kill"}
             /\ UNCHANGED <<result, owned>>
    BY <1>1, <2>2 DEF Terminate, Delivery
  <2>3. CASE ~terminating /\ "refused" \in Delivery /\ Finish("execution_error")
    BY <1>1, <2>3 DEF Terminate, Delivery
  <2>4. CASE /\ ~terminating
             /\ Delivery \cap {"unowned", "gone"} # {}
             /\ armed' = left
             /\ owned' = FALSE
             /\ UNCHANGED result
    <3>1. started = "spawned" => Group = {}
      BY <1>1, <2>4 DEF Delivery, GroupAnswers
    <3> QED
      BY <1>1, <2>4, <3>1 DEF Terminate
  <2> QED
    BY <1>1, <2>1, <2>2, <2>3, <2>4 DEF Terminate
<1>2. CASE OnTimeout
  <2>1. ~Settled /\ Terminate(armed \ {"timeout"})
    BY <1>2 DEF OnTimeout
  <2>7. TypeOK'
    BY <1>1, <1>2, <2>1 DEF OnTimeout
  <2>2. StagesInOrder'
    BY <1>1, <1>2, <2>1 DEF OnTimeout
  <2>3. FlagsFollowSignals'
    <3>1. /\ timedOut' = TRUE
          /\ UNCHANGED <<started, aborted, cancelled>>
      BY <1>2 DEF OnTimeout
    <3>2. /\ terminating' = TRUE
          /\ result' \in {"none", "execution_error"}
          /\ result' = "execution_error" => armed' = {}
      BY <2>1 DEF Terminate, Delivery, GroupAnswers
    <3>6. ASSUME result' = "none"
          PROVE  "abort" \in armed' <=> "abort" \in armed
      BY <2>1, <3>6 DEF Terminate, Delivery, GroupAnswers
    <3>7. ASSUME result' = "none", "kill" \in armed' \/ "poll" \in armed'
          PROVE  owned'
      BY <2>1, <3>7 DEF Terminate, Delivery, GroupAnswers
    <3>3. terminating' <=> cancelled' \/ timedOut'
      BY <3>1, <3>2
    <3>4. started' = "spawned" /\ ~Settled' =>
             /\ cancelled' <=> aborted'
             /\ "abort" \in armed' <=> ~aborted'
      BY <2>1, <3>1, <3>2, <3>6
    <3>5. "kill" \in armed' \/ "poll" \in armed' => terminating' /\ owned'
      BY <3>2, <3>7
    <3> QED
      BY <3>3, <3>4, <3>5
  <2>4. LostGroupIsGone'
    BY <1>1, <1>2, <2>1 DEF OnTimeout
  <2>5. NothingArmedOnceSettled'
    BY <1>1, <1>2, <2>1 DEF OnTimeout
  <2>6. StoppedGroupIsGone'
    BY <1>1, <1>2, <2>1 DEF OnTimeout
  <2> QED
    BY <2>2, <2>3, <2>4, <2>5, <2>6, <2>7
<1>3. CASE OnAbort /\ "abort" \in armed
  <2>1. ~Settled /\ Terminate(armed \ {"abort"})
    BY <1>3 DEF OnAbort
  <2>7. TypeOK'
    BY <1>1, <1>3, <2>1 DEF OnAbort
  <2>2. StagesInOrder'
    BY <1>1, <1>3, <2>1 DEF OnAbort
  <2>3. FlagsFollowSignals'
    <3>1. /\ aborted' = TRUE /\ cancelled' = TRUE
          /\ UNCHANGED <<started, timedOut>>
      BY <1>3 DEF OnAbort
    <3>2. /\ terminating' = TRUE
          /\ result' \in {"none", "execution_error"}
          /\ result' = "execution_error" => armed' = {}
      BY <2>1 DEF Terminate, Delivery, GroupAnswers
    <3>6. ASSUME result' = "none"
          PROVE  "abort" \in armed' <=> FALSE
      BY <2>1, <3>6 DEF Terminate, Delivery, GroupAnswers
    <3>7. ASSUME result' = "none", "kill" \in armed' \/ "poll" \in armed'
          PROVE  owned'
      BY <2>1, <3>7 DEF Terminate, Delivery, GroupAnswers
    <3>3. terminating' <=> cancelled' \/ timedOut'
      BY <3>1, <3>2
    <3>4. started' = "spawned" /\ ~Settled' =>
             /\ cancelled' <=> aborted'
             /\ "abort" \in armed' <=> ~aborted'
      BY <2>1, <3>1, <3>2, <3>6
    <3>5. "kill" \in armed' \/ "poll" \in armed' => terminating' /\ owned'
      BY <3>2, <3>7
    <3> QED
      BY <3>3, <3>4, <3>5
  <2>4. LostGroupIsGone'
    BY <1>1, <1>3, <2>1 DEF OnAbort
  <2>5. NothingArmedOnceSettled'
    BY <1>1, <1>3, <2>1 DEF OnAbort
  <2>6. StoppedGroupIsGone'
    BY <1>1, <1>3, <2>1 DEF OnAbort
  <2> QED
    BY <2>2, <2>3, <2>4, <2>5, <2>6, <2>7
<1>4. CASE OnAbort /\ "abort" \notin armed
  <2>1. /\ aborted' = TRUE
        /\ UNCHANGED <<started, handlers, ownership, processes>>
    BY <1>4 DEF OnAbort
  <2> QED
    BY <1>4, <2>1 DEF OnAbort
<1> QED
  BY <1>2, <1>3, <1>4

(* close and the poll settle a stopped run only on an empty group.         *)
LEMMA CloseStep ==
    ASSUME ExecInv, OnClose \/ OnPoll
    PROVE  ExecInv'
<1> USE ProcessAssumption DEF ExecInv, TypeOK, Process, Result, Failure, Settled,
        Group, Finish, StagesInOrder, FlagsFollowSignals, LostGroupIsGone,
        NothingArmedOnceSettled, StoppedGroupIsGone, handlers, processes,
        FinishTerminated, GroupAnswers
<1>1. CASE OnClose
  <2>1. TypeOK'
    BY <1>1 DEF OnClose, CloseIsDue, CloseResult
  <2>2. StagesInOrder'
    BY <1>1 DEF OnClose, CloseIsDue, CloseResult
  <2>3. FlagsFollowSignals'
    BY <1>1 DEF OnClose, CloseIsDue, CloseResult
  <2>4. LostGroupIsGone'
    BY <1>1 DEF OnClose, CloseIsDue, CloseResult
  <2>5. NothingArmedOnceSettled'
    BY <1>1 DEF OnClose, CloseIsDue, CloseResult
  <2>6. StoppedGroupIsGone'
    BY <1>1 DEF OnClose, CloseIsDue, CloseResult
  <2> QED
    BY <2>1, <2>2, <2>3, <2>4, <2>5, <2>6
<1>2. CASE OnPoll
  BY <1>2 DEF OnPoll
<1> QED
  BY <1>1, <1>2

(* A settled group stays empty: only its own members could enlarge it.     *)
LEMMA EnvironmentStep ==
    ASSUME ExecInv, Environment
    PROVE  ExecInv'
<1> USE ProcessAssumption DEF Process, Group
<1>1. Group' \subseteq Process /\ (Group = {} => Group' = {})
  BY DEF Environment, ProcessStep, Fork, LeaveGroup, ClosePipes, Die, ReusePid,
         ExecInv, TypeOK
<1>2. TypeOK'
  <2> USE DEF ExecInv, TypeOK, Environment, handlers, ownership, Result, Failure
  <2>1. ASSUME NEW p \in Process, NEW d \in Descendant, Fork(p, d)
        PROVE  TypeOK'
    BY <2>1 DEF Fork
  <2>2. ASSUME NEW p \in Process, LeaveGroup(p)
        PROVE  TypeOK'
    BY <2>2 DEF LeaveGroup
  <2>3. ASSUME NEW p \in Process, ClosePipes(p)
        PROVE  TypeOK'
    BY <2>3 DEF ClosePipes
  <2>4. ASSUME NEW p \in Process, Die(p)
        PROVE  TypeOK'
    BY <2>4 DEF Die
  <2>5. CASE ReusePid
    BY <2>5 DEF ReusePid
  <2> QED
    BY <2>1, <2>2, <2>3, <2>4, <2>5 DEF ProcessStep
<1> QED
  BY <1>1, <1>2
  DEF ExecInv, StagesInOrder, FlagsFollowSignals, LostGroupIsGone,
      NothingArmedOnceSettled, StoppedGroupIsGone, Settled, Environment,
      handlers, ownership

(* What happens up to the spawn, and the events that touch no group.       *)
LEMMA EarlyStep ==
    ASSUME ExecInv,
           \/ RefuseCwd \/ CancelledBeforeSpawn \/ Spawn \/ SpawnFails
           \/ OnError \/ OnStdinError
    PROVE  ExecInv'
<1> USE ProcessAssumption DEF ExecInv, TypeOK, Process, Result, Failure, Settled,
        Group, StagesInOrder, FlagsFollowSignals, LostGroupIsGone,
        NothingArmedOnceSettled, StoppedGroupIsGone, handlers, ownership,
        processes
<1>1. CASE RefuseCwd \/ CancelledBeforeSpawn
  <2>1. TypeOK'
    BY <1>1 DEF RefuseCwd, CancelledBeforeSpawn
  <2>2. StagesInOrder'
    <3>1. /\ started = "resolving" /\ started' = "never"
          /\ UNCHANGED <<armed, terminating, owned, closed>>
      BY <1>1 DEF RefuseCwd, CancelledBeforeSpawn
    <3> QED
      BY <3>1
  <2>3. FlagsFollowSignals'
    BY <1>1 DEF RefuseCwd, CancelledBeforeSpawn
  <2>4. LostGroupIsGone'
    BY <1>1 DEF RefuseCwd, CancelledBeforeSpawn
  <2>5. NothingArmedOnceSettled'
    BY <1>1 DEF RefuseCwd, CancelledBeforeSpawn
  <2>6. StoppedGroupIsGone'
    BY <1>1 DEF RefuseCwd, CancelledBeforeSpawn
  <2> QED
    BY <2>1, <2>2, <2>3, <2>4, <2>5, <2>6
<1>2. CASE Spawn \/ SpawnFails
  <2>1. TypeOK'
    BY <1>2 DEF Spawn, SpawnFails
  <2>2. StagesInOrder'
    BY <1>2 DEF Spawn, SpawnFails
  <2>3. FlagsFollowSignals'
    BY <1>2 DEF Spawn, SpawnFails
  <2>4. LostGroupIsGone'
    BY <1>2 DEF Spawn, SpawnFails
  <2>5. NothingArmedOnceSettled'
    BY <1>2 DEF Spawn, SpawnFails
  <2>6. StoppedGroupIsGone'
    BY <1>2 DEF Spawn, SpawnFails
  <2> QED
    BY <2>1, <2>2, <2>3, <2>4, <2>5, <2>6
<1>3. CASE OnError
  <2>1. TypeOK'
    BY <1>3 DEF OnError, Finish
  <2>2. StagesInOrder'
    BY <1>3 DEF OnError, Finish
  <2>3. FlagsFollowSignals'
    BY <1>3 DEF OnError, Finish
  <2>4. LostGroupIsGone'
    BY <1>3 DEF OnError, Finish
  <2>5. NothingArmedOnceSettled'
    BY <1>3 DEF OnError, Finish
  <2>6. StoppedGroupIsGone'
    BY <1>3 DEF OnError, Finish
  <2> QED
    BY <2>1, <2>2, <2>3, <2>4, <2>5, <2>6
<1>4. CASE OnStdinError
  <2>1. TypeOK'
    BY <1>4 DEF OnStdinError
  <2>2. StagesInOrder'
    BY <1>4 DEF OnStdinError
  <2>3. FlagsFollowSignals'
    BY <1>4 DEF OnStdinError
  <2>4. LostGroupIsGone'
    BY <1>4 DEF OnStdinError
  <2>5. NothingArmedOnceSettled'
    BY <1>4 DEF OnStdinError
  <2>6. StoppedGroupIsGone'
    BY <1>4 DEF OnStdinError
  <2> QED
    BY <2>1, <2>2, <2>3, <2>4, <2>5, <2>6
<1> QED
  BY <1>1, <1>2, <1>3, <1>4

(* The handlers never leave the group to itself, and settle one time, as   *)
(* the signals that have come demand.                                      *)
THEOREM ExecInvariance == Spec => []ExecInv
<1>1. Init => ExecInv
  BY DEF Init, ExecInv, TypeOK, Result, Settled, Group, StagesInOrder,
         FlagsFollowSignals, LostGroupIsGone, NothingArmedOnceSettled,
         StoppedGroupIsGone
<1>2. ExecInv /\ UNCHANGED vars => ExecInv'
  BY DEF vars, handlers, ownership, processes, ExecInv, TypeOK, Settled, Group,
         StagesInOrder, FlagsFollowSignals, LostGroupIsGone,
         NothingArmedOnceSettled, StoppedGroupIsGone
<1>3. ExecInv /\ [Next]_vars => ExecInv'
  BY <1>2, EarlyStep, CloseStep, TerminateStep, KillTimerStep, EnvironmentStep
  DEF Next, Handler
<1> QED
  BY <1>1, <1>3, PTL DEF Spec

(* A run that ends as cancelled or timed out leaves nothing of its process *)
(* group behind.                                                           *)
THEOREM NothingLeftBehind == Spec => []StoppedGroupIsGone
<1>1. ExecInv => StoppedGroupIsGone
  BY DEF ExecInv
<1> QED
  BY <1>1, ExecInvariance, PTL

(* A settled run has no timer, listener or group left.                     *)
THEOREM NothingLeftArmed == Spec => []NothingArmedOnceSettled
<1>1. ExecInv => NothingArmedOnceSettled
  BY DEF ExecInv
<1> QED
  BY <1>1, ExecInvariance, PTL

(* The promise is settled once, and with a result that fits the signals    *)
(* that have come: what JobRunner takes for granted of a run.              *)
THEOREM SettledOnce == Spec => SettlesAsAsked
<1> DEFINE Fits ==
      result' # result =>
          /\ ~Settled
          /\ result' \in
                IF aborted' /\ started' = "spawned"
                THEN {"cancelled", "execution_error"}
                ELSE IF timedOut' /\ started' = "spawned"
                THEN {"timeout", "execution_error"}
                ELSE Result \ {"none", "timeout"}
          /\ result' = "cancelled" => aborted'
<1>1. ASSUME ExecInv, [Next]_vars
      PROVE  Fits
  <2> USE <1>1 DEF ExecInv, TypeOK, Result, Failure, Settled, StagesInOrder,
        FlagsFollowSignals, NothingArmedOnceSettled, handlers, ownership,
        Finish, FinishTerminated
  <2>1. CASE RefuseCwd \/ CancelledBeforeSpawn \/ Spawn \/ SpawnFails
    BY <2>1 DEF RefuseCwd, CancelledBeforeSpawn, Spawn, SpawnFails
  <2>2. CASE OnError \/ OnStdinError
    BY <2>2 DEF OnError, OnStdinError
  <2>3. CASE OnClose
    BY <2>3 DEF OnClose, CloseIsDue, CloseResult
  <2>4. CASE OnPoll
    BY <2>4 DEF OnPoll
  <2>5. CASE OnTimeout \/ OnAbort
    BY <2>5 DEF OnTimeout, OnAbort, Terminate, Delivery
  <2>6. CASE OnKillTimer
    BY <2>6 DEF OnKillTimer, GiveUpGroup
  <2>7. CASE Environment \/ UNCHANGED vars
    BY <2>7 DEF Environment, vars
  <2> QED
    BY <2>1, <2>2, <2>3, <2>4, <2>5, <2>6, <2>7 DEF Next, Handler
<1>2. ExecInv /\ [Next]_vars => [Fits]_vars
  BY <1>1
<1> QED
  BY <1>2, ExecInvariance, PTL DEF Spec, SettlesAsAsked

-----------------------------------------------------------------------------
(* What the runner counts on: an execution is one of ExecContract, with    *)
(* its events, timers, signals and processes left out.                     *)
Stage ==
    IF started = "resolving" THEN "starting"
    ELSE IF Settled THEN "settled" ELSE "executing"

Outcome ==
    IF result \in {"none", "succeeded", "cancelled"} THEN result ELSE "failed"

Contract ==
    INSTANCE ExecContract
    WITH stage <- Stage, signalled <- aborted, outcome <- Outcome

(* A handler that settles ends the execution with what the signals allow;  *)
(* one that does not is no step of the contract.                           *)
LEMMA ContractStep ==
    ASSUME ExecInv, [Next]_vars
    PROVE  [Contract!Next]_Contract!contractVars
<1> USE DEF ExecInv, TypeOK, Result, Failure, Settled, Stage, Outcome,
        StagesInOrder, FlagsFollowSignals, NothingArmedOnceSettled, handlers,
        ownership, Finish, FinishTerminated, Contract!Next, Contract!contractVars
<1>1. CASE RefuseCwd \/ CancelledBeforeSpawn
  BY <1>1 DEF RefuseCwd, CancelledBeforeSpawn, Contract!Refuse, Contract!Settle
<1>2. CASE Spawn \/ SpawnFails
  BY <1>2 DEF Spawn, SpawnFails, Contract!Spawn
<1>3. ASSUME started # "resolving", ~Settled, Settled', UNCHANGED <<started, aborted>>,
             result' \in IF aborted THEN Result \ {"none", "succeeded"}
                                    ELSE Result \ {"none", "cancelled"}
      PROVE  Contract!End
  BY <1>3 DEF Contract!End, Contract!Settle
<1>4. ASSUME UNCHANGED <<started, aborted, result>>
      PROVE  UNCHANGED Contract!contractVars
  BY <1>4
<1>5. CASE OnError
  BY <1>3, <1>5 DEF OnError
<1>6. CASE OnStdinError \/ Environment \/ UNCHANGED vars
  BY <1>4, <1>6 DEF OnStdinError, Environment, vars
<1>7. CASE OnClose
  BY <1>3, <1>4, <1>7 DEF OnClose, CloseIsDue, CloseResult
<1>8. CASE OnPoll
  BY <1>3, <1>4, <1>8 DEF OnPoll
<1>9. CASE OnTimeout
  BY <1>3, <1>4, <1>9 DEF OnTimeout, Terminate, Delivery
<1>10. CASE OnKillTimer
  BY <1>3, <1>4, <1>10 DEF OnKillTimer, GiveUpGroup, Delivery
<1>11. CASE OnAbort
  BY <1>11 DEF OnAbort, Terminate, Delivery, Contract!Signal, Contract!Settle
<1> QED
  BY <1>1, <1>2, <1>5, <1>6, <1>7, <1>8, <1>9, <1>10, <1>11 DEF Next, Handler

(* execute keeps its contract, whatever the child and its descendants do,  *)
(* and also when signals fail and ids are used again.                      *)
THEOREM ExecKeepsContract == Spec => Contract!Spec
<1>1. Init => Contract!Init
  BY DEF Init, Contract!Init, Stage, Outcome, Settled
<1>2. ExecInv /\ [Next]_vars => [Contract!Next]_Contract!contractVars
  BY ContractStep
<1> QED
  BY <1>1, <1>2, ExecInvariance, PTL DEF Spec, Contract!Spec

(* A child outlives its execution only when a signal could not be sent: a  *)
(* slot that is given away otherwise has nothing running in it.            *)
ChildIsOver ==
    started = "spawned" /\ Settled /\ Leader \in alive
        => result = "execution_error"

LEMMA ChildIsOverStep ==
    ASSUME ExecInv, ExecInv', [Next]_vars, ChildIsOver
    PROVE  ChildIsOver'
<1> USE ProcessAssumption DEF ChildIsOver, Settled, handlers, ownership, processes
<1>1. ASSUME result' \in {"cancelled", "timeout"}
      PROVE  ChildIsOver'
  BY <1>1 DEF ExecInv, TypeOK, StoppedGroupIsGone, Group
<1>2. Leader \in alive' => Leader \in alive \/ Spawn
  <2>1. Environment => (Leader \in alive' => Leader \in alive)
    BY DEF Environment, ProcessStep, Fork, LeaveGroup, ClosePipes, Die, ReusePid
  <2> QED
    BY <2>1 DEF Next, Handler, RefuseCwd, CancelledBeforeSpawn, SpawnFails, OnError,
       OnStdinError, OnClose, OnPoll, OnTimeout, OnKillTimer, SigkillReaches,
       OnAbort, vars
<1>3. CASE RefuseCwd \/ CancelledBeforeSpawn \/ SpawnFails \/ OnError
  BY <1>3 DEF RefuseCwd, CancelledBeforeSpawn, SpawnFails, OnError
<1>4. CASE Spawn
  BY <1>4 DEF Spawn, ExecInv, StagesInOrder
<1>5. CASE OnStdinError \/ Environment \/ UNCHANGED vars
  BY <1>2, <1>5 DEF OnStdinError, Environment, Spawn, vars
<1>6. CASE OnClose
  BY <1>1, <1>6 DEF OnClose, CloseIsDue, CloseResult, Finish, FinishTerminated
<1>7. CASE OnPoll
  BY <1>1, <1>7 DEF OnPoll, Finish, FinishTerminated
<1>8. CASE OnTimeout \/ OnAbort
  BY <1>8 DEF OnTimeout, OnAbort, Terminate, Finish
<1>9. CASE OnKillTimer
  BY <1>1, <1>9 DEF OnKillTimer, GiveUpGroup, SigkillReaches, Finish, FinishTerminated
<1> QED
  BY <1>3, <1>4, <1>5, <1>6, <1>7, <1>8, <1>9 DEF Next, Handler

(* No result but execution_error leaves the child alive, so a success, a   *)
(* failure by exit code, a timeout and a cancellation all free their slot. *)
THEOREM ChildEndsFirst == Spec => []ChildIsOver
<1>1. Init => ChildIsOver
  BY DEF Init, ChildIsOver
<1>2. ExecInv /\ ExecInv' /\ [Next]_vars /\ ChildIsOver => ChildIsOver'
  BY ChildIsOverStep
<1> QED
  BY <1>1, <1>2, ExecInvariance, PTL DEF Spec

-----------------------------------------------------------------------------
(* Induction over the numbers, from the order of the naturals.             *)

LEMMA LeastOf ==
    ASSUME NEW T, T \subseteq Nat, T # {}
    PROVE  \E m \in T : \A n \in T : m <= n
<1> DEFINE R == OpToRel(<, Nat)
<1>1. IsWellFoundedOn(R, Nat)
  BY NatLessThanWellFounded
<1> HIDE DEF R
<1>2. PICK m \in T : \A n \in T : ~(<<n, m>> \in R)
  BY <1>1, WFMin
<1>3. \A n \in T : ~(n < m)
  BY <1>2 DEF R, OpToRel
<1> QED
  BY <1>3

LEMMA EveryNumber ==
    ASSUME NEW T \in SUBSET Nat, 0 \in T, \A n \in T : n + 1 \in T
    PROVE  \A n \in Nat : n \in T
<1> SUFFICES ASSUME Nat \ T # {} PROVE FALSE
  OBVIOUS
<1>1. PICK m \in Nat \ T : \A n \in Nat \ T : m <= n
  <2> DEFINE S == Nat \ T
  <2>1. S \subseteq Nat /\ S # {}
    OBVIOUS
  <2> HIDE DEF S
  <2>2. \E m \in S : \A n \in S : m <= n
    BY <2>1, LeastOf
  <2> QED
    BY <2>2 DEF S
<1>2. m # 0 /\ m - 1 \in Nat /\ (m - 1) + 1 = m
  OBVIOUS
<1>3. m - 1 \in T
  BY <1>1, <1>2
<1>4. (m - 1) + 1 \in T
  BY <1>3
<1> QED
  BY <1>2, <1>4

-----------------------------------------------------------------------------
(* How many digits a number has.                                           *)

(* The first n powers.                                                     *)
Begins(g, n) == /\ g \in [0 .. n -> Nat]
                /\ g[0] = 1
                /\ \A i \in 1 .. n : g[i] = Radix * g[i - 1]

LEMMA BeginningsExist == \A n \in Nat : \E g : Begins(g, n)
<1> DEFINE T == {n \in Nat : \E g : Begins(g, n)}
<1>1. 0 \in T
  <2>1. Begins([i \in 0 .. 0 |-> 1], 0)
    BY DEF Begins
  <2> QED
    BY <2>1
<1>2. ASSUME NEW n \in T
      PROVE  n + 1 \in T
  <2>1. PICK g : Begins(g, n)
    OBVIOUS
  <2> DEFINE h == [i \in 0 .. n + 1 |-> IF i = n + 1 THEN Radix * g[n] ELSE g[i]]
  <2>2. Radix * g[n] \in Nat
    BY <2>1, OutputAssumption DEF Begins
  <2>3. h \in [0 .. n + 1 -> Nat]
    BY <2>1, <2>2 DEF Begins
  <2>4. h[0] = 1 /\ h[n + 1] = Radix * g[n] /\ \A i \in 0 .. n : h[i] = g[i]
    BY <2>1 DEF Begins
  <2> HIDE DEF h
  <2>5. \A i \in 1 .. n + 1 : h[i] = Radix * h[i - 1]
    <3> SUFFICES ASSUME NEW i \in 1 .. n + 1 PROVE h[i] = Radix * h[i - 1]
      OBVIOUS
    <3>1. i - 1 \in 0 .. n /\ h[i - 1] = g[i - 1]
      BY <2>4
    <3>2. CASE i = n + 1
      BY <2>4, <3>1, <3>2
    <3>3. CASE i # n + 1
      <4>1. i \in 1 .. n /\ i \in 0 .. n
        BY <3>3
      <4> QED
        BY <2>1, <2>4, <3>1, <4>1 DEF Begins
    <3> QED
      BY <3>2, <3>3
  <2>6. Begins(h, n + 1)
    BY <2>3, <2>4, <2>5 DEF Begins
  <2> QED
    BY <2>6
<1>3. T \in SUBSET Nat
  OBVIOUS
<1> HIDE DEF T
<1>4. \A n \in Nat : n \in T
  BY <1>1, <1>2, <1>3, EveryNumber
<1> QED
  BY <1>4 DEF T

LEMMA BeginningsAgree ==
    ASSUME NEW m \in Nat, NEW n \in Nat, NEW g, NEW h, Begins(g, m), Begins(h, n)
    PROVE  \A i \in Nat : i <= m /\ i <= n => g[i] = h[i]
<1> DEFINE T == {i \in Nat : i <= m /\ i <= n => g[i] = h[i]}
<1>1. 0 \in T
  BY DEF Begins
<1>2. ASSUME NEW i \in T
      PROVE  i + 1 \in T
  <2> SUFFICES ASSUME i + 1 <= m, i + 1 <= n
               PROVE  g[i + 1] = h[i + 1]
    OBVIOUS
  <2>1. i + 1 \in 1 .. m /\ i + 1 \in 1 .. n /\ (i + 1) - 1 = i
    OBVIOUS
  <2>2. g[i] = h[i]
    OBVIOUS
  <2>3. g[i + 1] = Radix * g[i] /\ h[i + 1] = Radix * h[i]
    BY <2>1 DEF Begins
  <2> QED
    BY <2>2, <2>3
<1>3. T \in SUBSET Nat
  OBVIOUS
<1> HIDE DEF T
<1>4. \A i \in Nat : i \in T
  BY <1>1, <1>2, <1>3, EveryNumber
<1> QED
  BY <1>4 DEF T

(* What the recursive function computes: the powers of the radix.          *)
LEMMA PowerDefined == Power = [d \in Nat |-> IF d = 0 THEN 1 ELSE Radix * Power[d - 1]]
<1> DEFINE F(n) == CHOOSE g : Begins(g, n)
           f == [d \in Nat |-> F(d)[d]]
           e == [d \in Nat |-> IF d = 0 THEN 1 ELSE Radix * f[d - 1]]
<1>1. \A n \in Nat : Begins(F(n), n)
  BY BeginningsExist
<1> HIDE DEF F
<1>2. ASSUME NEW d \in Nat
      PROVE  f[d] = e[d]
  <2>1. CASE d = 0
    BY <1>1, <2>1 DEF Begins
  <2>2. CASE d # 0
    <3>1. d - 1 \in Nat /\ d \in 1 .. d
      BY <2>2
    <3>2. F(d)[d] = Radix * F(d)[d - 1]
      BY <1>1, <3>1 DEF Begins
    <3>3. F(d)[d - 1] = F(d - 1)[d - 1]
      <4>1. Begins(F(d), d) /\ Begins(F(d - 1), d - 1)
        BY <1>1, <3>1
      <4>2. d - 1 <= d /\ d - 1 <= d - 1
        BY <3>1
      <4> QED
        BY <3>1, <4>1, <4>2, BeginningsAgree
    <3> QED
      BY <2>2, <3>1, <3>2, <3>3
  <2> QED
    BY <2>1, <2>2
<1>3. f = e
  BY <1>2
<1>4. \E p : p = [d \in Nat |-> IF d = 0 THEN 1 ELSE Radix * p[d - 1]]
  <2> HIDE DEF f
  <2> QED
    BY <1>3
<1> QED
  BY <1>4 DEF Power

LEMMA PowerGives ==
    /\ Power \in [Nat -> Nat \ {0}]
    /\ Power[0] = 1
    /\ \A n \in Nat : Power[n + 1] = Radix * Power[n]
<1>1. \A d \in Nat : Power[d] = IF d = 0 THEN 1 ELSE Radix * Power[d - 1]
  <2> DEFINE G(p, d) == IF d = 0 THEN 1 ELSE Radix * p[d - 1]
  <2>1. Power = [d \in Nat |-> G(Power, d)]
    BY PowerDefined
  <2> HIDE DEF G
  <2>2. \A d \in Nat : Power[d] = G(Power, d)
    BY <2>1
  <2> QED
    BY <2>2 DEF G
<1>2. Power[0] = 1
  BY <1>1
<1>3. ASSUME NEW n \in Nat
      PROVE  Power[n + 1] = Radix * Power[n]
  <2>1. n + 1 \in Nat /\ n + 1 # 0 /\ (n + 1) - 1 = n
    OBVIOUS
  <2> QED
    BY <1>1, <2>1
<1> DEFINE T == {n \in Nat : Power[n] \in Nat \ {0}}
<1>4. ASSUME NEW n \in T
      PROVE  n + 1 \in T
  <2>1. Radix * Power[n] \in Nat \ {0}
    BY OutputAssumption
  <2> QED
    BY <1>3, <2>1
<1>5. 0 \in T /\ T \in SUBSET Nat
  BY <1>2
<1> HIDE DEF T
<1>6. \A n \in Nat : n \in T
  BY <1>4, <1>5, EveryNumber
<1>7. \A n \in Nat : Power[n] \in Nat \ {0}
  BY <1>6 DEF T
<1>8. Power = [d \in Nat |-> Power[d]]
  <2> DEFINE H(d) == IF d = 0 THEN 1 ELSE Radix * Power[d - 1]
  <2>1. Power = [d \in Nat |-> H(d)]
    BY PowerDefined
  <2> HIDE DEF H
  <2> QED
    BY <2>1
<1> QED
  BY <1>2, <1>3, <1>7, <1>8

LEMMA PowerDoubles ==
    ASSUME NEW i \in Nat
    PROVE  Power[i + 1] >= 2 * Power[i]
<1>1. Power[i] \in Nat /\ Power[i + 1] = Radix * Power[i]
  BY PowerGives
<1>2. Radix - 2 \in Nat /\ (Radix - 2) + 2 = Radix
  BY OutputAssumption
<1>3. ASSUME NEW p \in Nat, NEW r \in Nat
      PROVE  (r + 2) * p >= 2 * p
  <2>1. (r + 2) * p = r * p + 2 * p /\ r * p \in Nat
    OBVIOUS
  <2> QED
    BY <2>1
<1>4. ((Radix - 2) + 2) * Power[i] >= 2 * Power[i]
  BY <1>1, <1>2, <1>3
<1> QED
  BY <1>1, <1>2, <1>4

LEMMA PowerGrows ==
    ASSUME NEW n \in Nat
    PROVE  /\ Power[n] >= n + 1
           /\ \A i \in 0 .. n : Power[i] <= Power[n]
<1>1. ASSUME NEW i \in Nat
      PROVE  Power[i + 1] >= 2 * Power[i] /\ Power[i] \in Nat /\ Power[i + 1] \in Nat
  BY PowerGives, PowerDoubles
<1> DEFINE T == {j \in Nat : /\ Power[j] >= j + 1
                             /\ \A i \in 0 .. j : Power[i] <= Power[j]}
<1>2. 0 \in T /\ T \in SUBSET Nat
  BY PowerGives
<1>3. ASSUME NEW j \in T
      PROVE  j + 1 \in T
  <2>1. Power[j + 1] >= 2 * Power[j] /\ Power[j] \in Nat /\ Power[j + 1] \in Nat
    BY <1>1
  <2>2. Power[j + 1] >= (j + 1) + 1 /\ Power[j] <= Power[j + 1]
    BY <2>1
  <2>3. ASSUME NEW i \in 0 .. j + 1
        PROVE  Power[i] <= Power[j + 1]
    <3>1. CASE i = j + 1
      BY <2>1, <3>1
    <3>2. CASE i # j + 1
      <4>1. i \in 0 .. j /\ i \in Nat
        BY <3>2
      <4>2. Power[i] <= Power[j] /\ Power[i] \in Nat
        BY <4>1, <1>1
      <4> QED
        BY <2>1, <2>2, <4>2
    <3> QED
      BY <3>1, <3>2
  <2> QED
    BY <2>2, <2>3
<1> HIDE DEF T
<1>4. n \in T
  BY <1>2, <1>3, EveryNumber
<1> QED
  BY <1>4 DEF T

LEMMA DigitsGives ==
    ASSUME NEW n \in Nat
    PROVE  /\ Digits(n) \in Nat \ {0}
           /\ n < Power[Digits(n)]
           /\ \A d \in Nat \ {0} : n < Power[d] => Digits(n) <= d
<1> DEFINE S == {d \in Nat \ {0} : n < Power[d]}
<1>1. n + 1 \in S
  <2>1. Power[n + 1] >= (n + 1) + 1 /\ Power[n + 1] \in Nat
    BY PowerGrows, PowerGives
  <2> QED
    BY <2>1
<1>2. PICK m \in S : \A d \in S : m <= d
  <2>1. S \subseteq Nat /\ S # {}
    BY <1>1
  <2> HIDE DEF S
  <2> QED
    BY <2>1, LeastOf
<1>3. m \in 1 .. n + 1 /\ n < Power[m]
  BY <1>1, <1>2
<1>4. m = 1 \/ Power[m - 1] <= n
  <2> SUFFICES ASSUME m # 1, Power[m - 1] > n PROVE FALSE
    BY PowerGives
  <2>1. m - 1 \in S
    OBVIOUS
  <2> QED
    BY <1>2, <2>1
<1>5. /\ Digits(n) \in 1 .. n + 1
      /\ n < Power[Digits(n)]
      /\ Digits(n) = 1 \/ Power[Digits(n) - 1] <= n
  BY <1>3, <1>4 DEF Digits
<1>6. ASSUME NEW d \in Nat \ {0}, n < Power[d]
      PROVE  Digits(n) <= d
  <2> SUFFICES ASSUME d < Digits(n) PROVE FALSE
    BY <1>5
  <2>1. Digits(n) - 1 \in Nat /\ d \in 0 .. Digits(n) - 1
    BY <1>5
  <2>2. Power[d] <= Power[Digits(n) - 1]
    BY <2>1, PowerGrows
  <2>3. Power[Digits(n) - 1] <= n
    BY <1>5
  <2>4. Power[d] \in Nat /\ Power[Digits(n) - 1] \in Nat
    BY <2>1, PowerGives
  <2> QED
    BY <1>6, <2>2, <2>3, <2>4
<1> QED
  BY <1>5, <1>6

LEMMA DigitsMonotone ==
    ASSUME NEW m \in Nat, NEW n \in Nat, m <= n
    PROVE  Digits(m) <= Digits(n)
<1>1. n < Power[Digits(n)] /\ Digits(n) \in Nat \ {0}
  BY DigitsGives
<1>2. m < Power[Digits(n)]
  BY <1>1, PowerGives
<1> QED
  BY <1>1, <1>2, DigitsGives

(* What the loop over the marker arrives at: the least count that is right *)
(* for the length it gives the marker, or leaves room to spare.            *)
LEMMA OmittedGives ==
    ASSUME NEW length \in Nat, maxOutputChars \in Nat
    PROVE  /\ Omitted(length) \in Nat
           /\ Aware(length, Omitted(length)) = Omitted(length)
           /\ \A k \in Nat : Aware(length, k) <= k => Omitted(length) <= k
<1> DEFINE first == Larger(0, length - maxOutputChars)
           x == first + Wording + 1
           S == {k \in Nat : Aware(length, k) <= k}
<1>1. first \in Nat /\ x \in Nat /\ Wording \in Nat
  BY OutputAssumption DEF Larger
<1>2. \A k \in Nat : Digits(k) \in Nat
  BY DigitsGives
<1>3. \A k \in Nat : /\ Aware(length, k) \in Nat
                     /\ first <= Aware(length, k)
                     /\ Aware(length, k) <= first + Wording + Digits(k)
  BY <1>1, <1>2 DEF Aware, MarkerLength, Larger
<1>4. 2 * x \in S
  <2>1. Power[x + 1] > 2 * x
    <3>1. Power[x] >= x + 1 /\ Power[x] \in Nat
      BY <1>1, PowerGrows, PowerGives
    <3>2. Power[x + 1] >= 2 * Power[x]
      BY <1>1, PowerDoubles
    <3>3. Power[x + 1] \in Nat
      BY <1>1, PowerGives
    <3> HIDE DEF x
    <3> QED
      BY <1>1, <3>1, <3>2, <3>3
  <2>2. Digits(2 * x) <= x + 1
    <3> HIDE DEF x
    <3>1. 2 * x \in Nat /\ x + 1 \in Nat \ {0}
      BY <1>1
    <3> QED
      BY <2>1, <3>1, DigitsGives
  <2>3. 2 * x \in Nat /\ Digits(2 * x) \in Nat
    BY <1>1, <1>2
  <2> HIDE DEF first
  <2> QED
    BY <1>1, <1>3, <2>2, <2>3
<1>5. PICK m \in S : \A k \in S : m <= k
  <2>1. S \subseteq Nat /\ S # {}
    BY <1>4
  <2> HIDE DEF S
  <2> QED
    BY <2>1, LeastOf
<1>6. \A j \in Nat, k \in Nat : j <= k => Aware(length, j) <= Aware(length, k)
  <2> SUFFICES ASSUME NEW j \in Nat, NEW k \in Nat, j <= k
               PROVE  Aware(length, j) <= Aware(length, k)
    OBVIOUS
  <2>1. Digits(j) <= Digits(k)
    BY DigitsMonotone
  <2> QED
    BY <1>1, <1>2, <2>1 DEF Aware, MarkerLength, Larger
<1>7. Aware(length, m) = m
  <2>1. Aware(length, m) <= m /\ Aware(length, m) \in Nat
    BY <1>3
  <2>2. Aware(length, m) \in S
    BY <1>6, <2>1
  <2> QED
    BY <1>5, <2>1, <2>2
<1>8. m \in first .. 2 * x
  BY <1>1, <1>3, <1>4, <1>5, <1>7
<1> DEFINE Right(k) == /\ Aware(length, k) = k
                       /\ \A j \in first .. k - 1 : Aware(length, j) # j
<1>9. Right(m)
  <2> SUFFICES ASSUME NEW j \in first .. m - 1, Aware(length, j) = j
               PROVE  FALSE
    BY <1>7
  <2>1. j \in Nat /\ j < m
    BY <1>1
  <2>2. j \in S
    BY <2>1
  <2> QED
    BY <1>5, <2>1, <2>2
<1>10. Omitted(length) = CHOOSE k \in first .. 2 * x : Right(k)
  BY DEF Omitted
<1>11. Omitted(length) \in first .. 2 * x /\ Right(Omitted(length))
  <2> HIDE DEF Right, first, x
  <2> QED
    BY <1>8, <1>9, <1>10
<1>12. Omitted(length) = m
  <2>1. Omitted(length) \in Nat
    BY <1>1, <1>11
  <2>2. m <= Omitted(length)
    <3>1. Omitted(length) \in S
      BY <1>11, <2>1
    <3> QED
      BY <1>5, <3>1
  <2>3. ~(m < Omitted(length))
    BY <1>7, <1>8, <1>11
  <2> QED
    BY <2>1, <2>2, <2>3
<1>13. \A k \in Nat : Aware(length, k) <= k => m <= k
  BY <1>5
<1> QED
  BY <1>7, <1>12, <1>13

(* A longer output never has a shorter marker.                             *)
LEMMA MarkerMonotone ==
    ASSUME NEW m \in Nat, NEW n \in Nat, m <= n, maxOutputChars \in Nat
    PROVE  Marker(m) \in Nat /\ Marker(n) \in Nat /\ Marker(m) <= Marker(n)
<1>1. Omitted(m) \in Nat /\ Omitted(n) \in Nat
  BY OmittedGives
<1>2. Aware(n, Omitted(n)) = Omitted(n)
  BY OmittedGives
<1>3. Digits(Omitted(n)) \in Nat /\ Digits(Omitted(m)) \in Nat /\ Wording \in Nat
  BY <1>1, DigitsGives, OutputAssumption
<1>4. Aware(m, Omitted(n)) <= Aware(n, Omitted(n))
  BY <1>3 DEF Aware, MarkerLength, Larger
<1>5. Omitted(m) <= Omitted(n)
  BY <1>1, <1>2, <1>4, OmittedGives
<1>6. Digits(Omitted(m)) <= Digits(Omitted(n))
  BY <1>1, <1>5, DigitsMonotone
<1> QED
  BY <1>3, <1>6 DEF Marker, MarkerLength

-----------------------------------------------------------------------------
(* The characters after the first a, up to the b-th.                       *)
Part(a, b) == [i \in 1 .. b - a |-> a + i]

LEMMA PartIsSeq ==
    ASSUME NEW a \in Nat, NEW b \in Nat, a <= b
    PROVE  /\ Part(a, b) \in Seq(Nat)
           /\ Len(Part(a, b)) = b - a
           /\ \A i \in 1 .. b - a : Part(a, b)[i] = a + i
BY DEF Part

LEMMA PartsJoin ==
    ASSUME NEW a \in Nat, NEW b \in Nat, NEW c \in Nat, a <= b, b <= c
    PROVE  Part(a, b) \o Part(b, c) = Part(a, c)
<1> DEFINE s == Part(a, b)
           t == Part(b, c)
           u == Part(a, c)
<1>1. s \in Seq(Nat) /\ Len(s) = b - a /\ \A i \in 1 .. b - a : s[i] = a + i
  BY PartIsSeq
<1>2. t \in Seq(Nat) /\ Len(t) = c - b /\ \A i \in 1 .. c - b : t[i] = b + i
  BY PartIsSeq
<1>3. u \in Seq(Nat) /\ Len(u) = c - a /\ \A i \in 1 .. c - a : u[i] = a + i
  BY PartIsSeq
<1> HIDE DEF s, t, u
<1>4. /\ s \o t \in Seq(Nat)
      /\ Len(s \o t) = Len(s) + Len(t)
      /\ \A i \in 1 .. Len(s) + Len(t) :
            (s \o t)[i] = IF i <= Len(s) THEN s[i] ELSE t[i - Len(s)]
  BY <1>1, <1>2, ConcatProperties
<1>5. Len(s) + Len(t) = c - a
  BY <1>1, <1>2
<1>6. ASSUME NEW i \in 1 .. c - a
      PROVE  (s \o t)[i] = u[i]
  <2>1. CASE i <= b - a
    <3>1. i \in 1 .. b - a /\ i \in 1 .. Len(s) + Len(t) /\ i <= Len(s)
      BY <1>1, <1>5, <2>1
    <3> QED
      BY <1>1, <1>3, <1>4, <3>1
  <2>2. CASE ~(i <= b - a)
    <3>1. /\ i - (b - a) \in 1 .. c - b /\ i \in 1 .. Len(s) + Len(t)
          /\ ~(i <= Len(s)) /\ b + (i - (b - a)) = a + i
      BY <1>1, <1>5, <2>2
    <3>2. (s \o t)[i] = t[i - (b - a)]
      BY <1>1, <1>4, <3>1
    <3>3. t[i - (b - a)] = b + (i - (b - a))
      BY <1>2, <3>1
    <3> QED
      BY <1>3, <3>1, <3>2, <3>3
  <2> QED
    BY <2>1, <2>2
<1>7. s \o t = u
  BY <1>3, <1>4, <1>5, <1>6, SeqEqual
<1> QED
  BY <1>7 DEF s, t, u

(* SubSeq, by another name.                                                *)
Cut(s, m, n) == SubSeq(s, m, n)

LEMMA PartOfPart ==
    ASSUME NEW a \in Nat, NEW b \in Nat, a <= b, NEW m \in Nat \ {0},
           NEW n \in Nat, m <= n + 1, n <= b - a, NEW u, u \in Seq(Nat),
           Len(u) = n - m + 1, \A i \in 1 .. n - m + 1 : u[i] = a + m - 1 + i
    PROVE  Cut(Part(a, b), m, n) = u
<1> DEFINE s == Part(a, b)
           t == SubSeq(s, m, n)
<1>1. s \in Seq(Nat) /\ Len(s) = b - a /\ \A i \in 1 .. b - a : s[i] = a + i
  BY PartIsSeq
<1> HIDE DEF s
<1>2. \A i \in m .. n : s[i] \in Nat
  BY <1>1
<1>3. /\ t \in Seq(Nat)
      /\ Len(t) = IF m <= n THEN n - m + 1 ELSE 0
      /\ \A i \in 1 .. n - m + 1 : t[i] = s[m + i - 1]
  BY <1>2, SubSeqProperties
<1> HIDE DEF t
<1>4. Len(t) = n - m + 1
  BY <1>3
<1>5. ASSUME NEW i \in 1 .. n - m + 1
      PROVE  t[i] = u[i]
  <2>1. m + i - 1 \in 1 .. b - a /\ a + (m + i - 1) = a + m - 1 + i
    OBVIOUS
  <2> QED
    BY <1>1, <1>3, <2>1
<1>6. t = u
  BY <1>3, <1>4, <1>5, SeqEqual
<1> QED
  BY <1>6 DEF t, s, Cut

LEMMA EndsOfPart ==
    ASSUME NEW a \in Nat, NEW b \in Nat, a <= b, NEW n \in Nat
    PROVE  /\ FirstOf(Part(a, b), n) = Part(a, a + Smaller(n, b - a))
           /\ LastOf(Part(a, b), n) = Part(b - Smaller(n, b - a), b)
<1> DEFINE k == Smaller(n, b - a)
           m == (b - a) - k + 1
<1>1. k \in Nat /\ k <= b - a /\ b - a \in Nat
  BY DEF Smaller
<1>2. Len(Part(a, b)) = b - a
  BY PartIsSeq
<1> HIDE DEF k
<1>3. Cut(Part(a, b), 1, k) = Part(a, a + k)
  <2> DEFINE u == Part(a, a + k)
  <2>1. a + k \in Nat /\ a <= a + k /\ (a + k) - a = k
    BY <1>1
  <2>2. /\ u \in Seq(Nat) /\ Len(u) = (a + k) - a
        /\ \A i \in 1 .. (a + k) - a : u[i] = a + i
    BY <2>1, PartIsSeq
  <2> HIDE DEF u
  <2>3. Len(u) = k - 1 + 1 /\ \A i \in 1 .. k - 1 + 1 : u[i] = a + 1 - 1 + i
    BY <1>1, <2>1, <2>2
  <2>4. Cut(Part(a, b), 1, k) = u
    BY <1>1, <2>2, <2>3, PartOfPart
  <2> QED
    BY <2>4 DEF u
<1>4. Cut(Part(a, b), m, b - a) = Part(b - k, b)
  <2> DEFINE u == Part(b - k, b)
             l == b - a
  <2>1. b - k \in Nat /\ b - k <= b /\ b - (b - k) = k
    BY <1>1
  <2>2. /\ u \in Seq(Nat) /\ Len(u) = b - (b - k)
        /\ \A i \in 1 .. b - (b - k) : u[i] = (b - k) + i
    BY <2>1, PartIsSeq
  <2>3. /\ m \in Nat \ {0} /\ m <= l + 1 /\ l <= b - a /\ l \in Nat
        /\ l - m + 1 = k /\ a + m - 1 = b - k
    BY <1>1
  <2> HIDE DEF u, m
  <2>4. Len(u) = l - m + 1 /\ \A i \in 1 .. l - m + 1 : u[i] = a + m - 1 + i
    BY <1>1, <2>1, <2>2, <2>3
  <2> HIDE DEF l
  <2>5. Cut(Part(a, b), m, l) = u
    BY <1>1, <2>2, <2>3, <2>4, PartOfPart
  <2> QED
    BY <2>5 DEF u, l
<1> QED
  BY <1>2, <1>3, <1>4 DEF FirstOf, LastOf, Cut, k, m

-----------------------------------------------------------------------------
(* What the marker leaves of the limit.                                    *)
Room(length) == maxOutputChars - Marker(length)

LEMMA RoomGives ==
    ASSUME NEW m \in Nat, NEW n \in Nat, m <= n, maxOutputChars \in Nat
    PROVE  /\ Room(m) \in Int /\ Room(n) \in Int
           /\ Room(m) <= maxOutputChars /\ Room(n) <= Room(m)
BY MarkerMonotone DEF Room

(* The captures that appendCapturedOutput makes: all of an output within   *)
(* the limit; otherwise its beginning and its end, which fill the room the *)
(* marker leaves, or only its end when the marker leaves none.             *)
Kept(c) ==
    /\ c \in [head : Seq(Nat), tail : Seq(Nat), length : Nat,
              truncated : BOOLEAN]
    /\ ~c.truncated => /\ c.length <= maxOutputChars
                       /\ c.head = Part(0, c.length)
                       /\ c.tail = <<>>
    /\ c.truncated =>
          /\ c.length > maxOutputChars
          /\ Room(c.length) > 0 =>
                /\ c.head = Part(0, (Room(c.length) + 1) \div 2)
                /\ c.tail = Part(c.length - (Room(c.length) \div 2), c.length)
          /\ Room(c.length) <= 0 =>
                /\ c.head = <<>>
                /\ \E t \in 0 .. maxOutputChars :
                      c.tail = Part(c.length - t, c.length)

(* What a chunk is added to is the end of the output so far, from the last *)
(* character of which it is not certain that it is kept.                   *)
From(c) == IF ~c.truncated THEN 0
           ELSE IF Room(c.length) > 0 THEN c.length - (Room(c.length) \div 2)
           ELSE CHOOSE a \in 0 .. c.length : c.tail = Part(a, c.length)

LEMMA KeptEnd ==
    ASSUME NEW c, Kept(c), maxOutputChars \in Nat
    PROVE  /\ From(c) \in 0 .. c.length
           /\ (IF c.truncated THEN c.tail ELSE c.head) = Part(From(c), c.length)
<1>1. c.length \in Nat
  BY DEF Kept
<1>2. Room(c.length) \in Int /\ Room(c.length) <= maxOutputChars
  BY <1>1, RoomGives
<1>3. CASE ~c.truncated
  BY <1>1, <1>3 DEF Kept, From
<1>4. CASE c.truncated /\ Room(c.length) > 0
  <2>1. /\ c.length > maxOutputChars
        /\ c.tail = Part(c.length - (Room(c.length) \div 2), c.length)
    BY <1>4 DEF Kept
  <2>2. Room(c.length) \div 2 \in 0 .. c.length
    BY <1>1, <1>2, <1>4, <2>1
  <2>3. c.length - (Room(c.length) \div 2) \in 0 .. c.length
    BY <1>1, <2>2
  <2> QED
    BY <1>4, <2>1, <2>3 DEF From
<1>5. CASE c.truncated /\ ~(Room(c.length) > 0)
  <2>1. Room(c.length) <= 0
    BY <1>2, <1>5
  <2>2. PICK t \in 0 .. maxOutputChars : c.tail = Part(c.length - t, c.length)
    BY <1>5, <2>1 DEF Kept
  <2>3. c.length > maxOutputChars
    BY <1>5 DEF Kept
  <2>4. c.length - t \in 0 .. c.length
    BY <1>1, <2>3
  <2>5. From(c) = CHOOSE a \in 0 .. c.length : c.tail = Part(a, c.length)
    BY <1>5 DEF From
  <2>6. From(c) \in 0 .. c.length /\ c.tail = Part(From(c), c.length)
    BY <2>2, <2>4, <2>5
  <2> QED
    BY <1>5, <2>6
<1> QED
  BY <1>3, <1>4, <1>5

(* With the chunk it is the end of the output that is now.                 *)
LEMMA AppendTailGives ==
    ASSUME NEW c, Kept(c), NEW k \in Nat, maxOutputChars \in Nat,
           NEW length \in Nat, c.length <= length
    PROVE  AppendTail(c, Part(c.length, length), k)
              = Part(length - Smaller(k, length - From(c)), length)
<1> DEFINE old == IF c.truncated THEN c.tail ELSE c.head
           a == From(c)
<1>1. c.length \in Nat /\ length \in Nat /\ c.length <= length
  BY DEF Kept
<1>2. a \in Nat /\ a <= c.length /\ old = Part(a, c.length)
  BY <1>1, KeptEnd
<1>3. old \o Part(c.length, length) = Part(a, length)
  <2> HIDE DEF old, a
  <2> QED
    BY <1>1, <1>2, PartsJoin
<1>4. AppendTail(c, Part(c.length, length), k) = LastOf(Part(a, length), k)
  BY <1>3 DEF AppendTail
<1> HIDE DEF a
<1>5. a <= length
  BY <1>1, <1>2
<1>6. LastOf(Part(a, length), k) = Part(length - Smaller(k, length - a), length)
  BY <1>1, <1>2, <1>5, EndsOfPart
<1> QED
  BY <1>4, <1>6 DEF a

(* sourceForHead.                                                          *)
Source(c, chunk) == IF c.truncated THEN c.head ELSE c.head \o chunk

(* appendCapturedOutput keeps to it.                                       *)
LEMMA AppendStep ==
    ASSUME NEW c, Kept(c), maxOutputChars \in Nat \ {0},
           NEW length \in Nat, c.length < length,
           NEW chunk, chunk = Part(c.length, length),
           NEW d, d = AppendCapturedOutput(c, chunk)
    PROVE  Kept(d)
<1> DEFINE room == Room(length)
           head == Source(c, chunk)
<1>1. /\ c.length \in Nat /\ c.length <= length
      /\ c.head \in Seq(Nat) /\ c.truncated \in BOOLEAN
      /\ maxOutputChars \in Nat
  BY DEF Kept
<1>2. Len(chunk) = length - c.length /\ chunk \in Seq(Nat)
  BY <1>1, PartIsSeq
<1>3. c.length + Len(chunk) = length
  BY <1>1, <1>2
<1>4. room \in Int /\ room <= maxOutputChars /\ room <= Room(c.length)
  BY <1>1, RoomGives
<1>5. ~c.truncated => head = Part(0, length)
  <2> SUFFICES ASSUME ~c.truncated PROVE head = Part(0, length)
    OBVIOUS
  <2>1. c.head = Part(0, c.length)
    BY DEF Kept
  <2>2. Part(0, c.length) \o Part(c.length, length) = Part(0, length)
    <3> DEFINE l == c.length
    <3>1. l \in Nat /\ l <= length /\ 0 \in Nat /\ 0 <= l
      BY <1>1
    <3> HIDE DEF l
    <3>2. Part(0, l) \o Part(l, length) = Part(0, length)
      BY <3>1, PartsJoin
    <3> QED
      BY <3>2 DEF l
  <2> QED
    BY <2>1, <2>2 DEF Source
<1>6. c.truncated => c.length > maxOutputChars
  BY DEF Kept
<1>7. ASSUME NEW k \in Nat
      PROVE  /\ From(c) \in 0 .. c.length
             /\ AppendTail(c, chunk, k)
                   = Part(length - Smaller(k, length - From(c)), length)
  <2>1. From(c) \in 0 .. c.length
    BY KeptEnd
  <2>2. AppendTail(c, Part(c.length, length), k)
           = Part(length - Smaller(k, length - From(c)), length)
    BY <1>1, AppendTailGives
  <2> QED
    BY <2>1, <2>2
<1> HIDE DEF room, head
<1> DEFINE A == [head |-> head, tail |-> <<>>, length |-> length,
                 truncated |-> FALSE]
           B == [head |-> <<>>, tail |-> AppendTail(c, chunk, maxOutputChars),
                 length |-> length, truncated |-> TRUE]
           C == [head |-> FirstOf(head, (room + 1) \div 2),
                 tail |-> AppendTail(c, chunk, room \div 2),
                 length |-> length, truncated |-> TRUE]
<1>8. /\ ~c.truncated /\ length <= maxOutputChars => d = A
      /\ c.truncated \/ length > maxOutputChars =>
            /\ room <= 0 => d = B
            /\ room > 0 => d = C
  <2>1. d = CASE ~c.truncated /\ length <= maxOutputChars -> A
              [] (c.truncated \/ length > maxOutputChars) /\ room <= 0 -> B
              [] OTHER -> C
    BY <1>3 DEF AppendCapturedOutput, Room, Source, room, head
  <2> HIDE DEF A, B, C
  <2> QED
    BY <1>1, <1>4, <2>1
<1> HIDE DEF A, B, C
<1>9. CASE ~c.truncated /\ length <= maxOutputChars
  <2>1. d = [head |-> head, tail |-> <<>>, length |-> length, truncated |-> FALSE]
    BY <1>8, <1>9 DEF A
  <2>2. head = Part(0, length) /\ head \in Seq(Nat)
    BY <1>1, <1>5, <1>9, PartIsSeq
  <2> QED
    BY <1>1, <1>9, <2>1, <2>2 DEF Kept
<1>10. CASE (c.truncated \/ length > maxOutputChars) /\ room <= 0
  <2>1. d = [head |-> <<>>, tail |-> AppendTail(c, chunk, maxOutputChars),
             length |-> length, truncated |-> TRUE]
    BY <1>8, <1>10 DEF B
  <2>2. length > maxOutputChars
    BY <1>1, <1>6, <1>10
  <2> DEFINE t == Smaller(maxOutputChars, length - From(c))
  <2>3. t \in 0 .. maxOutputChars /\ t <= length
    BY <1>1, <1>7 DEF Smaller
  <2>4. AppendTail(c, chunk, maxOutputChars) = Part(length - t, length)
    BY <1>7
  <2> HIDE DEF t
  <2>5. Part(length - t, length) \in Seq(Nat)
    BY <1>1, <2>3, PartIsSeq
  <2>6. d.truncated /\ d.length = length /\ d.head = <<>>
        /\ d.tail = Part(length - t, length)
    BY <2>1, <2>4
  <2>7. d \in [head : Seq(Nat), tail : Seq(Nat), length : Nat, truncated : BOOLEAN]
    BY <1>1, <2>1, <2>4, <2>5
  <2> QED
    BY <1>4, <1>10, <2>2, <2>3, <2>6, <2>7 DEF Kept, room
<1>11. CASE (c.truncated \/ length > maxOutputChars) /\ room > 0
  <2> DEFINE h == (room + 1) \div 2
             t == room \div 2
  <2>1. d = [head |-> FirstOf(head, h), tail |-> AppendTail(c, chunk, t),
             length |-> length, truncated |-> TRUE]
    BY <1>8, <1>11 DEF C
  <2>2. length > maxOutputChars
    BY <1>1, <1>6, <1>11
  <2>3. h \in Nat /\ t \in Nat /\ h <= room /\ t <= room
    BY <1>4, <1>11
  <2>4. h <= length /\ t <= length
    <3> HIDE DEF h, t
    <3> QED
      BY <1>1, <1>4, <2>2, <2>3
  <2>5. FirstOf(head, h) = Part(0, h)
    <3>1. CASE ~c.truncated
      <4> HIDE DEF h
      <4>1. head = Part(0, length) /\ Smaller(h, length - 0) = h /\ 0 + h = h
        BY <1>1, <1>5, <2>3, <2>4, <3>1 DEF Smaller
      <4>2. FirstOf(Part(0, length), h) = Part(0, 0 + Smaller(h, length - 0))
        BY <1>1, <2>3, EndsOfPart
      <4> QED
        BY <4>1, <4>2
    <3>2. CASE c.truncated
      <4> DEFINE old == (Room(c.length) + 1) \div 2
      <4>1. Room(c.length) \in Int /\ Room(c.length) > 0
        BY <1>1, <1>4, <1>11, RoomGives
      <4>2. head = Part(0, old)
        BY <3>2, <4>1 DEF Kept, head, Source
      <4>3. old \in Nat /\ h <= old
        BY <1>4, <1>11, <4>1
      <4> HIDE DEF h, old
      <4>4. FirstOf(Part(0, old), h) = Part(0, 0 + Smaller(h, old - 0))
        BY <2>3, <4>3, EndsOfPart
      <4>5. Smaller(h, old - 0) = h /\ 0 + h = h
        BY <2>3, <4>3 DEF Smaller
      <4> QED
        BY <4>2, <4>4, <4>5
    <3> QED
      BY <1>1, <3>1, <3>2
  <2>6. AppendTail(c, chunk, t) = Part(length - t, length)
    <3>1. t <= length - From(c)
      <4>1. CASE ~c.truncated
        <5> HIDE DEF t
        <5> QED
          BY <1>1, <2>3, <2>4, <4>1 DEF From
      <4>2. CASE c.truncated
        <5>1. Room(c.length) \in Int /\ Room(c.length) > 0
          BY <1>1, <1>4, <1>11, RoomGives
        <5>2. From(c) = c.length - (Room(c.length) \div 2)
          BY <4>2, <5>1 DEF From
        <5>3. t <= Room(c.length) \div 2
          BY <1>4, <5>1
        <5> HIDE DEF t
        <5> QED
          BY <1>1, <2>3, <5>1, <5>2, <5>3
      <4> QED
        BY <1>1, <4>1, <4>2
    <3> HIDE DEF t
    <3>2. From(c) \in 0 .. c.length
      BY <1>7
    <3>3. Smaller(t, length - From(c)) = t
      BY <1>1, <2>3, <3>1, <3>2 DEF Smaller
    <3> QED
      BY <1>7, <2>3, <3>3
  <2>7. /\ d.truncated /\ d.length = length /\ d.head = Part(0, h)
        /\ d.tail = Part(length - t, length)
    BY <2>1, <2>5, <2>6
  <2>8. d \in [head : Seq(Nat), tail : Seq(Nat), length : Nat, truncated : BOOLEAN]
    <3> HIDE DEF h, t
    <3>1. Part(0, h) \in Seq(Nat)
      BY <2>3, PartIsSeq
    <3>2. Part(length - t, length) \in Seq(Nat)
      BY <1>1, <2>3, <2>4, PartIsSeq
    <3> QED
      BY <1>1, <2>1, <2>5, <2>6, <3>1, <3>2
  <2>9. Room(d.length) > 0 /\ ~(Room(d.length) <= 0)
    BY <1>4, <1>11, <2>7 DEF room
  <2>10. /\ d.head = Part(0, (Room(d.length) + 1) \div 2)
         /\ d.tail = Part(d.length - (Room(d.length) \div 2), d.length)
    BY <2>7 DEF room
  <2> QED
    BY <2>2, <2>7, <2>8, <2>9, <2>10 DEF Kept
<1> QED
  BY <1>1, <1>4, <1>9, <1>10, <1>11

-----------------------------------------------------------------------------
(* The execution keeps to it, and its result shows what it has captured.   *)
OutputInv ==
    /\ maxOutputChars \in Nat \ {0}
    /\ Kept(captured)
    /\ Settled => stdout = RenderCapturedOutput(captured)

LEMMA OutputInvInit == OutputInit => OutputInv
<1> SUFFICES ASSUME OutputInit PROVE OutputInv
  OBVIOUS
<1>1. maxOutputChars \in Nat \ {0}
  BY OutputAssumption DEF OutputInit
<1>2. ~Settled
  BY DEF OutputInit, Init, Settled
<1>3. Part(0, 0) = <<>>
  BY DEF Part
<1>4. captured = [head |-> <<>>, tail |-> <<>>, length |-> 0,
                  truncated |-> FALSE]
  BY DEF OutputInit
<1>5. captured \in [head : Seq(Nat), tail : Seq(Nat), length : Nat,
                    truncated : BOOLEAN]
  BY <1>4
<1>6. Kept(captured)
  BY <1>1, <1>3, <1>4, <1>5 DEF Kept
<1> QED
  BY <1>1, <1>2, <1>6 DEF OutputInv

LEMMA OutputInvStep == OutputInv /\ [OutputNext]_<<vars, streams>> => OutputInv'
<1> SUFFICES ASSUME OutputInv, [OutputNext]_<<vars, streams>>
             PROVE  OutputInv'
  OBVIOUS
<1>1. maxOutputChars' = maxOutputChars
  BY DEF OutputNext, OnData, OtherEvent, streams
<1>2. ASSUME OnData
      PROVE  OutputInv'
  <2>1. ~Settled /\ result' = result
    BY <1>2 DEF OnData, vars, ownership
  <2>2. PICK n \in 1 .. MaxChunk :
           captured' = AppendCapturedOutput(captured,
                          [i \in 1 .. n |-> captured.length + i])
    BY <1>2 DEF OnData
  <2> DEFINE length == captured.length + n
  <2>3. captured.length \in Nat /\ n \in Nat /\ n > 0
    BY OutputAssumption DEF OutputInv, Kept
  <2>4. [i \in 1 .. n |-> captured.length + i] = Part(captured.length, length)
    <3>1. length - captured.length = n
      BY <2>3
    <3> HIDE DEF length
    <3> QED
      BY <3>1 DEF Part
  <2>5. length \in Nat /\ captured.length < length
    BY <2>3
  <2> HIDE DEF length
  <2>6. Kept(AppendCapturedOutput(captured, Part(captured.length, length)))
    <3> DEFINE chunk == Part(captured.length, length)
               d == AppendCapturedOutput(captured, chunk)
    <3>1. /\ Kept(captured) /\ maxOutputChars \in Nat \ {0}
          /\ chunk = Part(captured.length, length)
          /\ d = AppendCapturedOutput(captured, chunk)
      BY DEF OutputInv
    <3> HIDE DEF chunk, d
    <3>2. Kept(d)
      BY <2>5, <3>1, AppendStep
    <3> QED
      BY <3>2 DEF chunk, d
  <2>7. Kept(captured)'
    <3>1. Kept(captured')
      BY <2>2, <2>4, <2>6
    <3>2. \A x : Room(x)' = Room(x)
      BY <1>1 DEF Room, Marker, MarkerLength, Omitted, Aware
    <3> QED
      BY <1>1, <3>1, <3>2 DEF Kept
  <2> QED
    BY <1>1, <2>1, <2>7 DEF OutputInv, Settled
<1>3. ASSUME UNCHANGED captured
      PROVE  Kept(captured)' /\ RenderCapturedOutput(captured)'
                                   = RenderCapturedOutput(captured)
  BY <1>1, <1>3 DEF OutputInv, Kept, Room, RenderCapturedOutput, Marker,
                    MarkerLength, Omitted, Aware
<1>4. CASE OtherEvent
  <2>1. UNCHANGED captured
    BY <1>4 DEF OtherEvent
  <2>2. CASE result' # result
    BY <1>1, <1>3, <1>4, <2>1, <2>2 DEF OtherEvent, OutputInv
  <2>3. CASE result' = result
    BY <1>1, <1>3, <1>4, <2>1, <2>3 DEF OtherEvent, OutputInv, Settled
  <2> QED
    BY <2>2, <2>3
<1>5. CASE UNCHANGED <<vars, streams>>
  BY <1>1, <1>3, <1>5 DEF OutputInv, Settled, vars, ownership, streams
<1> QED
  BY <1>2, <1>4, <1>5 DEF OutputNext

(* What the marker says, and the room it leaves, add up to the output.     *)
LEMMA MarkerIsRight ==
    ASSUME NEW length \in Nat, maxOutputChars \in Nat \ {0},
           length > maxOutputChars
    PROVE  /\ Omitted(length) # 0
           /\ MarkerLength(Omitted(length)) = maxOutputChars - Room(length)
           /\ Room(length) + Omitted(length) = length
<1>1. /\ Omitted(length) \in Nat
      /\ Aware(length, Omitted(length)) = Omitted(length)
  BY OmittedGives
<1>2. Digits(Omitted(length)) \in Nat /\ Wording \in Nat
  BY <1>1, DigitsGives, OutputAssumption
<1> QED
  BY <1>1, <1>2 DEF Aware, Room, Marker, MarkerLength, Larger

LEMMA KeptIsFaithful == OutputInv => OutputIsFaithful
<1> DEFINE n == captured.length
           whole == [i \in 1 .. n |-> i]
           shown == Len(stdout.head) + Len(stdout.tail)
<1> SUFFICES ASSUME OutputInv, Settled
             PROVE  IF n <= maxOutputChars
                    THEN stdout = [Nothing EXCEPT !.head = whole]
                    ELSE /\ stdout.head = FirstOf(whole, Len(stdout.head))
                         /\ stdout.tail = LastOf(whole, Len(stdout.tail))
                         /\ IF stdout.omitted = 0
                            THEN shown <= maxOutputChars
                            ELSE /\ shown + stdout.omitted = n
                                 /\ shown + MarkerLength(stdout.omitted)
                                       = maxOutputChars
  BY DEF OutputIsFaithful
<1>1. /\ Kept(captured) /\ maxOutputChars \in Nat \ {0}
      /\ stdout = RenderCapturedOutput(captured)
  BY DEF OutputInv
<1>2. n \in Nat /\ captured.truncated \in BOOLEAN
  BY <1>1 DEF Kept
<1>3. whole = Part(0, n)
  BY <1>2 DEF Part
<1> DEFINE room == Room(n)
<1>4. room \in Int /\ room <= maxOutputChars
  BY <1>1, <1>2, RoomGives
<1>5. Marker(n) >= maxOutputChars <=> room <= 0
  BY <1>1, <1>2, MarkerMonotone DEF Room
<1>6. CASE ~captured.truncated
  BY <1>1, <1>3, <1>6 DEF Kept, RenderCapturedOutput
<1>7. ASSUME captured.truncated, NEW h \in Nat, NEW t \in Nat, h + t <= n,
             stdout.head = Part(0, h), stdout.tail = Part(n - t, n)
      PROVE  /\ n > maxOutputChars
             /\ stdout.head = FirstOf(whole, Len(stdout.head))
             /\ stdout.tail = LastOf(whole, Len(stdout.tail))
             /\ shown = h + t
  <2>1. Len(stdout.head) = h /\ Len(stdout.tail) = t
    <3> HIDE DEF n
    <3>1. n - t \in Nat /\ n - t <= n /\ n - (n - t) = t /\ 0 <= h /\ h - 0 = h
      BY <1>2, <1>7
    <3>2. Len(Part(n - t, n)) = n - (n - t)
      BY <1>2, <3>1, PartIsSeq
    <3>3. Len(Part(0, h)) = h - 0
      BY <3>1, PartIsSeq
    <3> QED
      BY <1>7, <3>1, <3>2, <3>3
  <2>2. Smaller(h, n - 0) = h /\ Smaller(t, n - 0) = t /\ 0 + h = h
    BY <1>2, <1>7 DEF Smaller
  <2>3. /\ FirstOf(Part(0, n), h) = Part(0, 0 + Smaller(h, n - 0))
        /\ LastOf(Part(0, n), t) = Part(n - Smaller(t, n - 0), n)
    <3> HIDE DEF n
    <3>1. 0 <= n
      BY <1>2
    <3> QED
      BY <1>2, <3>1, EndsOfPart
  <2>4. n > maxOutputChars
    BY <1>1, <1>7 DEF Kept
  <2> HIDE DEF whole, n
  <2> QED
    BY <1>3, <1>7, <2>1, <2>2, <2>3, <2>4
<1>8. CASE captured.truncated /\ room <= 0
  <2>1. n > maxOutputChars /\ captured.head = <<>>
    BY <1>1, <1>8 DEF Kept
  <2>2. PICK t \in 0 .. maxOutputChars : captured.tail = Part(n - t, n)
    BY <1>1, <1>8 DEF Kept
  <2>3. LastOf(Part(n - t, n), maxOutputChars) = Part(n - t, n)
    <3> HIDE DEF n
    <3>1. /\ n - t \in Nat /\ n - t <= n
          /\ n - Smaller(maxOutputChars, n - (n - t)) = n - t
      BY <1>1, <1>2, <2>1 DEF Smaller
    <3>2. LastOf(Part(n - t, n), maxOutputChars)
             = Part(n - Smaller(maxOutputChars, n - (n - t)), n)
      BY <1>1, <1>2, <3>1, EndsOfPart
    <3> QED
      BY <3>1, <3>2
  <2>4. /\ stdout.head = <<>> /\ stdout.omitted = 0
        /\ stdout.tail = LastOf(captured.tail, maxOutputChars)
    BY <1>1, <1>5, <1>8 DEF RenderCapturedOutput, Nothing
  <2>5. stdout.head = Part(0, 0)
    BY <2>4 DEF Part
  <2>6. stdout.tail = Part(n - t, n)
    BY <2>2, <2>3, <2>4
  <2>7. t \in Nat /\ 0 + t <= n
    BY <1>1, <1>2, <2>1
  <2> HIDE DEF n, room, whole, shown
  <2>8. /\ n > maxOutputChars /\ shown = 0 + t
        /\ stdout.head = FirstOf(whole, Len(stdout.head))
        /\ stdout.tail = LastOf(whole, Len(stdout.tail))
    BY <1>7, <1>8, <2>5, <2>6, <2>7
  <2> QED
    BY <1>1, <1>2, <2>4, <2>8
<1>9. CASE captured.truncated /\ room > 0
  <2> DEFINE h == (room + 1) \div 2
             t == room \div 2
  <2>1. /\ n > maxOutputChars
        /\ captured.head = Part(0, h) /\ captured.tail = Part(n - t, n)
    BY <1>1, <1>9 DEF Kept
  <2>2. stdout = [head |-> captured.head, omitted |-> Omitted(n),
                  tail |-> captured.tail]
    BY <1>1, <1>4, <1>5, <1>9 DEF RenderCapturedOutput
  <2>3. h \in Nat /\ t \in Nat /\ h + t = room
    <3> HIDE DEF room
    <3> QED
      BY <1>4, <1>9
  <2>4. /\ Omitted(n) # 0 /\ room + Omitted(n) = n
        /\ MarkerLength(Omitted(n)) = maxOutputChars - room
    BY <1>1, <1>2, <2>1, MarkerIsRight
  <2>5. Omitted(n) \in Nat
    BY <1>1, <1>2, OmittedGives
  <2> HIDE DEF n, room, whole, shown, h, t
  <2>6. h + t <= n
    BY <1>2, <1>4, <2>3, <2>4, <2>5
  <2>7. /\ stdout.head = Part(0, h) /\ stdout.tail = Part(n - t, n)
        /\ stdout.omitted = Omitted(n)
    BY <2>1, <2>2
  <2>8. /\ n > maxOutputChars /\ shown = h + t
        /\ stdout.head = FirstOf(whole, Len(stdout.head))
        /\ stdout.tail = LastOf(whole, Len(stdout.tail))
    BY <1>7, <1>9, <2>3, <2>6, <2>7
  <2> QED
    BY <1>1, <1>2, <1>4, <2>3, <2>4, <2>5, <2>7, <2>8
<1> HIDE DEF n, whole, shown, room
<1> QED
  BY <1>2, <1>4, <1>6, <1>8, <1>9

(* Whatever the chunks of the output are, the result of an execution shows *)
(* it whole, or its two ends and truly how much is missing, within the     *)
(* limit: appendCapturedOutput, buildTruncationMarker and                  *)
(* renderCapturedOutput agree at every length, limit and radix.            *)
THEOREM OutputStaysFaithful == OutputSpec => []OutputIsFaithful
<1>1. OutputInit => OutputInv
  BY OutputInvInit
<1>2. OutputInv /\ [OutputNext]_<<vars, streams>> => OutputInv'
  BY OutputInvStep
<1>3. OutputInv => OutputIsFaithful
  BY KeptIsFaithful
<1> QED
  BY <1>1, <1>2, <1>3, PTL DEF OutputSpec

(* An execution that is watched with its output is an execution: what      *)
(* holds of OmxExec holds of it.                                           *)
THEOREM OutputIsAnExecution == OutputSpec => Spec
<1>1. OutputInit => Init
  BY DEF OutputInit
<1>2. [OutputNext]_<<vars, streams>> => [Next]_vars
  BY DEF OutputNext, OnData, OtherEvent
<1> QED
  BY <1>1, <1>2, PTL DEF OutputSpec, Spec
=============================================================================
