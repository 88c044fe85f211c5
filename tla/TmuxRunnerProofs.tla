-------------------------- MODULE TmuxRunnerProofs --------------------------
(***************************************************************************)
(* What TmuxRunner guarantees for every number of restarts and of failing  *)
(* commands: the inductive invariant, the safety properties that follow    *)
(* from it, and that the job's file follows JobLifecycle.                  *)
(***************************************************************************)
EXTENDS TmuxRunner, FiniteSetTheorems, TLAPS

(* Only an unresolved job can be claimed, and only one nothing was started *)
(* for; that nothing was started stays true until NewSession.              *)
StartIsFirst ==
    /\ started =< 1
    /\ starter \in Early => started = 0
    /\ starter \in {"created", "persisting"} => started = 1
    /\ status = "queued" => started = 0
    /\ status = "queued" => starter = "none"
    /\ status \in {"queued", "running"} => verdict = NoVerdict

(* Who has seen a session comes after its start.                           *)
KnownIsStarted ==
    /\ known # "none" => started = 1
    /\ collector # "idle" => started = 1
    /\ collector # "idle" => known # "none"
    /\ outcome # NoVerdict => started = 1
    /\ verdict \in {"vanished", "timeout"} => started = 1
    /\ \A q \in Request :
           request[q] \in {"killing", "writing", "marking"} => started = 1
    /\ request["kill_first"] = "resolving" => started = 1

(* What a cancellation has killed is dead for good.                        *)
KilledIsDead ==
    /\ \A q \in Request : request[q] \in {"writing", "marking"} => ~alive
    /\ request["kill_first"] = "resolving" => ~alive
    /\ known = "cancelled" => ~alive
    /\ known = "ended" => status \in {"resolved", "deleted"}

(* So is what the collector has found missing or has killed, as long as no *)
(* command has failed; and a missing session writes no exit code.          *)
CollectorIsRight ==
    faults = 0 =>
        /\ collector = "waiting" => ~alive
        /\ outcome \in {"vanished", "timeout"} => ~alive
        /\ outcome = "vanished" => ~exitCode
        /\ verdict \in {"vanished", "timeout"} => ~alive
        /\ verdict = "vanished" => ~exitCode

(* The recovery is alone.                                                  *)
RecoveryIsAlone ==
    /\ phase \in {"down", "recovering"} =>
           /\ starter = "none"
           /\ \A q \in Request : request[q] = "idle"
    /\ phase = "down" => collector = "idle"
    /\ collector \in {"undecided", "left"} => phase = "recovering"
    /\ collector = "undecided" /\ status = "running" => known = "running"
    /\ verdict = "interrupted" => known = "none"

(* The artifacts are there before the session, and go after it.            *)
FilesAreThere ==
    /\ starter = "creating" => artifacts
    /\ alive => artifacts
    /\ cleaner # "idle" => status = "deleted"
    /\ cleaner # "idle" => starter \notin Early
    /\ cleaner = "removing" => ~alive

(* A session that outlives the resolution of its job has a request coming  *)
(* for it.                                                                 *)
SomebodyEndsIt ==
    /\ status = "resolved" /\ verdict \in FromApi /\ known # "none" /\ alive
    /\ restarts = 0 /\ faults = 0
    => \E q \in Request : request[q] \in {"asking", "killing"}

IInv ==
    /\ TypeOK
    /\ StartIsFirst
    /\ KnownIsStarted
    /\ KilledIsDead
    /\ CollectorIsRight
    /\ RecoveryIsAlone
    /\ FilesAreThere
    /\ SomebodyEndsIt
-----------------------------------------------------------------------------
USE BoundsAssumption

(* Every step keeps the types.                                             *)
LEMMA TypeStep ==
    ASSUME IInv, [Next]_vars
    PROVE  TypeOK'
<1> USE DEF Verdict, NoVerdict, FromApi, Early, StarterStep, CollectStep,
            Request, RequestStep, ResolvedBy, Resolve, Fault, ProcessEnds,
            StarterOnly, CollectorOnly, RequestOnly, CleanerOnly, Goto,
            ToRecord, NothingYet, ApiOpen, vars, jobVars, paneVars, collVars,
            bounds, starterRest, collectorRest, requestRest, processRest,
            bridgeVars,
            TypeOK
<1>0. TypeOK
  BY DEF IInv
<1>e. ASSUME ProcessEnds, faults' \in Nat
      PROVE  TypeOK'
  <2>1. overlooked' \in BOOLEAN
    BY <1>e
  <2> QED
    BY <1>0, <1>e, <2>1
<1>1. CASE Claim
  <2>1. expired' \in BOOLEAN
    BY <1>1 DEF Claim
  <2> QED
    BY <1>0, <1>1, <2>1 DEF Claim
<1>2. CASE Starter
  <2>1. CASE Lookup
    BY <1>0, <2>1 DEF Lookup
  <2>2. CASE Begin
    BY <1>0, <2>2 DEF Begin
  <2>3. CASE Requeue
    BY <1>0, <2>3 DEF Requeue
  <2>4. CASE Prepare
    <3>1. exitCode' \in BOOLEAN
      BY <2>4 DEF Prepare
    <3> QED
      BY <1>0, <2>4, <3>1 DEF Prepare
  <2>5. CASE RefuseCwd
    BY <1>0, <2>5 DEF RefuseCwd
  <2>6. CASE NewSession
    BY <1>0, <2>6 DEF NewSession
  <2>7. CASE WriteSession
    BY <1>0, <2>7 DEF WriteSession
  <2>8. CASE Persist
    BY <1>0, <2>8 DEF Persist
  <2>9. CASE StartFails
    BY <1>0, <2>9 DEF StartFails
  <2>10. CASE MarkFailed
    BY <1>0, <2>10 DEF MarkFailed
  <2>11. CASE MarkFails
    <3>1. ProcessEnds /\ faults' \in Nat
      BY <1>0, <2>11 DEF MarkFails
    <3> QED
      BY <1>e, <3>1
  <2> QED
    BY <1>2, <2>1, <2>2, <2>3, <2>4, <2>5, <2>6, <2>7, <2>8, <2>9, <2>10, <2>11
       DEF Starter
<1>3. CASE WrapperWritesExitCode
  BY <1>0, <1>3 DEF WrapperWritesExitCode
<1>4. CASE SessionGone
  <2>1. alive' \in BOOLEAN
    BY <1>4 DEF SessionGone
  <2> QED
    BY <1>0, <1>4, <2>1 DEF SessionGone
<1>5. CASE Expire
  BY <1>0, <1>5 DEF Expire
<1>6. CASE Collector
  <2>1. CASE CollectStart
    BY <1>0, <2>1 DEF CollectStart
  <2>2. CASE ReadExitCode
    BY <1>0, <2>2 DEF ReadExitCode
  <2>3. CASE KillExpired
    <3>0. alive \in BOOLEAN
      BY <1>0
    <3>1. alive' \in BOOLEAN
      BY <2>3, <3>0 DEF KillExpired
    <3> QED
      BY <1>0, <2>3, <3>1 DEF KillExpired
  <2>4. CASE Probe
    BY <1>0, <2>4 DEF Probe
  <2>5. CASE AwaitExitCode
    BY <1>0, <2>5 DEF AwaitExitCode
  <2>6. CASE WriteCollected
    BY <1>0, <2>6 DEF WriteCollected
  <2>7. CASE Record
    BY <1>0, <2>7 DEF Record
  <2>8. CASE CollectFails
    <3>1. CASE phase = "stopping"
      BY <1>0, <2>8, <3>1 DEF CollectFails
    <3>2. CASE phase # "stopping"
      <4>1. ProcessEnds /\ faults' \in Nat
        BY <1>0, <2>8, <3>2 DEF CollectFails
      <4> QED
        BY <1>e, <4>1
    <3> QED
      BY <3>1, <3>2
  <2> QED
    BY <1>6, <2>1, <2>2, <2>3, <2>4, <2>5, <2>6, <2>7, <2>8 DEF Collector
<1>7. CASE CancelJob
  BY <1>0, <1>7 DEF CancelJob
<1>8. CASE CompleteFromCallback
  BY <1>0, <1>8 DEF CompleteFromCallback
<1>9. CASE Retention
  <2>1. CASE DeleteJob
    BY <1>0, <2>1 DEF DeleteJob
  <2>2. CASE SweepOrphan
    BY <1>0, <2>2 DEF SweepOrphan
  <2>3. CASE ProbeArtifacts
    BY <1>0, <2>3 DEF ProbeArtifacts
  <2>4. CASE RemoveArtifacts
    <3>1. artifacts' \in BOOLEAN
      BY <2>4 DEF RemoveArtifacts
    <3>2. exitCode' \in BOOLEAN
      BY <2>4 DEF RemoveArtifacts
    <3> QED
      BY <1>0, <2>4, <3>1, <3>2 DEF RemoveArtifacts
  <2> QED
    BY <1>9, <2>1, <2>2, <2>3, <2>4 DEF Retention
<1>10. CASE Process
  <2>1. CASE Boot
    BY <1>0, <2>1 DEF Boot
  <2>2. CASE Recover
    BY <1>0, <2>2 DEF Recover
  <2>3. CASE Serve \/ ServeUnread
    <3>1. overlooked' \in BOOLEAN
      BY <1>0, <2>3 DEF Serve, ServeUnread
    <3> QED
      BY <1>0, <2>3, <3>1 DEF Serve, ServeUnread
  <2>4. CASE BeginShutdown
    BY <1>0, <2>4 DEF BeginShutdown
  <2>5. CASE Exit
    BY <1>0, <1>e, <2>5 DEF Exit
  <2>6. CASE Crash
    BY <1>0, <1>e, <2>6 DEF Crash
  <2> QED
    BY <1>10, <2>1, <2>2, <2>3, <2>4, <2>5, <2>6 DEF Process
<1>11. ASSUME NEW q \in Request, Handle(q)
      PROVE  TypeOK'
  <2>1. CASE ResolveJob(q)
    BY <1>0, <2>1 DEF ResolveJob
  <2>2. CASE Ask(q)
    BY <1>0, <2>2 DEF Ask
  <2>3. CASE Kill(q)
    <3>0. alive \in BOOLEAN
      BY <1>0
    <3>1. alive' \in BOOLEAN
      BY <2>3, <3>0 DEF Kill
    <3> QED
      BY <1>0, <2>3, <3>1 DEF Kill
  <2>4. CASE WriteCancelled(q)
    BY <1>0, <2>4 DEF WriteCancelled
  <2>5. CASE MarkCancelled(q)
    BY <1>0, <2>5 DEF MarkCancelled
  <2>6. CASE RequestFails(q)
    BY <1>0, <2>6 DEF RequestFails
  <2> QED
    BY <1>11, <2>1, <2>2, <2>3, <2>4, <2>5, <2>6 DEF Handle
<1>12. CASE UNCHANGED vars
  BY <1>0, <1>12
<1> QED
  BY <1>1, <1>2, <1>3, <1>4, <1>5, <1>6, <1>7, <1>8, <1>9, <1>10, <1>11, <1>12
     DEF Next

(* NewSession is reached once: only from a claim, and nothing goes back.   *)
LEMMA StartStep ==
    ASSUME IInv, [Next]_vars
    PROVE  StartIsFirst'
<1> USE DEF Verdict, NoVerdict, FromApi, Early, StarterStep, CollectStep,
            Request, RequestStep, ResolvedBy, Resolve, Fault, ProcessEnds,
            StarterOnly, CollectorOnly, RequestOnly, CleanerOnly, Goto,
            ToRecord, NothingYet, ApiOpen, vars, jobVars, paneVars, collVars,
            bounds, starterRest, collectorRest, requestRest, processRest,
            bridgeVars,
            TypeOK, StartIsFirst, KnownIsStarted
<1>0. TypeOK /\ StartIsFirst /\ KnownIsStarted
  BY DEF IInv
<1>1. CASE Claim
  BY <1>0, <1>1 DEF Claim
<1>2. CASE Starter
  BY <1>0, <1>2 DEF Starter, Lookup, Begin, Requeue, Prepare, RefuseCwd,
     NewSession,
        WriteSession, Persist, StartFails, MarkFailed, MarkFails
<1>3. CASE WrapperWritesExitCode
  BY <1>0, <1>3 DEF WrapperWritesExitCode
<1>4. CASE SessionGone
  BY <1>0, <1>4 DEF SessionGone
<1>5. CASE Expire
  BY <1>0, <1>5 DEF Expire
<1>6. CASE Collector
  BY <1>0, <1>6 DEF Collector, CollectStart, ReadExitCode, KillExpired, Probe,
        AwaitExitCode, WriteCollected, Record, CollectFails
<1>7. CASE CancelJob
  BY <1>0, <1>7 DEF CancelJob
<1>8. CASE CompleteFromCallback
  BY <1>0, <1>8 DEF CompleteFromCallback
<1>9. CASE Retention
  BY <1>0, <1>9 DEF Retention, DeleteJob, SweepOrphan, ProbeArtifacts,
     RemoveArtifacts
<1>10. CASE Process
  BY <1>0, <1>10 DEF Process, Boot, Recover, Serve, ServeUnread,
     BeginShutdown, Exit, Crash
<1>11. ASSUME NEW q \in Request, Handle(q)
      PROVE  StartIsFirst'
  BY <1>0, <1>11 DEF Handle, ResolveJob, Ask, Kill, WriteCancelled,
        MarkCancelled, RequestFails
<1>12. CASE UNCHANGED vars
  BY <1>0, <1>12
<1> QED
  BY <1>1, <1>2, <1>3, <1>4, <1>5, <1>6, <1>7, <1>8, <1>9, <1>10, <1>11, <1>12
     DEF Next

(* Only Persist, which follows NewSession, makes a session known.          *)
LEMMA KnownStep ==
    ASSUME IInv, [Next]_vars
    PROVE  KnownIsStarted'
<1> USE DEF Verdict, NoVerdict, FromApi, Early, StarterStep, CollectStep,
            Request, RequestStep, ResolvedBy, Resolve, Fault, ProcessEnds,
            StarterOnly, CollectorOnly, RequestOnly, CleanerOnly, Goto,
            ToRecord, NothingYet, ApiOpen, vars, jobVars, paneVars, collVars,
            bounds, starterRest, collectorRest, requestRest, processRest,
            bridgeVars,
            TypeOK, StartIsFirst, KnownIsStarted
<1>0. TypeOK /\ StartIsFirst /\ KnownIsStarted
  BY DEF IInv
<1>1. CASE Claim
  BY <1>0, <1>1 DEF Claim
<1>2. CASE Starter
  BY <1>0, <1>2 DEF Starter, Lookup, Begin, Requeue, Prepare, RefuseCwd,
     NewSession,
        WriteSession, Persist, StartFails, MarkFailed, MarkFails
<1>3. CASE WrapperWritesExitCode
  BY <1>0, <1>3 DEF WrapperWritesExitCode
<1>4. CASE SessionGone
  BY <1>0, <1>4 DEF SessionGone
<1>5. CASE Expire
  BY <1>0, <1>5 DEF Expire
<1>6. CASE Collector
  BY <1>0, <1>6 DEF Collector, CollectStart, ReadExitCode, KillExpired, Probe,
        AwaitExitCode, WriteCollected, Record, CollectFails
<1>7. CASE CancelJob
  BY <1>0, <1>7 DEF CancelJob
<1>8. CASE CompleteFromCallback
  BY <1>0, <1>8 DEF CompleteFromCallback
<1>9. CASE Retention
  BY <1>0, <1>9 DEF Retention, DeleteJob, SweepOrphan, ProbeArtifacts,
     RemoveArtifacts
<1>10. CASE Process
  BY <1>0, <1>10 DEF Process, Boot, Recover, Serve, ServeUnread,
     BeginShutdown, Exit, Crash
<1>11. ASSUME NEW q \in Request, Handle(q)
      PROVE  KnownIsStarted'
  BY <1>0, <1>11 DEF Handle, ResolveJob, Ask, Kill, WriteCancelled,
        MarkCancelled, RequestFails
<1>12. CASE UNCHANGED vars
  BY <1>0, <1>12
<1> QED
  BY <1>1, <1>2, <1>3, <1>4, <1>5, <1>6, <1>7, <1>8, <1>9, <1>10, <1>11, <1>12
     DEF Next

(* A killed session stays dead, since no second one is started.            *)
LEMMA KilledStep ==
    ASSUME IInv, [Next]_vars
    PROVE  KilledIsDead'
<1> USE DEF Verdict, NoVerdict, FromApi, Early, StarterStep, CollectStep,
            Request, RequestStep, ResolvedBy, Resolve, Fault, ProcessEnds,
            StarterOnly, CollectorOnly, RequestOnly, CleanerOnly, Goto,
            ToRecord, NothingYet, ApiOpen, vars, jobVars, paneVars, collVars,
            bounds, starterRest, collectorRest, requestRest, processRest,
            bridgeVars,
            TypeOK, StartIsFirst, KnownIsStarted, KilledIsDead
<1>0. TypeOK /\ StartIsFirst /\ KnownIsStarted /\ KilledIsDead
  BY DEF IInv
<1>1. CASE Claim
  BY <1>0, <1>1 DEF Claim
<1>2. CASE Starter
  BY <1>0, <1>2 DEF Starter, Lookup, Begin, Requeue, Prepare, RefuseCwd,
     NewSession,
        WriteSession, Persist, StartFails, MarkFailed, MarkFails
<1>3. CASE WrapperWritesExitCode
  BY <1>0, <1>3 DEF WrapperWritesExitCode
<1>4. CASE SessionGone
  BY <1>0, <1>4 DEF SessionGone
<1>5. CASE Expire
  BY <1>0, <1>5 DEF Expire
<1>6. CASE Collector
  BY <1>0, <1>6 DEF Collector, CollectStart, ReadExitCode, KillExpired, Probe,
        AwaitExitCode, WriteCollected, Record, CollectFails
<1>7. CASE CancelJob
  BY <1>0, <1>7 DEF CancelJob
<1>8. CASE CompleteFromCallback
  BY <1>0, <1>8 DEF CompleteFromCallback
<1>9. CASE Retention
  BY <1>0, <1>9 DEF Retention, DeleteJob, SweepOrphan, ProbeArtifacts,
     RemoveArtifacts
<1>10. CASE Process
  BY <1>0, <1>10 DEF Process, Boot, Recover, Serve, ServeUnread,
     BeginShutdown, Exit, Crash
<1>11. ASSUME NEW q \in Request, Handle(q)
      PROVE  KilledIsDead'
  BY <1>0, <1>11 DEF Handle, ResolveJob, Ask, Kill, WriteCancelled,
        MarkCancelled, RequestFails
<1>12. CASE UNCHANGED vars
  BY <1>0, <1>12
<1> QED
  BY <1>1, <1>2, <1>3, <1>4, <1>5, <1>6, <1>7, <1>8, <1>9, <1>10, <1>11, <1>12
     DEF Next

(* collect fails a session that is over, and nothing revives it.           *)
LEMMA VerdictStep ==
    ASSUME IInv, [Next]_vars
    PROVE  CollectorIsRight'
<1> USE DEF Verdict, NoVerdict, FromApi, Early, StarterStep, CollectStep,
            Request, RequestStep, ResolvedBy, Resolve, Fault, ProcessEnds,
            StarterOnly, CollectorOnly, RequestOnly, CleanerOnly, Goto,
            ToRecord, NothingYet, ApiOpen, vars, jobVars, paneVars, collVars,
            bounds, starterRest, collectorRest, requestRest, processRest,
            bridgeVars,
            TypeOK, StartIsFirst, KnownIsStarted, CollectorIsRight
<1>0. TypeOK /\ StartIsFirst /\ KnownIsStarted /\ CollectorIsRight
  BY DEF IInv
<1>1. CASE Claim
  BY <1>0, <1>1 DEF Claim
<1>2. CASE Starter
  BY <1>0, <1>2 DEF Starter, Lookup, Begin, Requeue, Prepare, RefuseCwd,
     NewSession,
        WriteSession, Persist, StartFails, MarkFailed, MarkFails
<1>3. CASE WrapperWritesExitCode
  BY <1>0, <1>3 DEF WrapperWritesExitCode
<1>4. CASE SessionGone
  BY <1>0, <1>4 DEF SessionGone
<1>5. CASE Expire
  BY <1>0, <1>5 DEF Expire
<1>6. CASE Collector
  BY <1>0, <1>6 DEF Collector, CollectStart, ReadExitCode, KillExpired, Probe,
        AwaitExitCode, WriteCollected, Record, CollectFails
<1>7. CASE CancelJob
  BY <1>0, <1>7 DEF CancelJob
<1>8. CASE CompleteFromCallback
  BY <1>0, <1>8 DEF CompleteFromCallback
<1>9. CASE Retention
  BY <1>0, <1>9 DEF Retention, DeleteJob, SweepOrphan, ProbeArtifacts,
     RemoveArtifacts
<1>10. CASE Process
  BY <1>0, <1>10 DEF Process, Boot, Recover, Serve, ServeUnread,
     BeginShutdown, Exit, Crash
<1>11. ASSUME NEW q \in Request, Handle(q)
      PROVE  CollectorIsRight'
  BY <1>0, <1>11 DEF Handle, ResolveJob, Ask, Kill, WriteCancelled,
        MarkCancelled, RequestFails
<1>12. CASE UNCHANGED vars
  BY <1>0, <1>12
<1> QED
  BY <1>1, <1>2, <1>3, <1>4, <1>5, <1>6, <1>7, <1>8, <1>9, <1>10, <1>11, <1>12
     DEF Next

(* No handler and no start is under way before the process serves.         *)
LEMMA RecoveryStep ==
    ASSUME IInv, [Next]_vars
    PROVE  RecoveryIsAlone'
<1> USE DEF Verdict, NoVerdict, FromApi, Early, StarterStep, CollectStep,
            Request, RequestStep, ResolvedBy, Resolve, Fault, ProcessEnds,
            StarterOnly, CollectorOnly, RequestOnly, CleanerOnly, Goto,
            ToRecord, NothingYet, ApiOpen, vars, jobVars, paneVars, collVars,
            bounds, starterRest, collectorRest, requestRest, processRest,
            bridgeVars,
            TypeOK, StartIsFirst, KnownIsStarted, KilledIsDead, RecoveryIsAlone
<1>0. /\ TypeOK /\ StartIsFirst /\ KnownIsStarted /\ KilledIsDead
      /\ RecoveryIsAlone
  BY DEF IInv
<1>1. CASE Claim
  BY <1>0, <1>1 DEF Claim
<1>2. CASE Starter
  BY <1>0, <1>2 DEF Starter, Lookup, Begin, Requeue, Prepare, RefuseCwd,
     NewSession,
        WriteSession, Persist, StartFails, MarkFailed, MarkFails
<1>3. CASE WrapperWritesExitCode
  BY <1>0, <1>3 DEF WrapperWritesExitCode
<1>4. CASE SessionGone
  BY <1>0, <1>4 DEF SessionGone
<1>5. CASE Expire
  BY <1>0, <1>5 DEF Expire
<1>6. CASE Collector
  BY <1>0, <1>6 DEF Collector, CollectStart, ReadExitCode, KillExpired, Probe,
        AwaitExitCode, WriteCollected, Record, CollectFails
<1>7. CASE CancelJob
  BY <1>0, <1>7 DEF CancelJob
<1>8. CASE CompleteFromCallback
  BY <1>0, <1>8 DEF CompleteFromCallback
<1>9. CASE Retention
  BY <1>0, <1>9 DEF Retention, DeleteJob, SweepOrphan, ProbeArtifacts,
     RemoveArtifacts
<1>10. CASE Process
  BY <1>0, <1>10 DEF Process, Boot, Recover, Serve, ServeUnread,
     BeginShutdown, Exit, Crash
<1>11. ASSUME NEW q \in Request, Handle(q)
      PROVE  RecoveryIsAlone'
  BY <1>0, <1>11 DEF Handle, ResolveJob, Ask, Kill, WriteCancelled,
        MarkCancelled, RequestFails
<1>12. CASE UNCHANGED vars
  BY <1>0, <1>12
<1> QED
  BY <1>1, <1>2, <1>3, <1>4, <1>5, <1>6, <1>7, <1>8, <1>9, <1>10, <1>11, <1>12
     DEF Next

(* removeArtifacts begins only when no session can be started any more.    *)
LEMMA FilesStep ==
    ASSUME IInv, [Next]_vars
    PROVE  FilesAreThere'
<1> USE DEF Verdict, NoVerdict, FromApi, Early, StarterStep, CollectStep,
            Request, RequestStep, ResolvedBy, Resolve, Fault, ProcessEnds,
            StarterOnly, CollectorOnly, RequestOnly, CleanerOnly, Goto,
            ToRecord, NothingYet, ApiOpen, vars, jobVars, paneVars, collVars,
            bounds, starterRest, collectorRest, requestRest, processRest,
            bridgeVars,
            TypeOK, StartIsFirst, KnownIsStarted, FilesAreThere
<1>0. TypeOK /\ StartIsFirst /\ KnownIsStarted /\ FilesAreThere
  BY DEF IInv
<1>1. CASE Claim
  BY <1>0, <1>1 DEF Claim
<1>2. CASE Starter
  BY <1>0, <1>2 DEF Starter, Lookup, Begin, Requeue, Prepare, RefuseCwd,
     NewSession,
        WriteSession, Persist, StartFails, MarkFailed, MarkFails
<1>3. CASE WrapperWritesExitCode
  BY <1>0, <1>3 DEF WrapperWritesExitCode
<1>4. CASE SessionGone
  BY <1>0, <1>4 DEF SessionGone
<1>5. CASE Expire
  BY <1>0, <1>5 DEF Expire
<1>6. CASE Collector
  BY <1>0, <1>6 DEF Collector, CollectStart, ReadExitCode, KillExpired, Probe,
        AwaitExitCode, WriteCollected, Record, CollectFails
<1>7. CASE CancelJob
  BY <1>0, <1>7 DEF CancelJob
<1>8. CASE CompleteFromCallback
  BY <1>0, <1>8 DEF CompleteFromCallback
<1>9. CASE Retention
  BY <1>0, <1>9 DEF Retention, DeleteJob, SweepOrphan, ProbeArtifacts,
     RemoveArtifacts
<1>10. CASE Process
  BY <1>0, <1>10 DEF Process, Boot, Recover, Serve, ServeUnread,
     BeginShutdown, Exit, Crash
<1>11. ASSUME NEW q \in Request, Handle(q)
      PROVE  FilesAreThere'
  BY <1>0, <1>11 DEF Handle, ResolveJob, Ask, Kill, WriteCancelled,
        MarkCancelled, RequestFails
<1>12. CASE UNCHANGED vars
  BY <1>0, <1>12
<1> QED
  BY <1>1, <1>2, <1>3, <1>4, <1>5, <1>6, <1>7, <1>8, <1>9, <1>10, <1>11, <1>12
     DEF Next

(* The request that resolves a job goes on to the session it can see, also *)
(* when the session became known after the request had read the job.       *)
LEMMA SomebodyStep ==
    ASSUME IInv, [Next]_vars
    PROVE  SomebodyEndsIt'
<1> USE DEF Verdict, NoVerdict, FromApi, Early, StarterStep, CollectStep,
            Request, RequestStep, ResolvedBy, Resolve, Fault, ProcessEnds,
            StarterOnly, CollectorOnly, RequestOnly, CleanerOnly, Goto,
            ToRecord, NothingYet, ApiOpen, vars, jobVars, paneVars, collVars,
            bounds, starterRest, collectorRest, requestRest, processRest,
            bridgeVars,
            TypeOK, StartIsFirst, KnownIsStarted, KilledIsDead, SomebodyEndsIt
<1>0. TypeOK /\ StartIsFirst /\ KnownIsStarted /\ KilledIsDead /\ SomebodyEndsIt
  BY DEF IInv
<1>1. CASE Claim
  BY <1>0, <1>1 DEF Claim
<1>2. CASE Starter
  <2>1. CASE Lookup
    BY <1>0, <2>1 DEF Lookup
  <2>2. CASE Begin
    BY <1>0, <2>2 DEF Begin
  <2>3. CASE Requeue
    BY <1>0, <2>3 DEF Requeue
  <2>4. CASE Prepare
    BY <1>0, <2>4 DEF Prepare
  <2>5. CASE RefuseCwd
    BY <1>0, <2>5 DEF RefuseCwd
  <2>6. CASE NewSession
    BY <1>0, <2>6 DEF NewSession
  <2>7. CASE WriteSession
    BY <1>0, <2>7 DEF WriteSession
  <2>8. CASE Persist
    BY <1>0, <2>8 DEF Persist
  <2>9. CASE StartFails
    BY <1>0, <2>9 DEF StartFails
  <2>10. CASE MarkFailed
    BY <1>0, <2>10 DEF MarkFailed
  <2>11. CASE MarkFails
    BY <1>0, <2>11 DEF MarkFails
  <2> QED
    BY <1>2, <2>1, <2>2, <2>3, <2>4, <2>5, <2>6, <2>7, <2>8, <2>9, <2>10, <2>11
       DEF Starter
<1>3. CASE WrapperWritesExitCode
  BY <1>0, <1>3 DEF WrapperWritesExitCode
<1>4. CASE SessionGone
  BY <1>0, <1>4 DEF SessionGone
<1>5. CASE Expire
  BY <1>0, <1>5 DEF Expire
<1>6. CASE Collector
  <2>1. CASE CollectStart
    BY <1>0, <2>1 DEF CollectStart
  <2>2. CASE ReadExitCode
    BY <1>0, <2>2 DEF ReadExitCode
  <2>3. CASE KillExpired
    BY <1>0, <2>3 DEF KillExpired
  <2>4. CASE Probe
    BY <1>0, <2>4 DEF Probe
  <2>5. CASE AwaitExitCode
    BY <1>0, <2>5 DEF AwaitExitCode
  <2>6. CASE WriteCollected
    BY <1>0, <2>6 DEF WriteCollected
  <2>7. CASE Record
    BY <1>0, <2>7 DEF Record
  <2>8. CASE CollectFails
    BY <1>0, <2>8 DEF CollectFails
  <2> QED
    BY <1>6, <2>1, <2>2, <2>3, <2>4, <2>5, <2>6, <2>7, <2>8 DEF Collector
<1>7. CASE CancelJob
  BY <1>0, <1>7 DEF CancelJob
<1>8. CASE CompleteFromCallback
  BY <1>0, <1>8 DEF CompleteFromCallback
<1>9. CASE Retention
  <2>1. CASE DeleteJob
    BY <1>0, <2>1 DEF DeleteJob
  <2>2. CASE SweepOrphan
    BY <1>0, <2>2 DEF SweepOrphan
  <2>3. CASE ProbeArtifacts
    BY <1>0, <2>3 DEF ProbeArtifacts
  <2>4. CASE RemoveArtifacts
    BY <1>0, <2>4 DEF RemoveArtifacts
  <2> QED
    BY <1>9, <2>1, <2>2, <2>3, <2>4 DEF Retention
<1>10. CASE Process
  <2>1. CASE Boot
    BY <1>0, <2>1 DEF Boot
  <2>2. CASE Recover
    BY <1>0, <2>2 DEF Recover
  <2>3. CASE Serve \/ ServeUnread
    BY <1>0, <2>3 DEF Serve, ServeUnread
  <2>4. CASE BeginShutdown
    BY <1>0, <2>4 DEF BeginShutdown
  <2>5. CASE Exit
    BY <1>0, <2>5 DEF Exit
  <2>6. CASE Crash
    BY <1>0, <2>6 DEF Crash
  <2> QED
    BY <1>10, <2>1, <2>2, <2>3, <2>4, <2>5, <2>6 DEF Process
<1>11. ASSUME NEW q \in Request, Handle(q)
      PROVE  SomebodyEndsIt'
  <2>1. CASE ResolveJob(q)
    BY <1>0, <2>1 DEF ResolveJob
  <2>2. CASE Ask(q)
    BY <1>0, <2>2 DEF Ask
  <2>3. CASE Kill(q)
    BY <1>0, <2>3 DEF Kill
  <2>4. CASE WriteCancelled(q)
    BY <1>0, <2>4 DEF WriteCancelled
  <2>5. CASE MarkCancelled(q)
    BY <1>0, <2>5 DEF MarkCancelled
  <2>6. CASE RequestFails(q)
    BY <1>0, <2>6 DEF RequestFails
  <2> QED
    BY <1>11, <2>1, <2>2, <2>3, <2>4, <2>5, <2>6 DEF Handle
<1>12. CASE UNCHANGED vars
  BY <1>0, <1>12
<1> QED
  BY <1>1, <1>2, <1>3, <1>4, <1>5, <1>6, <1>7, <1>8, <1>9, <1>10, <1>11, <1>12
     DEF Next

-----------------------------------------------------------------------------
(* IInv holds in every reachable state.                                    *)
THEOREM Invariance == Spec => []IInv
<1>1. Init => IInv
  <2> SUFFICES ASSUME Init PROVE IInv
    OBVIOUS
  <2> USE DEF Verdict, NoVerdict, FromApi, Early, StarterStep, CollectStep,
              Request, RequestStep
  <2>1. /\ artifacts \in BOOLEAN
        /\ exitCode \in BOOLEAN
        /\ alive \in BOOLEAN
        /\ expired \in BOOLEAN
    BY Zenon DEF Init
  <2>2. TypeOK
    BY <2>1 DEF Init, TypeOK
  <2>3. StartIsFirst /\ KnownIsStarted /\ KilledIsDead /\ CollectorIsRight
    BY DEF Init, StartIsFirst, KnownIsStarted, KilledIsDead, CollectorIsRight
  <2>4. RecoveryIsAlone /\ FilesAreThere /\ SomebodyEndsIt
    BY DEF Init, RecoveryIsAlone, FilesAreThere, SomebodyEndsIt
  <2> QED
    BY <2>2, <2>3, <2>4 DEF IInv
<1>2. IInv /\ [Next]_vars => IInv'
  BY TypeStep, StartStep, KnownStep, KilledStep, VerdictStep, RecoveryStep,
     FilesStep, SomebodyStep DEF IInv
<1> QED
  BY <1>1, <1>2, PTL DEF Spec

(* Every variable of the tmux job keeps its type.                          *)
THEOREM TypeCorrectness == Spec => []TypeOK
<1>1. IInv => TypeOK
  BY DEF IInv
<1> QED
  BY Invariance, <1>1, PTL

(* startTmuxJob starts at most one session, across requeues and restarts.  *)
THEOREM StartedOnce == Spec => []SessionStartedOnce
<1>1. IInv => SessionStartedOnce
  BY DEF IInv, StartIsFirst, SessionStartedOnce
<1> QED
  BY Invariance, <1>1, PTL

(* collect fails a job as vanished or timed out only when its session is   *)
(* over, as long as no tmux command fails.                                 *)
THEOREM FailureIsReal == Spec => []FailedSessionIsOver
<1>1. IInv => FailedSessionIsOver
  BY DEF IInv, CollectorIsRight, FailedSessionIsOver
<1> QED
  BY Invariance, <1>1, PTL

(* collect does not overlook an exit code that comes late.                 *)
THEOREM ExitCodeIsUsed == Spec => []ExitCodeCounts
<1>1. IInv => ExitCodeCounts
  BY DEF IInv, CollectorIsRight, ExitCodeCounts
<1> QED
  BY Invariance, <1>1, PTL

(* recoverInterruptedJobs interrupts no job whose file names its session.  *)
THEOREM RestartKeepsSessions == Spec => []KnownSessionSurvivesRestart
<1>1. IInv => KnownSessionSurvivesRestart
  BY DEF IInv, RecoveryIsAlone, KnownSessionSurvivesRestart
<1> QED
  BY Invariance, <1>1, PTL

(* removeArtifacts does not touch the files of a session that lives.       *)
THEOREM ArtifactsStay == Spec => []ArtifactsOutliveSession
<1>1. IInv => ArtifactsOutliveSession
  BY DEF IInv, FilesAreThere, ArtifactsOutliveSession
<1> QED
  BY Invariance, <1>1, PTL

(* cancelJob and completeJobFromCallback end the session they know of.     *)
THEOREM ApiEndsSession == Spec => []ResolvedSessionIsEnded
<1>1. IInv => ResolvedSessionIsEnded
  BY DEF IInv, TypeOK, SomebodyEndsIt, ResolvedSessionIsEnded, Request,
     RequestStep
<1> QED
  BY Invariance, <1>1, PTL

-----------------------------------------------------------------------------
(* The file of a job in tmux mode follows JobLifecycle from its submission *)
(* on. An exit code and a callback may mean a success as well as a failure;*)
(* the life of the file is the same. A deleted file stays what it was.     *)
FileStatus ==
    IF status \in {"queued", "running"} THEN status
    ELSE CASE verdict \in {"exit", "callback"} -> "succeeded"
           [] verdict = "cancel"               -> "cancelled"
           [] OTHER                            -> "failed"

FileAuthor ==
    CASE verdict = NoVerdict     -> "nobody"
      [] verdict \in FromApi     -> verdict
      [] verdict = "interrupted" -> "recovery"
      [] OTHER                   -> "execution"

Lifecycle ==
    INSTANCE JobLifecycle
    WITH MaxJobs <- 1, MaxActiveJobs <- 1, MaxConcurrency <- 1,
         status <- [j \in 1 .. 1 |-> FileStatus],
         author <- [j \in 1 .. 1 |-> FileAuthor],
         lapse <- 0

(* What the collector records is a result.                                 *)
ResultIsKnown ==
    collector \in {"writing", "recording"} =>
        outcome \in {"exit", "timeout", "vanished"}

LEMMA ResultIsKnownStep ==
    ASSUME ResultIsKnown, [Next]_vars
    PROVE  ResultIsKnown'
<1> USE DEF ResultIsKnown, ProcessEnds, collVars, collectorRest, processRest
<1>1. CASE Claim \/ Starter
  BY <1>1 DEF Claim, Starter, Lookup, Begin, Requeue, Prepare, RefuseCwd, NewSession,
     WriteSession, Persist, StartFails, MarkFailed, MarkFails, StarterOnly,
     starterRest
<1>2. CASE Collector
  BY <1>2 DEF Collector, CollectStart, ReadExitCode, KillExpired, Probe,
     AwaitExitCode, WriteCollected, Record, CollectFails, ToRecord, NothingYet,
     CollectorOnly
<1>3. CASE WrapperWritesExitCode \/ SessionGone \/ Expire \/ UNCHANGED vars
  BY <1>3 DEF WrapperWritesExitCode, SessionGone, Expire, bridgeVars, vars
<1>4. CASE CancelJob \/ CompleteFromCallback
  BY <1>4 DEF CancelJob, CompleteFromCallback, RequestOnly, requestRest
<1>5. ASSUME NEW q \in Request, Handle(q)
      PROVE  ResultIsKnown'
  BY <1>5 DEF Handle, ResolveJob, Ask, Kill, WriteCancelled, MarkCancelled,
     RequestFails, RequestOnly, requestRest
<1>6. CASE Retention
  BY <1>6 DEF Retention, DeleteJob, SweepOrphan, ProbeArtifacts, RemoveArtifacts,
     CleanerOnly
<1>7. CASE Process
  BY <1>7 DEF Process, Boot, Recover, Serve, ServeUnread,
     BeginShutdown, Exit, Crash
<1> QED
  BY <1>1, <1>2, <1>3, <1>4, <1>5, <1>6, <1>7 DEF Next

(* The first result is one its author may write, and no later one counts.  *)
LEMMA ResolvingIsAStep ==
    ASSUME TypeOK, StartIsFirst, NEW v \in Verdict, NEW from,
           from \subseteq {"queued", "running"}, Resolve(from, v),
           v \in FromApi \/ from = {"running"}
    PROVE  [Lifecycle!Next]_Lifecycle!lifecycleVars
<1> USE DEF FileStatus, FileAuthor, FromApi, NoVerdict, Verdict, TypeOK,
        StartIsFirst
<1>1. CASE status \notin from
  BY <1>1 DEF Resolve, Lifecycle!lifecycleVars
<1>2. CASE status \in from
  <2>1. /\ status' = "resolved" /\ verdict' = v
        /\ status \in {"queued", "running"} /\ verdict = "none"
    BY <1>2 DEF Resolve
  <2>2. /\ FileAuthor' \in Lifecycle!Author
        /\ FileStatus' \in Lifecycle!Terminal
        /\ Lifecycle!MayResolve(FileAuthor', FileStatus, FileStatus')
    BY <1>2, <2>1 DEF Lifecycle!Author, Lifecycle!Terminal, Lifecycle!MayResolve
  <2>3. Lifecycle!Resolve(1, FileAuthor', FileStatus')
    <3> HIDE DEF FileStatus, FileAuthor
    <3>1. \A a, b : [j \in 1 .. 1 |-> b] = [[j \in 1 .. 1 |-> a] EXCEPT ![1] = b]
      OBVIOUS
    <3>2. [j \in 1 .. 1 |-> FileStatus][1] = FileStatus
      OBVIOUS
    <3> QED
      BY <2>2, <3>1, <3>2 DEF Lifecycle!Resolve
  <2> QED
    BY <2>2, <2>3 DEF Lifecycle!Next, Lifecycle!Job
<1> QED
  BY <1>1, <1>2

LEMMA FileStep ==
    ASSUME IInv, ResultIsKnown, [Next]_vars
    PROVE  [Lifecycle!Next]_Lifecycle!lifecycleVars
<1> USE DEF IInv
<1>0. TypeOK /\ StartIsFirst
  OBVIOUS
<1>1. ASSUME UNCHANGED verdict,
             \/ UNCHANGED status
             \/ status \notin {"queued", "running"} /\ status' = "deleted"
      PROVE  [Lifecycle!Next]_Lifecycle!lifecycleVars
  BY <1>1 DEF FileStatus, FileAuthor, Lifecycle!lifecycleVars
<1>2. CASE Claim
  <2>1. /\ status = "queued" /\ status' = "running" /\ verdict' = verdict
        /\ verdict = NoVerdict
    BY <1>0, <1>2 DEF Claim, StartIsFirst
  <2>2. Lifecycle!With({"running"}) = {}
    BY <2>1 DEF Lifecycle!With, Lifecycle!Job, FileStatus
  <2>3. Lifecycle!Cardinality(Lifecycle!With({"running"})) = 0
    BY <2>2, FS_EmptySet DEF Lifecycle!Cardinality, Cardinality
  <2>4. Lifecycle!Claim(1)
    BY <2>1, <2>3 DEF Lifecycle!Claim, FileStatus, FileAuthor, NoVerdict
  <2> QED
    BY <2>4 DEF Lifecycle!Next, Lifecycle!Job
<1>3. CASE Requeue
  <2>1. CASE status = "running"
    <3>1. status' = "queued" /\ verdict' = verdict /\ verdict = NoVerdict
      BY <1>0, <1>3, <2>1 DEF Requeue, StartIsFirst
    <3>2. Lifecycle!Requeue(1)
      BY <2>1, <3>1 DEF Lifecycle!Requeue, FileStatus, FileAuthor, NoVerdict
    <3> QED
      BY <3>2 DEF Lifecycle!Next, Lifecycle!Job
  <2> QED
    BY <1>1, <1>3, <2>1 DEF Requeue
<1>4. CASE MarkFailed
  BY <1>0, <1>4, ResolvingIsAStep DEF MarkFailed, Verdict
<1>5. CASE Record
  BY <1>0, <1>5, ResolvingIsAStep DEF Record, Verdict, ResultIsKnown
<1>6. CASE Recover
  <2>1. CASE Resolve({"running"}, "interrupted")
    BY <1>0, <2>1, ResolvingIsAStep DEF Verdict
  <2> QED
    BY <1>1, <1>6, <2>1 DEF Recover
<1>7. ASSUME NEW q \in Request, ResolveJob(q)
      PROVE  [Lifecycle!Next]_Lifecycle!lifecycleVars
  <2>1. ResolvedBy(q) \in FromApi /\ ResolvedBy(q) \in Verdict
    BY DEF ResolvedBy, FromApi, Verdict
  <2> QED
    BY <1>0, <1>7, <2>1, ResolvingIsAStep DEF ResolveJob
<1>8. CASE Starter /\ ~Requeue /\ ~MarkFailed
  BY <1>1, <1>8 DEF Starter, Lookup, Begin, Prepare, RefuseCwd, NewSession,
     WriteSession, Persist, StartFails, MarkFails, StarterOnly, ProcessEnds, jobVars
<1>9. CASE Collector /\ ~Record
  BY <1>1, <1>9 DEF Collector, CollectStart, ReadExitCode, KillExpired, Probe,
     AwaitExitCode, WriteCollected, CollectFails, CollectorOnly, ProcessEnds,
     jobVars, processRest
<1>10. CASE WrapperWritesExitCode \/ SessionGone \/ Expire \/ UNCHANGED vars
  BY <1>1, <1>10 DEF WrapperWritesExitCode, SessionGone, Expire, jobVars, vars
<1>11. CASE CancelJob \/ CompleteFromCallback
  BY <1>1, <1>11 DEF CancelJob, CompleteFromCallback, RequestOnly, jobVars
<1>12. ASSUME NEW q \in Request, Handle(q), ~ResolveJob(q)
      PROVE  [Lifecycle!Next]_Lifecycle!lifecycleVars
  BY <1>1, <1>12 DEF Handle, Ask, Kill, WriteCancelled, MarkCancelled, RequestFails,
     RequestOnly, jobVars
<1>13. CASE Retention
  BY <1>1, <1>13 DEF Retention, DeleteJob, SweepOrphan, ProbeArtifacts,
     RemoveArtifacts, CleanerOnly
<1>14. CASE Process /\ ~Recover
  BY <1>1, <1>14 DEF Process, Boot, Serve, ServeUnread, BeginShutdown,
     Exit, Crash, ProcessEnds, jobVars, processRest
<1> QED
  BY <1>2, <1>3, <1>4, <1>5, <1>6, <1>7, <1>8, <1>9, <1>10, <1>11, <1>12, <1>13,
     <1>14 DEF Next

(* A tmux job's file is claimed, requeued and resolved as JobLifecycle     *)
(* says: once, by somebody who may, and for good, although its session     *)
(* outlives the bridge, and whichever of the collector, the recovery, the  *)
(* start and the two routes gets there first.                              *)
THEOREM TmuxFollowsLifecycle ==
    Spec => [][Lifecycle!Next]_Lifecycle!lifecycleVars
<1>1. Init => ResultIsKnown
  BY DEF Init, ResultIsKnown
<1>2. ResultIsKnown /\ [Next]_vars => ResultIsKnown'
  BY ResultIsKnownStep
<1>3. IInv /\ ResultIsKnown /\ [Next]_vars
          => [Lifecycle!Next]_Lifecycle!lifecycleVars
  BY FileStep
<1> QED
  BY <1>1, <1>2, <1>3, Invariance, PTL DEF Spec
=============================================================================
