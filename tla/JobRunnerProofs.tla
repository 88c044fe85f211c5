-------------------------- MODULE JobRunnerProofs ---------------------------
(***************************************************************************)
(* What JobRunner guarantees for every number of jobs, every limit and     *)
(* every number of restarts: the inductive invariant, the safety           *)
(* properties that follow from it, the refinement of JobLifecycle, and     *)
(* that its executions are what ExecContract says.                         *)
(***************************************************************************)
EXTENDS JobRunner, FiniteSetTheorems, TLAPS

(* The slots taken: runs, running files, and the claim on its way.         *)
Pending == IF claimStep \in {"chosen", "written"} THEN {chosen} ELSE {}
Occupied == inFlight \cup With({"running"}) \cup Pending

(* No process, or one that has not begun to tick, has no work under way.   *)
Quiet ==
    phase \in {"down", "recovering"} =>
        /\ inFlight = {}
        /\ claimStep = "idle"
        /\ creating = 0

RunsAreInFlight ==
    \A j \in Job :
        /\ j \in inFlight <=> run[j] # "none"
        /\ j \in inFlight => status[j] \in {"running"} \cup Terminal
        /\ run[j] = "settled" => result[j] \in Terminal

(* A running file that the snapshot does not show is one it leaves out.    *)
ClaimIsSound ==
    /\ claimStep \in {"chosen", "written", "undo"} =>
           chosen \in Job /\ chosen \notin inFlight
    /\ claimStep \in {"written", "undo"} =>
           status[chosen] \in {"running"} \cup Terminal
    /\ claimStep = "listed" =>
           \A j \in Job :
               status[j] = "running" => seen[j] = "running" \/ j \in unread

(* The runs are counted in memory, and keep to the limit; the running      *)
(* files are counted by listings.                                          *)
RunsFit == Cardinality(inFlight \cup Pending) =< MaxConcurrency

SlotsSuffice == Cardinality(Occupied) =< MaxConcurrency + lapse

UnreadIsSmall == Cardinality(unread) =< lapse

CreateIsSound ==
    /\ creating \in {0, 1}
    /\ creating = 1 => Cardinality(With(Active)) < MaxActiveJobs + lapse

NotYetExecuted ==
    /\ \A j \in Job :
           status[j] \in {"absent", "queued"}
           \/ run[j] \in {"lookup", "found", "requeue", "starting"}
             => j \notin executed
    /\ claimStep \in {"written", "undo"} => chosen \notin executed

LockIsHeld ==
    /\ phase \in {"recovering", "serving", "draining"} => instanceLock
    /\ LockCoversWork
    /\ ShuttingDown => inFlight \subseteq captured

AbortIsComplete ==
    /\ ShutdownStopsChildren
    /\ phase = "serving" =>
           \A j \in Job :
               run[j] \in {"starting", "executing"} => j \in controllers

UnresolvedHasNoAuthor ==
    \A j \in Job : status[j] \notin Terminal => author[j] = NoAuthor

Bookkeeping ==
    /\ Quiet
    /\ UnresolvedHasNoAuthor
    /\ RunsAreInFlight
    /\ ClaimIsSound
    /\ NotYetExecuted
    /\ LockIsHeld
    /\ AbortIsComplete
    /\ RunningIsOwned

IInv ==
    /\ TypeOK
    /\ Bookkeeping
    /\ UnreadIsSmall
    /\ RunsFit
    /\ SlotsSuffice
    /\ CreateIsSound

-----------------------------------------------------------------------------
USE LimitsAssumption, BoundsAssumption, FaultsAssumption

LEMMA JobsAreFinite ==
    ASSUME NEW S \in SUBSET Job
    PROVE  IsFiniteSet(S) /\ Cardinality(S) \in Nat
<1>1. IsFiniteSet(Job)
  BY FS_Interval DEF Job
<1> QED
  BY <1>1, FS_Subset, FS_CardinalityType

LEMMA FewerJobs ==
    ASSUME NEW S \in SUBSET Job, NEW T \in SUBSET S
    PROVE  Cardinality(T) =< Cardinality(S)
BY JobsAreFinite, FS_Subset

(* What a listing does to the counters of the disk.                        *)
LEMMA ListingCounts ==
    ASSUME faults \in Nat, lapse \in Nat, NEW S \in SUBSET Job, Listing(S)
    PROVE  /\ faults' \in Nat /\ lapse' \in Nat
           /\ lapse =< lapse' /\ Cardinality(S) =< lapse'
<1>1. Cardinality(S) \in Nat
  BY JobsAreFinite
<1> QED
  BY <1>1 DEF Listing

(* The end of a cancellation, and of a notification.                       *)
ApiStep(j) ==
    \/ RunnerCancel(j)
    \/ RunnerCancelFails(j)
    \/ Notify(j)
    \/ NotifyFails(j)

(* Every step keeps the types. Two of them need more than the types: the   *)
(* job a claim admits is a job, and a settled run has a terminal result.   *)
LEMMA TypeStep ==
    ASSUME IInv, [Next]_vars
    PROVE  TypeOK'
<1> USE DEF Terminal, Active, Status, Author, NoAuthor, Phase,
            ClaimStep, RunStep, NoResult, TypeOK, QueueTypeOK, durableVars,
            claimVars, queueVars, runVars, apiVars, shutVars, bounds, diskVars, startVars, vars,
            With, NoSnapshot
<1>0. TypeOK
  BY DEF IInv
<1>1. CASE Create
  <2>1. CASE CreateAdmit
    <3>1. PICK skip \in SUBSET Job : Listing(skip)
      BY <2>1 DEF CreateAdmit
    <3>2. faults' \in Nat /\ lapse' \in Nat
      BY <1>0, <3>1, ListingCounts
    <3> QED
      BY <1>0, <1>1, <2>1, <3>2 DEF Create, CreateAdmit
  <2>2. ASSUME NEW j \in Job, CreateSave(j)
        PROVE  TypeOK'
    BY <1>0, <1>1, <2>2 DEF Create, CreateSave
  <2>3. CASE CreateFails
    BY <1>0, <1>1, <2>3 DEF Create, CreateFails, FileFails
  <2> QED
    BY <1>1, <2>1, <2>2, <2>3 DEF Create
<1>2. CASE ClaimWithoutRun
  <2>1. CASE ClaimList
    <3>1. PICK skip \in SUBSET Job :
              /\ Listing(skip)
              /\ unread' = skip
              /\ seen' = [j \in Job |-> IF j \in skip THEN "absent" ELSE status[j]]
      BY <2>1 DEF ClaimList
    <3>2. faults' \in Nat /\ lapse' \in Nat
      BY <1>0, <3>1, ListingCounts
    <3>3. seen' \in [Job -> Status]
      BY <1>0, <3>1
    <3> QED
      BY <1>0, <1>2, <2>1, <3>1, <3>2, <3>3 DEF ClaimWithoutRun, ClaimList
  <2>2. ASSUME NEW j \in Job, ClaimChoose(j)
        PROVE  TypeOK'
    BY <1>0, <1>2, <2>2 DEF ClaimWithoutRun, ClaimChoose
  <2>3. CASE ClaimNothing
    BY <1>0, <1>2, <2>3 DEF ClaimWithoutRun, ClaimNothing, ClaimIdle
  <2>4. CASE ClaimWrite
    BY <1>0, <1>2, <2>4 DEF ClaimWithoutRun, ClaimWrite, ClaimIdle, Transition
  <2>5. CASE ClaimLate
    BY <1>0, <1>2, <2>5 DEF ClaimWithoutRun, ClaimLate
  <2>6. CASE ClaimUndo
    BY <1>0, <1>2, <2>6 DEF ClaimWithoutRun, ClaimUndo, ClaimIdle, Transition
  <2> QED
    BY <1>2, <2>1, <2>2, <2>3, <2>4, <2>5, <2>6 DEF ClaimWithoutRun
<1>3. CASE Admit
  BY <1>0, <1>3 DEF Admit, ClaimAdmit, ClaimIdle, IInv, Bookkeeping,
     ClaimIsSound
<1>4. ASSUME NEW j \in Job, ExecuteJob(j)
      PROVE  TypeOK'
  <2>1. CASE Lookup(j)
    BY <1>0, <2>1 DEF Lookup, EndRun
  <2>2. CASE Start(j)
    BY <1>0, <2>2 DEF Start
  <2>3. CASE Requeue(j)
    BY <1>0, <2>3 DEF Requeue, Transition, EndRun
  <2>4. CASE Spawn(j)
    BY <1>0, <2>4 DEF Spawn, Settle
  <2>5. CASE RefuseCwd(j)
    BY <1>0, <2>5 DEF RefuseCwd, Settle
  <2>6. CASE ChildGone(j)
    BY <1>0, <2>6 DEF ChildGone, Settle
  <2>7. CASE Record(j)
    BY <1>0, <2>7 DEF Record, Transition, NotifyIfWritten, EndRun, IInv,
       Bookkeeping, RunsAreInFlight
  <2>8. CASE RecordFails(j)
    BY <1>0, <2>8 DEF RecordFails, FileFails
  <2>9. CASE MarkFailed(j)
    BY <1>0, <2>9 DEF MarkFailed, Transition, NotifyIfWritten, EndRun
  <2> QED
    BY <1>4, <2>1, <2>2, <2>3, <2>4, <2>5, <2>6, <2>7, <2>8, <2>9
    DEF ExecuteJob
<1>5. ASSUME NEW j \in Job, CancelJob(j) \/ CompleteFromCallback(j)
      PROVE  TypeOK'
  <2>1. PICK s \in Terminal, who \in Author : ResolveFromApi(j, s, who)
    BY <1>5 DEF CancelJob, CompleteFromCallback
  <2> QED
    BY <1>0, <2>1 DEF ResolveFromApi, Transition
<1>6. ASSUME NEW j \in Job, ApiStep(j) \/ Recover(j)
      PROVE  TypeOK'
  BY <1>0, <1>6 DEF ApiStep, RunnerCancel, RunnerCancelFails,
     Notify, NotifyFails, FileFails, Recover, Transition
<1>7. CASE Acquire \/ Serve \/ BeginShutdown \/ DrainEnd \/ ReleaseLate
  <2>1. CASE Acquire
    <3>1. overlooked' \in SUBSET Job /\ Listing(overlooked')
      BY <2>1 DEF Acquire
    <3>2. faults' \in Nat /\ lapse' \in Nat
      BY <1>0, <3>1, ListingCounts
    <3> QED
      BY <1>0, <2>1, <3>1, <3>2 DEF Acquire
  <2>2. CASE Serve
    <3>1. skipped' \in SUBSET Job /\ Listing(skipped')
      BY <2>2 DEF Serve
    <3>2. faults' \in Nat /\ lapse' \in Nat
      BY <1>0, <3>1, ListingCounts
    <3> QED
      BY <1>0, <2>2, <3>1, <3>2 DEF Serve
  <2>3. CASE BeginShutdown \/ DrainEnd \/ ReleaseLate
    BY <1>0, <2>3 DEF BeginShutdown, DrainEnd, CapturedSettled, ReleaseLate
  <2> QED
    BY <1>7, <2>1, <2>2, <2>3
<1>8. CASE Exit \/ Crash
  <2>1. ProcessEnds
    BY <1>8 DEF Exit, Crash
  <2>2. QueueTypeOK'
    BY <1>0, <2>1 DEF ProcessEnds, ClaimIdle
  <2>3. run' \in [Job -> RunStep]
    BY <2>1 DEF ProcessEnds
  <2>4. result' \in [Job -> Terminal \cup {NoResult}]
    BY <2>1 DEF ProcessEnds
  <2>5. instanceLock' \in BOOLEAN
    BY <2>1 DEF ProcessEnds
  <2>6. faults' \in Nat /\ lapse' \in Nat /\ restarts' \in Nat
    BY <1>0, <2>1 DEF ProcessEnds
  <2>7. notified' \subseteq Job /\ executed' \subseteq Job
    BY <1>0, <2>1 DEF ProcessEnds
  <2>8. /\ controllers' \subseteq Job
        /\ aborted' \subseteq Job
        /\ cancelling' \subseteq Job
        /\ notifying' \subseteq Job
        /\ captured' \subseteq Job
        /\ overlooked' \subseteq Job
        /\ skipped' \subseteq Job
    BY <1>0, <2>1 DEF ProcessEnds
  <2> QED
    BY <2>2, <2>3, <2>4, <2>5, <2>6, <2>7, <2>8
<1>9. CASE UNCHANGED vars
  BY <1>0, <1>9
<1> QED
  BY <1>1, <1>2, <1>3, <1>4, <1>5, <1>6, <1>7, <1>8, <1>9
  DEF Next, ClaimNext, ApiStep

(* Every step keeps the bookkeeping of the process and of the files in     *)
(* agreement.                                                              *)
LEMMA BookkeepingStep ==
    ASSUME IInv, [Next]_vars
    PROVE  Bookkeeping'
<1> USE DEF Bookkeeping, Quiet, UnresolvedHasNoAuthor, RunsAreInFlight,
           ClaimIsSound, NotYetExecuted,
           LockIsHeld, LockCoversWork, AbortIsComplete, ShutdownStopsChildren,
           RunningIsOwned, ShuttingDown, ApiOpen, Phase, ClaimStep, With,
           Terminal, Active, NoResult, durableVars, claimVars, queueVars,
           runVars, apiVars, shutVars, bounds, diskVars, startVars, vars
<1>0. TypeOK /\ Bookkeeping
  BY DEF IInv, Bookkeeping
<1> USE DEF TypeOK, QueueTypeOK
<1>1. CASE Create
  BY <1>0, <1>1 DEF Create, CreateAdmit, CreateSave, CreateFails
<1>2. CASE ClaimWithoutRun
  BY <1>0, <1>2 DEF ClaimWithoutRun, ClaimList, ClaimChoose, ClaimNothing,
     ClaimWrite, ClaimLate, ClaimUndo, ClaimIdle, Candidate, ClaimChoosable,
     Transition
<1>3. CASE Admit
  BY <1>0, <1>3 DEF Admit, ClaimAdmit, ClaimIdle
<1>4. ASSUME NEW j \in Job, ExecuteJob(j)
      PROVE  Bookkeeping'
  <2>1. CASE Lookup(j) \/ Start(j) \/ Requeue(j)
    BY <1>0, <2>1 DEF Lookup, Start, Requeue, Transition, EndRun
  <2>2. CASE Spawn(j) \/ RefuseCwd(j)
    BY <1>0, <2>2 DEF Spawn, RefuseCwd, Settle
  <2>3. CASE ChildGone(j)
    <3>1. PICK s \in Terminal : Settle(j, s)
      BY <2>3 DEF ChildGone, Terminal
    <3> QED
      BY <1>0, <2>3, <3>1 DEF ChildGone, Alive, Settle
  <2>4. CASE Record(j) \/ RecordFails(j) \/ MarkFailed(j)
    BY <1>0, <2>4 DEF Record, RecordFails, MarkFailed, Transition,
       NotifyIfWritten, EndRun
  <2> QED
    BY <1>4, <2>1, <2>2, <2>3, <2>4 DEF ExecuteJob
<1>5. ASSUME NEW j \in Job, CancelJob(j) \/ CompleteFromCallback(j)
      PROVE  Bookkeeping'
  <2>1. PICK s \in Terminal, who \in Author : ResolveFromApi(j, s, who)
    BY <1>5 DEF CancelJob, CompleteFromCallback, Author, Terminal
  <2> QED
    BY <1>0, <2>1 DEF ResolveFromApi, Transition
<1>6. ASSUME NEW j \in Job, ApiStep(j) \/ Recover(j)
      PROVE  Bookkeeping'
  BY <1>0, <1>6 DEF ApiStep, RunnerCancel, RunnerCancelFails,
     Notify, NotifyFails, FileFails, Recover, Transition
<1>7. CASE Acquire \/ Serve \/ BeginShutdown \/ DrainEnd \/ ReleaseLate
  BY <1>0, <1>7 DEF Acquire, Serve, BeginShutdown, DrainEnd, CapturedSettled,
     ReleaseLate
<1>8. CASE Exit \/ Crash
  BY <1>0, <1>8 DEF Exit, Crash, ProcessEnds, ClaimIdle
<1>9. CASE UNCHANGED vars
  BY <1>0, <1>9
<1> QED
  BY <1>1, <1>2, <1>3, <1>4, <1>5, <1>6, <1>7, <1>8, <1>9
  DEF Next, ClaimNext, ApiStep

-----------------------------------------------------------------------------
(* The two limits. Everything but the step that spends a slot, or admits a *)
(* submission, leaves the set it counts as it is or makes it smaller.      *)

LEMMA OccupiedShrinks ==
    ASSUME IInv, [Next]_vars, \A j \in Job : ~ClaimChoose(j)
    PROVE  /\ Occupied' \subseteq Occupied
           /\ (inFlight \cup Pending)' \subseteq inFlight \cup Pending
<1> DEFINE Shrinks ==
      /\ Occupied' \subseteq Occupied
      /\ (inFlight \cup Pending)' \subseteq inFlight \cup Pending
<1> USE DEF Occupied, Pending, With, Bookkeeping, Quiet, ClaimIsSound,
            Terminal, Active, durableVars, claimVars, queueVars, runVars,
            apiVars, shutVars, bounds, diskVars, startVars, vars
<1>0. TypeOK /\ Bookkeeping
  BY DEF IInv
<1> USE DEF TypeOK, QueueTypeOK
<1>1. CASE Create
  BY <1>0, <1>1 DEF Create, CreateAdmit, CreateSave, CreateFails
<1>2. CASE ClaimWithoutRun
  BY <1>0, <1>2 DEF ClaimWithoutRun, ClaimList, ClaimNothing, ClaimWrite,
     ClaimLate, ClaimUndo, ClaimIdle, Transition
<1>3. CASE Admit
  BY <1>0, <1>3 DEF Admit, ClaimAdmit, ClaimIdle
<1>4. ASSUME NEW j \in Job, ExecuteJob(j)
      PROVE  Shrinks
  <2>1. CASE Lookup(j) \/ Start(j) \/ Requeue(j)
    BY <1>0, <2>1 DEF Lookup, Start, Requeue, Transition, EndRun
  <2>2. CASE Spawn(j) \/ RefuseCwd(j) \/ ChildGone(j)
    BY <1>0, <2>2 DEF Spawn, RefuseCwd, ChildGone
  <2>3. CASE Record(j) \/ RecordFails(j) \/ MarkFailed(j)
    BY <1>0, <2>3 DEF Record, RecordFails, MarkFailed, Transition, EndRun,
       RunsAreInFlight
  <2> QED
    BY <1>4, <2>1, <2>2, <2>3 DEF ExecuteJob
<1>5. ASSUME NEW j \in Job, CancelJob(j) \/ CompleteFromCallback(j)
      PROVE  Shrinks
  <2>1. PICK s \in Terminal, who \in Author : ResolveFromApi(j, s, who)
    BY <1>5 DEF CancelJob, CompleteFromCallback, Author
  <2> QED
    BY <1>0, <2>1 DEF ResolveFromApi, Transition
<1>6. ASSUME NEW j \in Job, ApiStep(j) \/ Recover(j)
      PROVE  Shrinks
  BY <1>0, <1>6 DEF ApiStep, RunnerCancel, RunnerCancelFails,
     Notify, NotifyFails, FileFails, Recover, Transition
<1>7. CASE Acquire \/ Serve \/ BeginShutdown \/ DrainEnd \/ ReleaseLate
  BY <1>0, <1>7 DEF Acquire, Serve, BeginShutdown, DrainEnd, ReleaseLate
<1>8. CASE Exit \/ Crash
  BY <1>0, <1>8 DEF Exit, Crash, ProcessEnds, ClaimIdle
<1>9. CASE UNCHANGED vars
  BY <1>0, <1>9
<1> QED
  BY <1>1, <1>2, <1>3, <1>4, <1>5, <1>6, <1>7, <1>8, <1>9
  DEF Next, ClaimNext, ApiStep

(* The most that one listing left out never shrinks, and covers the        *)
(* snapshot of the claim.                                                  *)
LEMMA LapseStep ==
    ASSUME IInv, [Next]_vars
    PROVE  /\ lapse \in Nat /\ lapse' \in Nat /\ lapse =< lapse'
           /\ UnreadIsSmall'
<1> USE DEF durableVars, claimVars, queueVars, runVars, apiVars, shutVars,
            bounds, diskVars, startVars, vars, UnreadIsSmall
<1>0. TypeOK /\ UnreadIsSmall
  BY DEF IInv
<1> USE <1>0 DEF TypeOK, QueueTypeOK
<1> DEFINE Covered ==
      /\ lapse' \in Nat /\ lapse =< lapse'
      /\ Cardinality(unread') =< lapse'
<1>n. Cardinality(unread) \in Nat
  BY JobsAreFinite
<1>e. Cardinality({}) = 0
  BY FS_EmptySet
<1>k. ASSUME unread' = unread \/ unread' = {}, lapse' \in Nat, lapse =< lapse'
      PROVE  Covered
  <2>1. CASE unread' = unread
    <3>1. Cardinality(unread') = Cardinality(unread) /\ Cardinality(unread) =< lapse
      BY <1>0, <2>1
    <3> QED
      BY <1>k, <1>n, <3>1
  <2>2. CASE unread' = {}
    <3>1. Cardinality(unread') = 0
      BY <2>2, <1>e
    <3> QED
      BY <1>k, <3>1
  <2> QED
    BY <1>k, <2>1, <2>2
<1>1. CASE Create
  <2>1. CASE CreateAdmit
    <3>1. PICK skip \in SUBSET Job : Listing(skip)
      BY <2>1 DEF CreateAdmit, With
    <3> QED
      BY <1>k, <2>1, <3>1, ListingCounts DEF CreateAdmit
  <2>2. ASSUME NEW j \in Job, CreateSave(j)
        PROVE  Covered
    BY <1>k, <2>2 DEF CreateSave
  <2>3. CASE CreateFails
    BY <1>k, <2>3 DEF CreateFails, FileFails
  <2> QED
    BY <1>1, <2>1, <2>2, <2>3 DEF Create
<1>2. CASE ClaimWithoutRun
  <2>1. CASE ClaimList
    <3>1. PICK skip \in SUBSET Job : Listing(skip) /\ unread' = skip
      BY <2>1 DEF ClaimList, With
    <3> QED
      BY <3>1, ListingCounts
  <2>2. CASE ~ClaimList
    BY <1>k, <1>2, <2>2 DEF ClaimWithoutRun, ClaimChoose, ClaimNothing,
       ClaimWrite, ClaimLate, ClaimUndo, ClaimIdle
  <2> QED
    BY <2>1, <2>2
<1>3. CASE Admit
  BY <1>k, <1>3 DEF Admit, ClaimAdmit, ClaimIdle
<1>4. ASSUME NEW j \in Job, ExecuteJob(j)
      PROVE  Covered
  BY <1>k, <1>4 DEF ExecuteJob, Lookup, Start, Requeue, Spawn, RefuseCwd,
     ChildGone, Record, RecordFails, MarkFailed, FileFails
<1>5. ASSUME NEW j \in Job, CancelJob(j) \/ CompleteFromCallback(j)
      PROVE  Covered
  BY <1>k, <1>5 DEF CancelJob, CompleteFromCallback, ResolveFromApi
<1>6. ASSUME NEW j \in Job, ApiStep(j) \/ Recover(j)
      PROVE  Covered
  BY <1>k, <1>6 DEF ApiStep, RunnerCancel, RunnerCancelFails, Notify,
     NotifyFails, FileFails, Recover
<1>7. CASE Acquire
  <2>1. overlooked' \in SUBSET Job /\ Listing(overlooked')
    BY <1>7 DEF Acquire, With
  <2> QED
    BY <1>k, <1>7, <2>1, ListingCounts DEF Acquire
<1>8. CASE Serve
  <2>1. skipped' \in SUBSET Job /\ Listing(skipped')
    BY <1>8 DEF Serve, With
  <2> QED
    BY <1>k, <1>8, <2>1, ListingCounts DEF Serve
<1>9. CASE BeginShutdown \/ DrainEnd \/ ReleaseLate
  BY <1>k, <1>9 DEF BeginShutdown, DrainEnd, ReleaseLate
<1>10. CASE Exit \/ Crash
  BY <1>k, <1>10 DEF Exit, Crash, ProcessEnds, ClaimIdle
<1>11. CASE UNCHANGED vars
  BY <1>k, <1>11
<1> QED
  BY <1>1, <1>2, <1>3, <1>4, <1>5, <1>6, <1>7, <1>8, <1>9, <1>10, <1>11
  DEF Next, ClaimNext, ApiStep

(* A set of jobs and one more.                                             *)
LEMMA OneMoreJob ==
    ASSUME NEW S \in SUBSET Job, NEW j \in Job
    PROVE  Cardinality(S \cup {j}) =< Cardinality(S) + 1
<1>1. IsFiniteSet(S) /\ Cardinality(S) \in Nat
  BY JobsAreFinite
<1>2. Cardinality(S \cup {j}) =
          IF j \in S THEN Cardinality(S) ELSE Cardinality(S) + 1
  BY <1>1, FS_AddElement
<1> QED
  BY <1>1, <1>2

LEMMA UnionOfJobs ==
    ASSUME NEW S \in SUBSET Job, NEW T \in SUBSET Job
    PROVE  Cardinality(S \cup T) =< Cardinality(S) + Cardinality(T)
<1>1. Cardinality(S \cup T) = Cardinality(S) + Cardinality(T)
                              - Cardinality(S \cap T)
  BY JobsAreFinite, FS_Union
<1>2. /\ Cardinality(S) \in Nat /\ Cardinality(T) \in Nat
      /\ Cardinality(S \cap T) \in Nat
  BY JobsAreFinite
<1> QED
  BY <1>1, <1>2

(* The claim counted the runs as they are, and every running file but      *)
(* those its snapshot leaves out; no file has become running since.        *)
LEMMA SlotsStep ==
    ASSUME IInv, [Next]_vars
    PROVE  RunsFit' /\ SlotsSuffice'
<1>0. /\ TypeOK /\ SlotsSuffice /\ RunsFit /\ ClaimIsSound /\ UnreadIsSmall
      /\ Occupied \in SUBSET Job
      /\ inFlight \cup Pending \in SUBSET Job
  BY DEF IInv, Bookkeeping, TypeOK, QueueTypeOK, Occupied, Pending, With,
     ClaimIsSound
<1>l. lapse \in Nat /\ lapse' \in Nat /\ lapse =< lapse'
  BY LapseStep
<1>1. ASSUME NEW j \in Job, ClaimChoose(j)
      PROVE  RunsFit' /\ SlotsSuffice'
  <2> DEFINE S == inFlight \cup ExternallyRunning
  <2>1. /\ inFlight \in SUBSET Job /\ ExternallyRunning \in SUBSET Job
        /\ unread \in SUBSET Job /\ S \in SUBSET Job
    BY <1>0 DEF TypeOK, QueueTypeOK, ExternallyRunning
  <2>2. /\ Cardinality(inFlight) \in Nat /\ Cardinality(ExternallyRunning) \in Nat
        /\ Cardinality(unread) \in Nat /\ Cardinality(S) \in Nat
    BY <2>1, JobsAreFinite
  <2>3. Cardinality(inFlight) + Cardinality(ExternallyRunning) < MaxConcurrency
    BY <1>1 DEF ClaimChoose, SlotFree
  <2>4. RunsFit'
    <3>1. (inFlight \cup Pending)' = inFlight \cup {j}
      BY <1>1 DEF ClaimChoose, Pending
    <3>2. Cardinality(inFlight \cup {j}) =< Cardinality(inFlight) + 1
      BY <2>1, OneMoreJob
    <3>3. Cardinality(inFlight \cup {j}) \in Nat
      BY <2>1, JobsAreFinite
    <3>4. Cardinality(inFlight \cup {j}) =< MaxConcurrency
      BY <2>2, <2>3, <3>2, <3>3
    <3> QED
      BY <3>1, <3>4 DEF RunsFit
  <2>5. SlotsSuffice'
    <3>1. Occupied' \subseteq (S \cup {j}) \cup unread
      BY <1>0, <1>1 DEF ClaimChoose, Occupied, Pending, With, ClaimIsSound,
         ExternallyRunning, durableVars
    <3>2. Cardinality(S) =< Cardinality(inFlight) + Cardinality(ExternallyRunning)
      BY <2>1, UnionOfJobs
    <3> HIDE DEF S
    <3>3. S \cup {j} \in SUBSET Job /\ (S \cup {j}) \cup unread \in SUBSET Job
      BY <2>1
    <3>4. Cardinality(S \cup {j}) =< Cardinality(S) + 1
      BY <2>1, OneMoreJob
    <3>5. Cardinality((S \cup {j}) \cup unread)
              =< Cardinality(S \cup {j}) + Cardinality(unread)
      BY <2>1, <3>3, UnionOfJobs
    <3>6. Cardinality(Occupied') =< Cardinality((S \cup {j}) \cup unread)
      BY <3>1, <3>3, FewerJobs
    <3>7. /\ Cardinality(S \cup {j}) \in Nat
          /\ Cardinality((S \cup {j}) \cup unread) \in Nat
          /\ Cardinality(Occupied') \in Nat
      BY <3>1, <3>3, JobsAreFinite
    <3>8. Cardinality(unread) =< lapse
      BY <1>0 DEF UnreadIsSmall
    <3>9. Cardinality(Occupied') =< MaxConcurrency + lapse'
      BY <1>l, <2>2, <2>3, <3>2, <3>4, <3>5, <3>6, <3>7, <3>8
    <3> QED
      BY <3>9 DEF SlotsSuffice
  <2> QED
    BY <2>4, <2>5
<1>2. CASE \A j \in Job : ~ClaimChoose(j)
  <2>1. /\ Occupied' \subseteq Occupied
        /\ (inFlight \cup Pending)' \subseteq inFlight \cup Pending
    BY <1>2, OccupiedShrinks
  <2>2. Occupied' \in SUBSET Job /\ (inFlight \cup Pending)' \in SUBSET Job
    BY <1>0, <2>1
  <2>3. /\ Cardinality(Occupied') =< Cardinality(Occupied)
        /\ Cardinality((inFlight \cup Pending)') =< Cardinality(inFlight \cup Pending)
    BY <1>0, <2>1, FewerJobs
  <2>4. /\ Cardinality(Occupied') \in Nat /\ Cardinality(Occupied) \in Nat
        /\ Cardinality((inFlight \cup Pending)') \in Nat
        /\ Cardinality(inFlight \cup Pending) \in Nat
    BY <1>0, <2>2, JobsAreFinite
  <2>5. SlotsSuffice'
    BY <1>0, <1>l, <2>3, <2>4 DEF SlotsSuffice
  <2>6. RunsFit'
    BY <1>0, <2>3, <2>4 DEF RunsFit
  <2> QED
    BY <2>5, <2>6
<1> QED
  BY <1>1, <1>2

(* Only a save makes an active job, and createMutex admits one at a time.  *)
LEMMA CreateStep ==
    ASSUME IInv, [Next]_vars
    PROVE  CreateIsSound'
<1> USE DEF CreateIsSound, durableVars, claimVars, queueVars, runVars,
            apiVars, shutVars, bounds, diskVars, startVars, vars
<1>0. TypeOK /\ CreateIsSound
  BY DEF IInv
<1>l. lapse \in Nat /\ lapse' \in Nat /\ lapse =< lapse'
  BY LapseStep
<1> USE DEF TypeOK, QueueTypeOK
<1>1. ASSUME creating' \in {0, creating}, With(Active)' \subseteq With(Active)
      PROVE  CreateIsSound'
  <2>1. With(Active) \in SUBSET Job /\ With(Active)' \in SUBSET Job
    BY DEF With
  <2>2. /\ Cardinality(With(Active)') =< Cardinality(With(Active))
        /\ Cardinality(With(Active)') \in Nat
        /\ Cardinality(With(Active)) \in Nat
    BY <1>1, <2>1, FewerJobs, JobsAreFinite
  <2> QED
    BY <1>0, <1>l, <1>1, <2>2
<1> USE DEF With, Active, Terminal
<1>2. CASE Create
  <2>1. CASE CreateAdmit
    <3> DEFINE A == With(Active)
    <3>1. PICK skip \in SUBSET A :
              Listing(skip) /\ Cardinality(A \ skip) < MaxActiveJobs
      BY <2>1 DEF CreateAdmit
    <3>2. /\ A \in SUBSET Job /\ skip \in SUBSET Job
          /\ A \ skip \in SUBSET Job /\ A = (A \ skip) \cup skip
      BY <3>1
    <3>3. With(Active)' = A
      BY <2>1 DEF CreateAdmit
    <3> HIDE DEF A
    <3>4. Cardinality(A) =< Cardinality(A \ skip) + Cardinality(skip)
      BY <3>2, UnionOfJobs
    <3>5. /\ Cardinality(A) \in Nat /\ Cardinality(skip) \in Nat
          /\ Cardinality(A \ skip) \in Nat
      BY <3>2, JobsAreFinite
    <3>6. Cardinality(skip) =< lapse'
      BY <1>0, <3>1, <3>2, ListingCounts
    <3>7. Cardinality(A) < MaxActiveJobs + lapse'
      BY <1>l, <3>1, <3>4, <3>5, <3>6
    <3>8. creating' = 1
      BY <2>1 DEF CreateAdmit
    <3> QED
      BY <3>3, <3>7, <3>8
  <2>2. ASSUME NEW j \in Job, CreateSave(j)
        PROVE  CreateIsSound'
    BY <1>0, <2>2 DEF CreateSave
  <2>3. CASE CreateFails
    BY <1>0, <1>1, <2>3 DEF CreateFails
  <2> QED
    BY <1>2, <2>1, <2>2, <2>3 DEF Create
<1>3. CASE ClaimNext
  BY <1>0, <1>1, <1>3 DEF ClaimNext, ClaimWithoutRun, ClaimList, ClaimChoose,
     ClaimNothing, ClaimWrite, ClaimLate, ClaimUndo, Transition, Admit,
     ClaimAdmit
<1>4. ASSUME NEW j \in Job, ExecuteJob(j)
      PROVE  CreateIsSound'
  <2>1. RunsAreInFlight
    BY DEF IInv, Bookkeeping
  <2> QED
    BY <1>0, <1>1, <1>4, <2>1 DEF ExecuteJob, Lookup, Start, Requeue, Spawn,
       RefuseCwd, ChildGone, Record, RecordFails, MarkFailed, Transition,
       RunsAreInFlight
<1>5. ASSUME NEW j \in Job, CancelJob(j) \/ CompleteFromCallback(j)
      PROVE  CreateIsSound'
  BY <1>0, <1>1, <1>5 DEF CancelJob, CompleteFromCallback, ResolveFromApi,
     Transition
<1>6. ASSUME NEW j \in Job, ApiStep(j) \/ Recover(j)
      PROVE  CreateIsSound'
  BY <1>0, <1>1, <1>6 DEF ApiStep, RunnerCancel, RunnerCancelFails,
     Notify, NotifyFails, FileFails, Recover, Transition
<1>7. CASE Acquire \/ Serve \/ BeginShutdown \/ DrainEnd \/ ReleaseLate
  BY <1>0, <1>1, <1>7 DEF Acquire, Serve, BeginShutdown, DrainEnd, ReleaseLate
<1>8. CASE Exit \/ Crash
  BY <1>0, <1>1, <1>8 DEF Exit, Crash, ProcessEnds
<1>9. CASE UNCHANGED vars
  BY <1>0, <1>9
<1> QED
  BY <1>2, <1>3, <1>4, <1>5, <1>6, <1>7, <1>8, <1>9
  DEF Next, ApiStep

-----------------------------------------------------------------------------
(* The inductive invariant, and what follows from it.                      *)

THEOREM Invariance == Spec => []IInv
<1>1. Init => IInv
  <2> SUFFICES ASSUME Init
               PROVE  IInv
    OBVIOUS
  <2> USE DEF Init, QueueInit, NoSnapshot, NoResult, NoAuthor, NoJob, Status,
              Author, Phase, ClaimStep, RunStep, Terminal, Active
  <2>1. TypeOK
    BY DEF TypeOK, QueueTypeOK
  <2>2. Bookkeeping
    BY DEF Bookkeeping, Quiet, UnresolvedHasNoAuthor, RunsAreInFlight,
       ClaimIsSound, NotYetExecuted, LockIsHeld, LockCoversWork,
       AbortIsComplete, ShutdownStopsChildren, RunningIsOwned, ShuttingDown, ApiOpen
  <2>3. SlotsSuffice /\ RunsFit /\ UnreadIsSmall
    <3>1. Occupied = {} /\ inFlight \cup Pending = {} /\ unread = {}
      BY DEF Occupied, Pending, With
    <3> QED
      BY <3>1, FS_EmptySet, LimitsAssumption
      DEF SlotsSuffice, RunsFit, UnreadIsSmall
  <2>4. CreateIsSound
    BY DEF CreateIsSound
  <2> QED
    BY <2>1, <2>2, <2>3, <2>4 DEF IInv
<1>2. IInv /\ [Next]_vars => IInv'
  BY TypeStep, BookkeepingStep, LapseStep, SlotsStep, CreateStep DEF IInv
<1> QED
  BY <1>1, <1>2, PTL DEF Spec

(* Type correctness.                                                       *)
THEOREM TypeCorrectness == Spec => []TypeOK
<1>1. IInv => TypeOK
  BY DEF IInv
<1> QED
  BY <1>1, Invariance, PTL

(* However many jobs are cancelled under it, the bridge never has more     *)
(* than MaxConcurrency children: every child's run still holds its slot.   *)
THEOREM CapHolds == Spec => []ChildrenWithinCap
<1>1. ASSUME IInv
      PROVE  ChildrenWithinCap
  <2> DEFINE Children == {j \in Job : Alive(j)}
             Runs == inFlight \cup Pending
  <2>1. TypeOK /\ RunsAreInFlight /\ RunsFit
    BY <1>1 DEF IInv, Bookkeeping
  <2>2. Children \subseteq Runs
    BY <2>1 DEF RunsAreInFlight, Alive
  <2>3. Runs \in SUBSET Job /\ Children \in SUBSET Job
    BY <1>1, <2>1 DEF TypeOK, QueueTypeOK, Pending, IInv, Bookkeeping,
       ClaimIsSound
  <2>4. /\ Cardinality(Children) =< Cardinality(Runs)
        /\ Cardinality(Children) \in Nat
        /\ Cardinality(Runs) \in Nat
    BY <2>2, <2>3, FewerJobs, JobsAreFinite
  <2>5. Cardinality(Runs) =< MaxConcurrency
    BY <2>1 DEF RunsFit
  <2> HIDE DEF Children, Runs
  <2>6. Cardinality(Children) =< MaxConcurrency
    BY <2>4, <2>5
  <2> QED
    BY <2>6 DEF ChildrenWithinCap, Children
<1> QED
  BY <1>1, Invariance, PTL

(* A running file has a run, or the claim that wrote it, behind it, unless *)
(* recovery could not read it.                                             *)
THEOREM NoOrphanedFile == Spec => []RunningIsOwned
<1>1. IInv => RunningIsOwned
  BY DEF IInv, Bookkeeping
<1> QED
  BY <1>1, Invariance, PTL

(* The lock outlives every claim and run of the process that holds it.     *)
THEOREM LockOutlivesWork == Spec => []LockCoversWork
<1>1. IInv => LockCoversWork
  BY DEF IInv, Bookkeeping, LockIsHeld
<1> QED
  BY <1>1, Invariance, PTL

(* No child escapes a shutdown.                                            *)
THEOREM ShutdownReachesChildren == Spec => []ShutdownStopsChildren
<1>1. IInv => ShutdownStopsChildren
  BY DEF IInv, Bookkeeping, AbortIsComplete
<1> QED
  BY <1>1, Invariance, PTL

(* Only Spawn starts a child.                                             *)
LEMMA OnlySpawnStartsAChild ==
    ASSUME IInv, [Next]_vars, NEW j \in Job, Alive(j)', ~Alive(j)
    PROVE  Spawn(j)
<1> USE DEF Alive, durableVars, claimVars, queueVars, runVars, apiVars,
            shutVars, bounds, diskVars, startVars, vars
<1>0. run \in [Job -> RunStep]
  BY DEF IInv, TypeOK
<1>1. run'[j] = "executing" /\ run[j] # "executing"
  OBVIOUS
<1>2. CASE Create \/ ClaimWithoutRun
  BY <1>1, <1>2 DEF Create, ClaimWithoutRun
<1>3. CASE Admit
  BY <1>0, <1>1, <1>3 DEF Admit
<1>4. ASSUME NEW k \in Job, ExecuteJob(k)
      PROVE  Spawn(j)
  BY <1>0, <1>1, <1>4 DEF ExecuteJob, Lookup, Start, Requeue, Spawn, RefuseCwd,
     ChildGone, Settle, Record, RecordFails, MarkFailed, EndRun
<1>5. ASSUME NEW k \in Job,
             \/ CancelJob(k) \/ CompleteFromCallback(k)
             \/ ApiStep(k) \/ Recover(k)
      PROVE  Spawn(j)
  BY <1>1, <1>5 DEF CancelJob, CompleteFromCallback, ResolveFromApi, ApiStep,
     RunnerCancel, RunnerCancelFails, Notify, NotifyFails, Recover
<1>6. CASE Acquire \/ Serve \/ BeginShutdown \/ DrainEnd \/ ReleaseLate
  BY <1>1, <1>6 DEF Acquire, Serve, BeginShutdown, DrainEnd, ReleaseLate
<1>7. CASE Exit \/ Crash
  BY <1>1, <1>7 DEF Exit, Crash, ProcessEnds
<1>8. CASE UNCHANGED vars
  BY <1>1, <1>8
<1> QED
  BY <1>2, <1>3, <1>4, <1>5, <1>6, <1>7, <1>8
  DEF Next, ClaimNext, ApiStep

(* No job is executed twice, whatever dies and whatever is requeued.       *)
THEOREM ExecutedOnce == Spec => AtMostOneExecution
<1>1. ASSUME IInv, [Next]_vars, NEW j \in Job, Alive(j)', ~Alive(j)
      PROVE  j \notin executed
  <2>1. run[j] = "starting"
    BY <1>1, OnlySpawnStartsAChild DEF Spawn
  <2> QED
    BY <1>1, <2>1 DEF IInv, Bookkeeping, NotYetExecuted
<1>2. IInv /\ [Next]_vars =>
          [\A j \in Job : Alive(j)' /\ ~Alive(j) => j \notin executed]_vars
  BY <1>1
<1> QED
  BY <1>2, Invariance, PTL DEF Spec, AtMostOneExecution

-----------------------------------------------------------------------------
(* Claiming in order. The snapshot ages between listAll and the claim, but *)
(* while the process serves nothing that precedes the candidate can return *)
(* to the queue, or enter it.                                              *)

FilesFormAPrefix ==
    \A j, k \in Job : k < j /\ status[j] # "absent" => status[k] # "absent"

NothingRequeued ==
    phase = "serving" => claimStep # "undo" /\ \A j \in Job : run[j] # "requeue"

SnapshotKeepsOrder ==
    claimStep = "listed" =>
        /\ \A j \in Job : seen[j] # "absent" => status[j] # "absent"
        /\ phase = "serving" =>
               \A j, k \in Job :
                   k < j /\ seen[j] = "queued" /\ status[k] = "queued"
                       => seen[k] = "queued" \/ k \in unread

CandidateIsFirst ==
    claimStep \in {"chosen", "written"} =>
        /\ status[chosen] # "absent"
        /\ phase = "serving" =>
               \A k \in Job :
                   k < chosen /\ status[k] = "queued" => k \in unread

InOrder ==
    /\ FilesFormAPrefix
    /\ NothingRequeued
    /\ SnapshotKeepsOrder
    /\ CandidateIsFirst

LEMMA OrderStep ==
    ASSUME IInv, InOrder, [Next]_vars
    PROVE  InOrder'
<1> USE DEF InOrder, FilesFormAPrefix, NothingRequeued, SnapshotKeepsOrder,
            CandidateIsFirst, ShuttingDown, ApiOpen, durableVars, claimVars,
            queueVars, runVars, apiVars, shutVars, bounds, diskVars, startVars, vars
<1>0. TypeOK /\ Quiet /\ RunsAreInFlight /\ ClaimIsSound
  BY DEF IInv, Bookkeeping
<1>j. Job \subseteq Int
  BY DEF Job
<1> USE DEF TypeOK, QueueTypeOK, Quiet, Phase
<1>1. CASE Create
  BY <1>0, <1>1, <1>j DEF Create, CreateAdmit, CreateSave, CreateFails, ClaimIsSound
<1>2. CASE ClaimWithoutRun
  <2>1. CASE ClaimList
    BY <1>0, <2>1, <1>2 DEF ClaimWithoutRun, ClaimList
  <2>2. ASSUME NEW j \in Job, ClaimChoose(j)
        PROVE  InOrder'
    <3>1. \A k \in Job : k < j /\ seen[k] = "queued" => k \in inFlight
      BY <2>2 DEF ClaimChoose, Candidate, ClaimChoosable
    <3>2. \A k \in Job : k \in inFlight => status[k] # "queued"
      BY <1>0 DEF RunsAreInFlight, Terminal
    <3>3. seen[j] = "queued" /\ claimStep = "listed"
      BY <2>2 DEF ClaimChoose, Candidate, ClaimChoosable
    <3> QED
      BY <1>0, <1>2, <2>2, <3>1, <3>2, <3>3 DEF ClaimWithoutRun, ClaimChoose
  <2>3. CASE ClaimNothing \/ ClaimLate
    BY <1>0, <1>2, <2>3 DEF ClaimWithoutRun, ClaimNothing, ClaimLate, ClaimIdle
  <2>4. CASE ClaimWrite
    BY <1>0, <1>2, <2>4 DEF ClaimWithoutRun, ClaimWrite, ClaimIdle, Transition,
       ClaimIsSound
  <2>5. CASE ClaimUndo
    BY <1>0, <1>2, <2>5 DEF ClaimWithoutRun, ClaimUndo, ClaimIdle, Transition,
       ClaimIsSound
  <2> QED
    BY <1>2, <2>1, <2>2, <2>3, <2>4, <2>5 DEF ClaimWithoutRun
<1>3. CASE Admit
  BY <1>0, <1>3 DEF Admit, ClaimAdmit, ClaimIdle
<1>4. ASSUME NEW j \in Job, ExecuteJob(j)
      PROVE  InOrder'
  <2>1. CASE Lookup(j) \/ Start(j) \/ Requeue(j)
    BY <1>0, <2>1 DEF Lookup, Start, Requeue, Transition, EndRun, ClaimIsSound
  <2>2. CASE Spawn(j) \/ RefuseCwd(j) \/ ChildGone(j) \/ RecordFails(j)
    BY <1>0, <2>2 DEF Spawn, RefuseCwd, ChildGone, RecordFails, Settle
  <2>3. CASE Record(j) \/ MarkFailed(j)
    BY <1>0, <2>3 DEF Record, MarkFailed, Transition, EndRun, ClaimIsSound,
       RunsAreInFlight, Terminal
  <2> QED
    BY <1>4, <2>1, <2>2, <2>3 DEF ExecuteJob
<1>5. ASSUME NEW j \in Job, CancelJob(j) \/ CompleteFromCallback(j)
      PROVE  InOrder'
  <2>1. PICK s \in Terminal, who \in Author : ResolveFromApi(j, s, who)
    BY <1>5 DEF CancelJob, CompleteFromCallback, Author, Terminal
  <2> QED
    BY <1>0, <2>1 DEF ResolveFromApi, Transition, Active, Terminal,
       ClaimIsSound
<1>6. ASSUME NEW j \in Job, ApiStep(j) \/ Recover(j)
      PROVE  InOrder'
  BY <1>0, <1>6 DEF ApiStep, RunnerCancel, RunnerCancelFails,
     Notify, NotifyFails, FileFails, Recover, Transition
<1>7. CASE Acquire \/ Serve \/ BeginShutdown \/ DrainEnd \/ ReleaseLate
  BY <1>0, <1>7 DEF Acquire, Serve, BeginShutdown, DrainEnd, ReleaseLate,
     RunsAreInFlight
<1>8. CASE Exit \/ Crash
  BY <1>0, <1>8 DEF Exit, Crash, ProcessEnds, ClaimIdle
<1>9. CASE UNCHANGED vars
  BY <1>0, <1>9
<1> QED
  BY <1>1, <1>2, <1>3, <1>4, <1>5, <1>6, <1>7, <1>8, <1>9
  DEF Next, ClaimNext, ApiStep

(* Only Admit adds to inFlight.                                            *)
LEMMA OnlyAdmitAddsARun ==
    ASSUME [Next]_vars, NEW j \in inFlight' \ inFlight
    PROVE  Admit
<1> USE DEF durableVars, claimVars, queueVars, vars
<1>1. CASE Create \/ ClaimWithoutRun
  BY <1>1 DEF Create, CreateAdmit, CreateSave, CreateFails, ClaimWithoutRun, ClaimList,
     ClaimChoose, ClaimNothing, ClaimWrite, ClaimLate, ClaimUndo
<1>2. ASSUME NEW k \in Job, ExecuteJob(k)
      PROVE  FALSE
  BY <1>2 DEF ExecuteJob, Lookup, Start, Requeue, Spawn, RefuseCwd, ChildGone,
     Record, RecordFails, MarkFailed, EndRun
<1>3. ASSUME NEW k \in Job,
             \/ CancelJob(k) \/ CompleteFromCallback(k)
             \/ ApiStep(k) \/ Recover(k)
      PROVE  FALSE
  BY <1>3 DEF CancelJob, CompleteFromCallback, ResolveFromApi, ApiStep,
     RunnerCancel, RunnerCancelFails, Notify, NotifyFails, Recover
<1>4. CASE Acquire \/ Serve \/ BeginShutdown \/ DrainEnd \/ ReleaseLate
  BY <1>4 DEF Acquire, Serve, BeginShutdown, DrainEnd, ReleaseLate
<1>5. CASE Exit \/ Crash
  BY <1>5 DEF Exit, Crash, ProcessEnds
<1>6. CASE UNCHANGED vars
  BY <1>6
<1> QED
  BY <1>1, <1>2, <1>3, <1>4, <1>5, <1>6
  DEF Next, ClaimNext, ApiStep

(* Jobs enter execution in the order of submission, but for a file that    *)
(* the claim's listing leaves out.                                         *)
THEOREM OrderHolds == Spec => ClaimedInOrder
<1>1. Init => InOrder
  BY DEF Init, QueueInit, InOrder, FilesFormAPrefix, NothingRequeued,
     SnapshotKeepsOrder, CandidateIsFirst
<1>2. IInv /\ InOrder /\ [Next]_vars => InOrder'
  BY OrderStep
<1>3. ASSUME IInv, InOrder, [Next]_vars, NEW j \in inFlight' \ inFlight,
             NEW k \in Job, k < j, status[k] = "queued"
      PROVE  k \in unread
  <2>1. Admit
    BY <1>3, OnlyAdmitAddsARun
  <2>2. j = chosen /\ phase = "serving" /\ claimStep = "written"
    BY <1>3, <2>1 DEF Admit, ClaimAdmit, ShuttingDown, IInv, Bookkeeping,
       Quiet, TypeOK, QueueTypeOK, Phase
  <2> QED
    BY <1>3, <2>2 DEF InOrder, CandidateIsFirst
<1>4. IInv /\ InOrder /\ [Next]_vars =>
          [\A j \in inFlight' \ inFlight :
              \A k \in Job : k < j /\ status[k] = "queued" => k \in unread]_vars
  BY <1>3
<1> QED
  BY <1>1, <1>2, <1>4, Invariance, PTL DEF Spec, ClaimedInOrder

-----------------------------------------------------------------------------
(* The refinement: a step of the bridge is one step of JobLifecycle, or    *)
(* leaves the files alone.                                                 *)

LEMMA SameVocabulary ==
    /\ Lifecycle!Job = Job
    /\ Lifecycle!Terminal = Terminal
    /\ Lifecycle!Active = Active
    /\ Lifecycle!Author = Author
    /\ Lifecycle!NoAuthor = NoAuthor
    /\ Lifecycle!With(Lifecycle!Active) = With(Active)
    /\ Lifecycle!With({"running"}) = With({"running"})
BY DEF Lifecycle!Job, Job, Lifecycle!Terminal, Terminal, Lifecycle!Active,
   Active, Lifecycle!Author, Author, Lifecycle!NoAuthor, NoAuthor,
   Lifecycle!With, With

LEMMA SameCardinality ==
    ASSUME NEW S
    PROVE  Lifecycle!Cardinality(S) = Cardinality(S)
BY DEF Lifecycle!Cardinality, Cardinality

(* A write of a terminal result that its author may make is a resolution,  *)
(* or does nothing because somebody else was first.                        *)
LEMMA ResolvingIsAStep ==
    ASSUME NEW j \in Job, NEW who \in Author, NEW to \in Terminal,
           NEW expected, Transition(j, expected, to, who), UNCHANGED lapse,
           status[j] \in expected => Lifecycle!MayResolve(who, status[j], to)
    PROVE  [Lifecycle!Next]_Lifecycle!lifecycleVars
<1>1. CASE status[j] \in expected
  <2>1. Lifecycle!Resolve(j, who, to)
    BY <1>1 DEF Transition, Lifecycle!Resolve
  <2> QED
    BY <2>1, SameVocabulary DEF Lifecycle!Next
<1>2. CASE status[j] \notin expected
  BY <1>2 DEF Transition, durableVars, Lifecycle!lifecycleVars
<1> QED
  BY <1>1, <1>2

(* Handing a job back to the queue.                                        *)
LEMMA RequeueingIsAStep ==
    ASSUME TypeOK, NEW j \in Job, UNCHANGED lapse,
           Transition(j, {"running"}, "queued", NoAuthor),
           status[j] = "running" => author[j] = NoAuthor
    PROVE  [Lifecycle!Next]_Lifecycle!lifecycleVars
<1>1. CASE status[j] = "running"
  <2>1. Lifecycle!Requeue(j)
    BY <1>1 DEF Transition, Lifecycle!Requeue, TypeOK, QueueTypeOK
  <2> QED
    BY <2>1, SameVocabulary DEF Lifecycle!Next
<1>2. CASE status[j] # "running"
  BY <1>2 DEF Transition, durableVars, Lifecycle!lifecycleVars
<1> QED
  BY <1>1, <1>2

(* The files stay as they are; a listing may have left some out.           *)
LEMMA LookingIsAStep ==
    ASSUME IInv, [Next]_vars, UNCHANGED durableVars
    PROVE  [Lifecycle!Next]_Lifecycle!lifecycleVars
<1>1. lapse \in Nat /\ lapse' \in Nat /\ lapse =< lapse'
  BY LapseStep
<1>2. lapse' = lapse \/ Lifecycle!Overlook
  BY <1>1 DEF Lifecycle!Overlook, durableVars
<1> QED
  BY <1>2 DEF Lifecycle!Next, Lifecycle!lifecycleVars, durableVars

LEMMA LifecycleStep ==
    ASSUME IInv, IInv', [Next]_vars
    PROVE  [Lifecycle!Next]_Lifecycle!lifecycleVars
<1> USE DEF durableVars, claimVars, queueVars, runVars, apiVars, shutVars,
            bounds, diskVars, startVars, vars
<1>0. TypeOK /\ Bookkeeping
  BY DEF IInv
<1>1. CASE Create
  <2>1. CASE CreateAdmit
    BY <2>1, LookingIsAStep DEF CreateAdmit
  <2>2. ASSUME NEW j \in Job, CreateSave(j)
        PROVE  [Lifecycle!Next]_Lifecycle!lifecycleVars
    <3>1. Cardinality(With(Active)) < MaxActiveJobs + lapse
      BY <1>0, <2>2 DEF IInv, CreateIsSound, CreateSave
    <3>2. Lifecycle!Submit(j)
      BY <2>2, <3>1, SameVocabulary, SameCardinality
      DEF CreateSave, Lifecycle!Submit
    <3> QED
      BY <3>2, SameVocabulary DEF Lifecycle!Next
  <2>3. CASE CreateFails
    BY <2>3, LookingIsAStep DEF CreateFails
  <2> QED
    BY <1>1, <2>1, <2>2, <2>3 DEF Create
<1>2. CASE ClaimWithoutRun
  <2>1. CASE ClaimWrite /\ status[chosen] = "queued"
    <3>1. chosen \in Job /\ chosen \notin inFlight /\ author[chosen] = NoAuthor
      BY <1>0, <2>1 DEF Bookkeeping, ClaimIsSound, UnresolvedHasNoAuthor,
         ClaimWrite, Terminal
    <3>2. /\ status' = [status EXCEPT ![chosen] = "running"]
          /\ UNCHANGED <<author, lapse>>
      BY <1>0, <2>1, <3>1 DEF ClaimWrite, Transition, TypeOK, QueueTypeOK
    <3>3. Cardinality(With({"running"})) < MaxConcurrency + lapse
      <4> DEFINE R == With({"running"})
      <4>1. R \in SUBSET Job /\ chosen \notin R
        BY <2>1 DEF With
      <4>2. R \cup {chosen} \subseteq Occupied /\ Occupied \in SUBSET Job
        BY <1>0, <2>1, <3>1 DEF ClaimWrite, Occupied, Pending, With, TypeOK,
           QueueTypeOK
      <4>3. Cardinality(R \cup {chosen}) = Cardinality(R) + 1
        BY <4>1, JobsAreFinite, FS_AddElement
      <4>4. Cardinality(R \cup {chosen}) =< Cardinality(Occupied)
        BY <4>2, FewerJobs
      <4>5. Cardinality(R) \in Nat /\ Cardinality(Occupied) \in Nat
        BY <4>1, <4>2, JobsAreFinite
      <4> HIDE DEF R
      <4>6. Cardinality(R) < MaxConcurrency + lapse
        BY <1>0, <4>3, <4>4, <4>5 DEF IInv, SlotsSuffice, TypeOK, QueueTypeOK
      <4> QED
        BY <4>6 DEF R
    <3>4. Lifecycle!Claim(chosen)
      BY <2>1, <3>2, <3>3, SameVocabulary, SameCardinality DEF Lifecycle!Claim
    <3> QED
      BY <3>1, <3>4, SameVocabulary DEF Lifecycle!Next
  <2>2. CASE ClaimUndo
    <3>1. chosen \in Job
      BY <1>0, <2>2 DEF Bookkeeping, ClaimIsSound, ClaimUndo
    <3>2. Transition(chosen, {"running"}, "queued", NoAuthor) /\ UNCHANGED lapse
      BY <2>2 DEF ClaimUndo
    <3>3. status[chosen] = "running" => author[chosen] = NoAuthor
      BY <1>0, <3>1 DEF Bookkeeping, UnresolvedHasNoAuthor, Terminal
    <3> QED
      BY <1>0, <3>1, <3>2, <3>3, RequeueingIsAStep
  <2>3. CASE ~(ClaimWrite /\ status[chosen] = "queued") /\ ~ClaimUndo
    <3>1. UNCHANGED durableVars
      BY <1>2, <2>3 DEF ClaimWithoutRun, ClaimList, ClaimChoose, ClaimNothing,
         ClaimWrite, ClaimLate, Transition
    <3> QED
      BY <3>1, LookingIsAStep
  <2> QED
    BY <2>1, <2>2, <2>3
<1>3. CASE Admit
  BY <1>3, LookingIsAStep DEF Admit, ClaimAdmit
<1>4. ASSUME NEW j \in Job, ExecuteJob(j)
      PROVE  [Lifecycle!Next]_Lifecycle!lifecycleVars
  <2>1. CASE Requeue(j)
    <3>1. Transition(j, {"running"}, "queued", NoAuthor) /\ UNCHANGED lapse
      BY <2>1 DEF Requeue
    <3>2. status[j] = "running" => author[j] = NoAuthor
      BY <1>0 DEF Bookkeeping, UnresolvedHasNoAuthor, Terminal
    <3> QED
      BY <1>0, <3>1, <3>2, RequeueingIsAStep
  <2>2. CASE Record(j) \/ MarkFailed(j)
    <3>1. PICK to \in Terminal :
              Transition(j, {"running"}, to, "execution") /\ UNCHANGED lapse
      BY <1>0, <2>2 DEF Record, MarkFailed, Bookkeeping, RunsAreInFlight,
         Terminal
    <3>2. status[j] = "running" =>
              Lifecycle!MayResolve("execution", status[j], to)
      BY SameVocabulary DEF Lifecycle!MayResolve
    <3>3. "execution" \in Author
      BY DEF Author
    <3> QED
      BY <3>1, <3>2, <3>3, ResolvingIsAStep
  <2>3. CASE ~Requeue(j) /\ ~Record(j) /\ ~MarkFailed(j)
    BY <1>4, <2>3, LookingIsAStep DEF ExecuteJob, Lookup, Start, Spawn,
       RefuseCwd, ChildGone, RecordFails
  <2> QED
    BY <2>1, <2>2, <2>3
<1>5. ASSUME NEW j \in Job, CancelJob(j) \/ CompleteFromCallback(j)
      PROVE  [Lifecycle!Next]_Lifecycle!lifecycleVars
  <2>1. PICK to \in Terminal, who \in {"cancel", "callback"} :
            /\ ResolveFromApi(j, to, who)
            /\ who = "cancel" => to = "cancelled"
    BY <1>5 DEF CancelJob, CompleteFromCallback, Terminal
  <2>2. Transition(j, Active, to, who) /\ UNCHANGED lapse
    BY <2>1 DEF ResolveFromApi
  <2>3. status[j] \in Active => Lifecycle!MayResolve(who, status[j], to)
    BY <2>1, SameVocabulary DEF Lifecycle!MayResolve, Active
  <2>4. who \in Author
    BY DEF Author
  <2> QED
    BY <2>2, <2>3, <2>4, ResolvingIsAStep
<1>6. ASSUME NEW j \in Job, Recover(j)
      PROVE  [Lifecycle!Next]_Lifecycle!lifecycleVars
  <2>1. Transition(j, {"running"}, "failed", "recovery") /\ UNCHANGED lapse
    BY <1>6 DEF Recover
  <2>2. status[j] \in {"running"} =>
            Lifecycle!MayResolve("recovery", status[j], "failed")
    BY SameVocabulary DEF Lifecycle!MayResolve, Terminal
  <2>3. "recovery" \in Author /\ "failed" \in Terminal
    BY DEF Author, Terminal
  <2> QED
    BY <2>1, <2>2, <2>3, ResolvingIsAStep
<1>7. ASSUME NEW j \in Job, ApiStep(j)
      PROVE  [Lifecycle!Next]_Lifecycle!lifecycleVars
  BY <1>7, LookingIsAStep DEF ApiStep, RunnerCancel, RunnerCancelFails, Notify,
     NotifyFails
<1>8. CASE Acquire \/ Serve \/ BeginShutdown \/ DrainEnd \/ ReleaseLate
  BY <1>8, LookingIsAStep DEF Acquire, Serve, BeginShutdown, DrainEnd,
     ReleaseLate
<1>9. CASE Exit \/ Crash
  BY <1>9, LookingIsAStep DEF Exit, Crash, ProcessEnds
<1>10. CASE UNCHANGED vars
  BY <1>10 DEF Lifecycle!lifecycleVars
<1> QED
  BY <1>1, <1>2, <1>3, <1>4, <1>5, <1>6, <1>7, <1>8, <1>9, <1>10
  DEF Next, ClaimNext, ApiStep

(* The bridge implements the lifecycle it promises: whatever races,        *)
(* crashes or is retried, a job is resolved once and for all, and the      *)
(* durable files respect both limits, as far as the listings can tell.     *)
THEOREM BridgeImplementsLifecycle == Spec => ImplementsLifecycle
<1>1. Init => Lifecycle!Init
  BY SameVocabulary DEF Init, QueueInit, Lifecycle!Init
<1>2. IInv /\ IInv' /\ [Next]_vars => [Lifecycle!Next]_Lifecycle!lifecycleVars
  BY LifecycleStep
<1> QED
  BY <1>1, <1>2, Invariance, PTL DEF Spec, ImplementsLifecycle, Lifecycle!Spec

-----------------------------------------------------------------------------
(* What follows for the job files, whoever acts on them.                   *)

(* The files respect both limits, also while the API, the claim and a      *)
(* shutdown change them: whatever goes wrong, they exceed neither by more  *)
(* than the files that a single listing has left out.                      *)
LoadIsBounded ==
    /\ Cardinality(With(Active)) =< MaxActiveJobs + lapse
    /\ Cardinality(With({"running"})) =< MaxConcurrency + lapse

(* Every resolution has its author, and the author had the right to it:    *)
(* the cancel route cancels, and a restart fails what it interrupted.      *)
ResultsAreSigned ==
    \A j \in Job :
        /\ status[j] \in Terminal <=> author[j] # NoAuthor
        /\ author[j] = "cancel" => status[j] = "cancelled"
        /\ author[j] = "recovery" => status[j] = "failed"

(* What has been resolved stays as it is: no late result, callback,        *)
(* cancellation, requeue or recovery writes over it.                       *)
ResolvedForGood ==
    [][\A j \in Job :
          status[j] \in Terminal =>
              status'[j] = status[j] /\ author'[j] = author[j]]_vars

LEMMA ActiveGrowsBySubmission ==
    ASSUME TypeOK, NEW j \in Job, NEW st \in Status,
           status' = [status EXCEPT ![j] = st]
    PROVE  /\ With(Active) \in SUBSET Job /\ With(Active)' \in SUBSET Job
           /\ With(Active)' \subseteq With(Active) \cup {j}
           /\ status[j] \in Active \/ st \notin Active =>
                 With(Active)' \subseteq With(Active)
BY DEF With, TypeOK, QueueTypeOK

LEMMA LoadStep ==
    ASSUME IInv, IInv', [Lifecycle!Next]_Lifecycle!lifecycleVars, LoadIsBounded
    PROVE  LoadIsBounded'
<1> USE SameVocabulary
<1>0. TypeOK /\ TypeOK'
  BY DEF IInv
<1>n. lapse \in Nat /\ lapse' \in Nat
  BY <1>0 DEF TypeOK, QueueTypeOK
<1>l. lapse =< lapse'
  BY <1>n DEF Lifecycle!Next, Lifecycle!Overlook, Lifecycle!Submit,
     Lifecycle!Claim, Lifecycle!Requeue, Lifecycle!Resolve,
     Lifecycle!lifecycleVars
<1>1. Cardinality(With({"running"}))' =< MaxConcurrency + lapse'
  <2> DEFINE R == With({"running"})'
             O == Occupied'
  <2>1. R \subseteq O /\ O \in SUBSET Job
    BY <1>0 DEF Occupied, Pending, With, TypeOK, QueueTypeOK, IInv, Bookkeeping,
       ClaimIsSound
  <2>2. Cardinality(O) =< MaxConcurrency + lapse'
    BY DEF IInv, SlotsSuffice
  <2> HIDE DEF R, O
  <2>3. /\ Cardinality(R) =< Cardinality(O)
        /\ Cardinality(R) \in Nat /\ Cardinality(O) \in Nat
    BY <2>1, FewerJobs, JobsAreFinite
  <2>4. Cardinality(R) =< MaxConcurrency + lapse'
    BY <1>n, <2>2, <2>3
  <2> QED
    BY <2>4 DEF R
<1>2. Cardinality(With(Active))' =< MaxActiveJobs + lapse'
  <2> DEFINE A == With(Active)
             B == With(Active)'
  <2>0. A \in SUBSET Job /\ B \in SUBSET Job
    BY <1>0 DEF With
  <2>1. Cardinality(A) =< MaxActiveJobs + lapse
    BY DEF LoadIsBounded
  <2>2. ASSUME B \subseteq A
        PROVE  Cardinality(B) =< MaxActiveJobs + lapse'
    <3> HIDE DEF A, B
    <3>1. /\ Cardinality(B) =< Cardinality(A)
          /\ Cardinality(B) \in Nat /\ Cardinality(A) \in Nat
      BY <2>0, <2>2, FewerJobs, JobsAreFinite
    <3> QED
      BY <1>n, <1>l, <2>1, <3>1
  <2>3. ASSUME NEW j \in Job, Lifecycle!Submit(j)
        PROVE  Cardinality(B) =< MaxActiveJobs + lapse'
    <3>1. B \subseteq A \cup {j} /\ j \notin A
      BY <1>0, <2>3, ActiveGrowsBySubmission
      DEF Lifecycle!Submit, Status, Active, With
    <3>2. Cardinality(A) < MaxActiveJobs + lapse
      BY <2>3, SameCardinality DEF Lifecycle!Submit
    <3> HIDE DEF A, B
    <3>3. Cardinality(A \cup {j}) = Cardinality(A) + 1 /\ A \cup {j} \in SUBSET Job
      BY <2>0, <3>1, JobsAreFinite, FS_AddElement
    <3>4. Cardinality(B) =< Cardinality(A \cup {j}) /\ Cardinality(B) \in Nat
      BY <2>0, <3>1, <3>3, FewerJobs, JobsAreFinite
    <3>5. Cardinality(A) \in Nat
      BY <2>0, JobsAreFinite
    <3> QED
      BY <1>n, <1>l, <3>2, <3>3, <3>4, <3>5
  <2>4. ASSUME NEW j \in Job, Lifecycle!Claim(j) \/ Lifecycle!Requeue(j)
        PROVE  B \subseteq A
    BY <1>0, <2>4, ActiveGrowsBySubmission
    DEF Lifecycle!Claim, Lifecycle!Requeue, Status, Active
  <2>5. ASSUME NEW j \in Job, NEW who \in Author, NEW to \in Terminal,
               Lifecycle!Resolve(j, who, to)
        PROVE  B \subseteq A
    BY <1>0, <2>5, ActiveGrowsBySubmission
    DEF Lifecycle!Resolve, Status, Active, Terminal
  <2>8. ASSUME Lifecycle!Overlook
        PROVE  B \subseteq A
    BY <2>8 DEF Lifecycle!Overlook, With
  <2>6. ASSUME UNCHANGED Lifecycle!lifecycleVars
        PROVE  B \subseteq A
    BY <2>6 DEF Lifecycle!lifecycleVars, With
  <2>7. Cardinality(B) =< MaxActiveJobs + lapse'
    <3> HIDE DEF A, B
    <3> QED
      BY <2>2, <2>3, <2>4, <2>5, <2>6, <2>8 DEF Lifecycle!Next
  <2> QED
    BY <2>7
<1> QED
  BY <1>1, <1>2 DEF LoadIsBounded

LEMMA SignatureStep ==
    ASSUME TypeOK, [Lifecycle!Next]_Lifecycle!lifecycleVars
    PROVE  /\ ResultsAreSigned => ResultsAreSigned'
           /\ \A j \in Job :
                 status[j] \in Terminal =>
                     status'[j] = status[j] /\ author'[j] = author[j]
<1> USE SameVocabulary DEF TypeOK, QueueTypeOK, ResultsAreSigned, Terminal,
        Author, NoAuthor
<1>1. ASSUME NEW j \in Job,
             Lifecycle!Submit(j) \/ Lifecycle!Claim(j) \/ Lifecycle!Requeue(j)
      PROVE  /\ ResultsAreSigned => ResultsAreSigned'
             /\ \A k \in Job :
                   status[k] \in Terminal =>
                       status'[k] = status[k] /\ author'[k] = author[k]
  BY <1>1 DEF Lifecycle!Submit, Lifecycle!Claim, Lifecycle!Requeue
<1>2. ASSUME NEW j \in Job, NEW who \in Author, NEW to \in Terminal,
             Lifecycle!Resolve(j, who, to)
      PROVE  /\ ResultsAreSigned => ResultsAreSigned'
             /\ \A k \in Job :
                   status[k] \in Terminal =>
                       status'[k] = status[k] /\ author'[k] = author[k]
  BY <1>2 DEF Lifecycle!Resolve, Lifecycle!MayResolve
<1>3. CASE Lifecycle!Overlook \/ UNCHANGED Lifecycle!lifecycleVars
  BY <1>3 DEF Lifecycle!Overlook, Lifecycle!lifecycleVars
<1> QED
  BY <1>1, <1>2, <1>3 DEF Lifecycle!Next

(* Never more than BRIDGE_MAX_ACTIVE_JOBS files are queued or running, nor *)
(* more than BRIDGE_MAX_CONCURRENCY running, but for as many as a listing  *)
(* once could not read. The children stay within the limit all the same    *)
(* (CapHolds).                                                             *)
THEOREM LimitsHold == Spec => []LoadIsBounded
<1>1. Init => LoadIsBounded
  <2> SUFFICES ASSUME Init PROVE LoadIsBounded
    OBVIOUS
  <2>1. With(Active) = {} /\ With({"running"}) = {}
    BY DEF Init, QueueInit, With, Active
  <2>2. Cardinality(With(Active)) = 0 /\ Cardinality(With({"running"})) = 0
    BY <2>1, FS_EmptySet
  <2>3. lapse = 0
    BY DEF Init, QueueInit
  <2> QED
    BY <2>2, <2>3 DEF LoadIsBounded
<1>2. IInv /\ IInv' /\ [Next]_vars /\ LoadIsBounded => LoadIsBounded'
  BY LifecycleStep, LoadStep
<1> QED
  BY <1>1, <1>2, Invariance, PTL DEF Spec

(* Every resolution is written by somebody who may.                        *)
THEOREM ResultsStaySigned == Spec => []ResultsAreSigned
<1>1. Init => ResultsAreSigned
  BY DEF Init, QueueInit, ResultsAreSigned, Terminal, NoAuthor
<1>2. IInv /\ IInv' /\ [Next]_vars /\ ResultsAreSigned => ResultsAreSigned'
  BY LifecycleStep, SignatureStep DEF IInv
<1> QED
  BY <1>1, <1>2, Invariance, PTL DEF Spec

(* A resolution is final, whatever still runs or arrives for the job.      *)
THEOREM ResolutionsAreFinal == Spec => ResolvedForGood
<1>1. IInv /\ IInv' /\ [Next]_vars =>
          [\A j \in Job :
              status[j] \in Terminal =>
                  status'[j] = status[j] /\ author'[j] = author[j]]_vars
  BY LifecycleStep, SignatureStep DEF IInv
<1> QED
  BY <1>1, Invariance, PTL DEF Spec, ResolvedForGood

(* A success was executed: only a run that has spawned a child can report  *)
(* one, and neither a run that was refused, aborted or requeued nor a      *)
(* restart makes one up.                                                   *)
SuccessWasExecuted ==
    /\ \A j \in Job :
           run[j] = "executing" \/ result[j] = "succeeded" => j \in executed
    /\ \A j \in Job :
           status[j] = "succeeded" /\ author[j] = "execution" => j \in executed

(* Only ends are announced: a notification is never about a job that may   *)
(* still come to another end.                                              *)
OnlyEndsAreAnnounced ==
    cancelling \cup notifying \cup notified \subseteq With(Terminal)

LEMMA HonestStep ==
    ASSUME IInv, [Next]_vars, SuccessWasExecuted, OnlyEndsAreAnnounced
    PROVE  SuccessWasExecuted' /\ OnlyEndsAreAnnounced'
<1> USE DEF durableVars, claimVars, queueVars, runVars, apiVars, shutVars,
            bounds, diskVars, startVars, vars, SuccessWasExecuted, OnlyEndsAreAnnounced, With
<1>0. TypeOK /\ RunsAreInFlight /\ ClaimIsSound
  BY DEF IInv, Bookkeeping
<1> USE <1>0 DEF TypeOK, QueueTypeOK, Terminal, Active, NoResult, NoAuthor
<1>1. CASE Create
  BY <1>1 DEF Create, CreateAdmit, CreateSave, CreateFails
<1>2. CASE ClaimNext
  BY <1>2 DEF ClaimNext, ClaimWithoutRun, ClaimList, ClaimChoose, ClaimNothing,
     ClaimWrite, ClaimLate, ClaimUndo, Admit, ClaimAdmit, Transition, ClaimIsSound
<1>3. ASSUME NEW j \in Job, Lookup(j) \/ Start(j) \/ Requeue(j)
      PROVE  SuccessWasExecuted' /\ OnlyEndsAreAnnounced'
  BY <1>3 DEF Lookup, Start, Requeue, EndRun, Transition
<1>4. ASSUME NEW j \in Job, Spawn(j) \/ RefuseCwd(j) \/ ChildGone(j)
      PROVE  SuccessWasExecuted' /\ OnlyEndsAreAnnounced'
  BY <1>4 DEF Spawn, RefuseCwd, ChildGone, Settle, Alive
<1>5. ASSUME NEW j \in Job, Record(j) \/ RecordFails(j) \/ MarkFailed(j)
      PROVE  SuccessWasExecuted' /\ OnlyEndsAreAnnounced'
  BY <1>5 DEF Record, RecordFails, MarkFailed, EndRun, Transition,
     NotifyIfWritten, RunsAreInFlight
<1>6. ASSUME NEW j \in Job, CancelJob(j) \/ CompleteFromCallback(j)
      PROVE  SuccessWasExecuted' /\ OnlyEndsAreAnnounced'
  BY <1>6 DEF CancelJob, CompleteFromCallback, ResolveFromApi, Transition
<1>7. ASSUME NEW j \in Job, ApiStep(j) \/ Recover(j)
      PROVE  SuccessWasExecuted' /\ OnlyEndsAreAnnounced'
  BY <1>7 DEF ApiStep, RunnerCancel, RunnerCancelFails,
     Notify, NotifyFails, FileFails, Recover, Transition
<1>8. CASE Acquire \/ Serve \/ BeginShutdown \/ DrainEnd \/ ReleaseLate
  BY <1>8 DEF Acquire, Serve, BeginShutdown, DrainEnd, ReleaseLate
<1>9. CASE Exit \/ Crash
  BY <1>9 DEF Exit, Crash, ProcessEnds
<1>10. CASE UNCHANGED vars
  BY <1>10
<1> QED
  BY <1>1, <1>2, <1>3, <1>4, <1>5, <1>6, <1>7, <1>8, <1>9, <1>10
  DEF Next, ExecuteJob, ApiStep

(* Neither a success nor an announcement is ever made up.                  *)
THEOREM ReportsAreHonest ==
    Spec => [](SuccessWasExecuted /\ OnlyEndsAreAnnounced)
<1>1. Init => SuccessWasExecuted /\ OnlyEndsAreAnnounced
  BY DEF Init, QueueInit, SuccessWasExecuted, OnlyEndsAreAnnounced, NoResult,
     NoAuthor
<1>2. /\ IInv /\ [Next]_vars /\ SuccessWasExecuted /\ OnlyEndsAreAnnounced
      => SuccessWasExecuted' /\ OnlyEndsAreAnnounced'
  BY HonestStep
<1> QED
  BY <1>1, <1>2, Invariance, PTL DEF Spec

-----------------------------------------------------------------------------
(* What the runner makes of an execution: for each job it plays the        *)
(* contract that OmxExec keeps.                                            *)
Execution(j) ==
    INSTANCE ExecContract
    WITH stage <- run[j], signalled <- j \in aborted, outcome <- result[j]

Called(j) == run[j] \in {"starting", "executing"}

ResultAwaitsItsWrite ==
    \A j \in Job : run[j] # "settled" => result[j] = NoResult

(* Nothing but a step of the contract, or the end of the process, changes  *)
(* a call of execute, and a call begins as the contract says.              *)
ExecutionsAreCalls ==
    [][\A j \in Job :
          /\ Called(j) => \/ Execution(j)!Next
                          \/ UNCHANGED Execution(j)!contractVars
                          \/ phase' = "down"
          /\ ~Called(j) /\ Called(j)' => Execution(j)!Init']_vars

LEMMA ResultStep ==
    ASSUME IInv, [Next]_vars, ResultAwaitsItsWrite
    PROVE  ResultAwaitsItsWrite'
<1> USE DEF queueVars, runVars, vars, ResultAwaitsItsWrite, TypeOK
<1>0. TypeOK
  BY DEF IInv
<1>1. CASE Create \/ ClaimWithoutRun
  BY <1>1 DEF Create, ClaimWithoutRun
<1>6. CASE Admit
  BY <1>0, <1>6 DEF Admit, ClaimAdmit, IInv, Bookkeeping, ClaimIsSound,
     RunsAreInFlight
<1>2. ASSUME NEW j \in Job, ExecuteJob(j)
      PROVE  ResultAwaitsItsWrite'
  BY <1>0, <1>2 DEF ExecuteJob, Lookup, Start, Requeue, Spawn, RefuseCwd, ChildGone,
     Settle, Record, RecordFails, MarkFailed, EndRun
<1>3. ASSUME NEW j \in Job,
             \/ CancelJob(j) \/ CompleteFromCallback(j)
             \/ ApiStep(j) \/ Recover(j)
      PROVE  ResultAwaitsItsWrite'
  BY <1>3 DEF CancelJob, CompleteFromCallback, ResolveFromApi, ApiStep,
     RunnerCancel, RunnerCancelFails, Notify, NotifyFails, Recover
<1>4. CASE Acquire \/ Serve \/ BeginShutdown \/ DrainEnd \/ ReleaseLate
  BY <1>4 DEF Acquire, Serve, BeginShutdown, DrainEnd, ReleaseLate
<1>5. CASE Exit \/ Crash \/ UNCHANGED vars
  BY <1>5 DEF Exit, Crash, ProcessEnds
<1> QED
  BY <1>1, <1>2, <1>3, <1>4, <1>5, <1>6
  DEF Next, ClaimNext, ApiStep

LEMMA CallStep ==
    ASSUME IInv, ResultAwaitsItsWrite, [Next]_vars, NEW j \in Job
    PROVE  /\ Called(j) => \/ Execution(j)!Next
                           \/ UNCHANGED Execution(j)!contractVars
                           \/ phase' = "down"
           /\ ~Called(j) /\ Called(j)' => Execution(j)!Init'
<1> USE DEF queueVars, runVars, vars, ResultAwaitsItsWrite, Called, NoResult,
        Execution!Next, Execution!Init, Execution!contractVars
<1>0. TypeOK
  BY DEF IInv
<1> USE <1>0 DEF TypeOK
<1> DEFINE Follows ==
      /\ Called(j) => \/ Execution(j)!Next
                      \/ UNCHANGED Execution(j)!contractVars
                      \/ phase' = "down"
      /\ ~Called(j) /\ Called(j)' => Execution(j)!Init'
<1>1. CASE Create \/ ClaimWithoutRun
  BY <1>1 DEF Create, ClaimWithoutRun
<1>2. CASE Admit
  BY <1>2 DEF Admit, ClaimAdmit, IInv, Bookkeeping, ClaimIsSound, RunsAreInFlight
<1>3. ASSUME NEW k \in Job, k # j, ExecuteJob(k)
      PROVE  Follows
  BY <1>3 DEF ExecuteJob, Lookup, Start, Requeue, Spawn, RefuseCwd, ChildGone,
     Settle, Record, RecordFails, MarkFailed, EndRun
<1>4. CASE Lookup(j) \/ Requeue(j) \/ Record(j) \/ RecordFails(j) \/ MarkFailed(j)
  BY <1>4 DEF Lookup, Requeue, Record, RecordFails, MarkFailed, EndRun
<1>5. CASE Start(j)
  BY <1>5 DEF Start
<1>6. CASE Spawn(j)
  BY <1>6 DEF Spawn, Settle, Execution!Spawn, Execution!Refuse, Execution!Settle
<1>7. CASE RefuseCwd(j)
  BY <1>7 DEF RefuseCwd, Settle, Execution!Refuse, Execution!Settle
<1>8. CASE ChildGone(j)
  BY <1>8 DEF ChildGone, Alive, Settle, Execution!End, Execution!Settle
<1>9. ASSUME NEW k \in Job,
             \/ CancelJob(k) \/ CompleteFromCallback(k)
             \/ RunnerCancelFails(k) \/ Notify(k) \/ NotifyFails(k) \/ Recover(k)
      PROVE  Follows
  BY <1>9 DEF CancelJob, CompleteFromCallback, ResolveFromApi,
     RunnerCancelFails, Notify, NotifyFails, Recover
<1>10. CASE (\E k \in Job : RunnerCancel(k)) \/ BeginShutdown \/ DrainEnd
  BY <1>10 DEF RunnerCancel, BeginShutdown, DrainEnd, Execution!Signal
<1>11. CASE Acquire \/ Serve \/ ReleaseLate \/ UNCHANGED vars
  BY <1>11 DEF Acquire, Serve, ReleaseLate
<1>12. CASE Exit \/ Crash
  BY <1>12 DEF Exit, Crash, ProcessEnds
<1> QED
  BY <1>1, <1>2, <1>3, <1>4, <1>5, <1>6, <1>7, <1>8, <1>9, <1>10, <1>11, <1>12
  DEF Next, ClaimNext, ExecuteJob, ApiStep

(* Every call of execute that the runner makes is a behaviour of the       *)
(* contract, cut short at most by the end of the process.                  *)
THEOREM RunnerCallsExec == Spec => ExecutionsAreCalls
<1>1. Init => ResultAwaitsItsWrite
  BY DEF Init, ResultAwaitsItsWrite
<1>2. IInv /\ [Next]_vars /\ ResultAwaitsItsWrite => ResultAwaitsItsWrite'
  BY ResultStep
<1>3. IInv /\ [Next]_vars /\ ResultAwaitsItsWrite =>
          [\A j \in Job :
              /\ Called(j) => \/ Execution(j)!Next
                              \/ UNCHANGED Execution(j)!contractVars
                              \/ phase' = "down"
              /\ ~Called(j) /\ Called(j)' => Execution(j)!Init']_vars
  BY CallStep
<1> QED
  BY <1>1, <1>2, <1>3, Invariance, PTL DEF Spec, ExecutionsAreCalls

(* What a call of execute does beside its own state: a child is spawned.   *)
OnlyTheCall(j) ==
    /\ \A k \in Job \ {j} : run'[k] = run[k] /\ result'[k] = result[k]
    /\ executed' = IF run'[j] = "executing" /\ run[j] # "executing"
                   THEN executed \cup {j} ELSE executed
    /\ UNCHANGED <<queueVars, notified, controllers, aborted, apiVars,
                   notifying, shutVars, startVars, bounds>>

(* And the runner is ready for whatever the contract lets execute do: the  *)
(* theorems about it hold for every execution that keeps the contract. (A  *)
(* signal that settles the run is one that comes, and then the end.)       *)
THEOREM EveryOutcomeIsExpected ==
    ASSUME TypeOK, TypeOK', NEW j \in Job, OnlyTheCall(j),
           Execution(j)!Refuse \/ Execution(j)!Spawn \/ Execution(j)!End
    PROVE  ExecuteJob(j)
<1> USE DEF TypeOK, OnlyTheCall, Execution!Settle, Settle
<1>1. /\ run' = [run EXCEPT ![j] = run'[j]]
      /\ result' = [result EXCEPT ![j] = result'[j]]
  OBVIOUS
<1>2. CASE Execution(j)!Refuse
  <2>1. /\ run[j] = "starting"
        /\ run' = [run EXCEPT ![j] = "settled"]
        /\ executed' = executed
    BY <1>1, <1>2 DEF Execution!Refuse
  <2>2. \/ result' = [result EXCEPT ![j] = "failed"]
        \/ j \in aborted /\ result' = [result EXCEPT ![j] = "cancelled"]
    BY <1>1, <1>2 DEF Execution!Refuse
  <2> QED
    BY <2>1, <2>2 DEF RefuseCwd, Spawn, ExecuteJob
<1>3. CASE Execution(j)!Spawn
  <2>1. /\ run[j] = "starting" /\ j \notin aborted
        /\ run' = [run EXCEPT ![j] = "executing"]
        /\ executed' = executed \cup {j}
        /\ result' = result
    BY <1>1, <1>3 DEF Execution!Spawn
  <2> QED
    BY <2>1 DEF Spawn, ExecuteJob
<1>4. CASE Execution(j)!End
  <2>1. /\ Alive(j)
        /\ run' = [run EXCEPT ![j] = "settled"]
        /\ executed' = executed
    BY <1>1, <1>4 DEF Execution!End, Alive
  <2>2. \E r \in IF j \in aborted THEN {"cancelled", "failed"}
                                  ELSE {"succeeded", "failed"} :
           result' = [result EXCEPT ![j] = r]
    BY <1>1, <1>4 DEF Execution!End
  <2> QED
    BY <2>1, <2>2 DEF ChildGone, ExecuteJob
<1> QED
  BY <1>2, <1>3, <1>4
=============================================================================
