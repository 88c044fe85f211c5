------------------------ MODULE NotificationProofs ------------------------
(***************************************************************************)
(* What the shared store of notifications guarantees for any number of     *)
(* processes, jobs, notifications and deaths, whatever files fail: while   *)
(* no living owner has lost its lock, it is the abstract queue, and the    *)
(* queue loses nothing and brings nothing back.                            *)
(***************************************************************************)
EXTENDS NotificationStore, TLAPS

(* The queue's invariant: what is pending, handed out or displaced has     *)
(* entered, which makes both of its promises inductive.                    *)
QueueInv ==
    /\ store \subseteq entered
    /\ taken \subseteq entered
    /\ dropped \subseteq entered
    /\ Q!NothingLost
    /\ Q!GoneForGood

(* The lock file names whoever is inside, and what a writer has read is    *)
(* what the file holds.                                                    *)
LockIsOwn ==
    \A p \in Process :
        ~robbed /\ step[p] \in Inside =>
            /\ lockFile = p
            /\ step[p] = "writing" => snapshot[p] = store

(* An enqueue that has not written its notification yet.                   *)
Unwritten(p) ==
    op[p] = "enqueue" /\ step[p] \in Step \ {"idle", "releasing", "unlinking"}

(* Every notification has a time of its own, and enters once.              *)
Fresh ==
    /\ \A n \in entered : n.at <= received
    /\ \A p \in Process :
           Unwritten(p) => subject[p] \notin entered /\ subject[p].at <= received
    /\ \A p, q \in Process :
           Unwritten(p) /\ Unwritten(q) /\ p # q => subject[p] # subject[q]

(* Only an enqueue falls back to appending.                                *)
EnqueueAppends ==
    \A p \in Process : step[p] = "appending" => op[p] = "enqueue"

SafeInv == TypeOK /\ LockIsOwn /\ Fresh /\ EnqueueAppends

StoreInv == SafeInv /\ (~robbed => QueueInv)

-----------------------------------------------------------------------------
(* What is not the newest of its job has a newer one beside it.            *)
LEMMA NotLatest ==
    ASSUME NEW S \in SUBSET Notification,
           NEW n \in S \ Q!Latest(S)
    PROVE  \E m \in S : m.job = n.job /\ m.at > n.at
<1>1. \A m \in S : m.at \in Nat
  BY StoreAssumption DEF Notification
<1>2. PICK m \in S : ~(m.job = n.job => m.at <= n.at)
  BY DEF Q!Latest
<1> QED
  BY <1>1, <1>2

(* The abstract queue keeps its invariant: what a compaction leaves out    *)
(* has a newer notification of its job in the queue, or is displaced.      *)
LEMMA CompactedKeeps ==
    ASSUME NEW S \in SUBSET Notification, QueueInv, Q!Compacted(S),
           S \subseteq entered', store \subseteq S, entered' \subseteq S \cup entered,
           S \cap (taken \cup dropped) = {},
           entered \subseteq entered', taken' = taken
    PROVE  /\ store' \cup taken' \cup dropped' \subseteq entered'
           /\ Q!NothingLost'
           /\ Q!GoneForGood'
<1> DEFINE R == Q!Retained(Q!Latest(S))
<1>1. /\ store' = R
      /\ dropped' = dropped \cup (Q!Latest(S) \ R)
      /\ R \subseteq Q!Latest(S)
      /\ Q!Latest(S) \subseteq S
  BY DEF Q!Compacted, Q!Latest, Q!Retained
<1>2. \A n \in S \ Q!Latest(S) : \E m \in S : m.job = n.job /\ m.at > n.at
  BY NotLatest
<1> HIDE DEF R
<1>3. store' \cup taken' \cup dropped' \subseteq entered'
  BY <1>1 DEF QueueInv
<1>4. Q!NothingLost'
  <2> SUFFICES ASSUME NEW n \in entered' \ (store' \cup taken' \cup dropped')
               PROVE  \E m \in entered' : m.job = n.job /\ m.at > n.at
    BY DEF Q!NothingLost, Q!Superseded
  <2>1. CASE n \in S
    BY <1>1, <1>2, <2>1
  <2>2. CASE n \notin S
    BY <1>1, <2>2 DEF QueueInv, Q!NothingLost, Q!Superseded
  <2> QED
    BY <2>1, <2>2
<1>5. Q!GoneForGood'
  BY <1>1 DEF Q!GoneForGood
<1> QED
  BY <1>3, <1>4, <1>5

(* Every step of the abstract queue keeps its invariant.                   *)
LEMMA QueueStep ==
    ASSUME QueueInv, Q!Next, entered \subseteq Notification
    PROVE  QueueInv'
<1>1. ASSUME NEW n \in Notification, Q!Enter(n)
      PROVE  QueueInv'
  <2>1. /\ n \notin entered
        /\ entered' = entered \cup {n}
        /\ taken' = taken
    BY <1>1 DEF Q!Enter
  <2>2. CASE Q!Compacted(store \cup {n})
    <3>1. /\ store \cup {n} \in SUBSET Notification
          /\ (store \cup {n}) \cap (taken \cup dropped) = {}
      BY <2>1 DEF QueueInv, Q!GoneForGood
    <3> QED
      BY <2>1, <2>2, <3>1, CompactedKeeps DEF QueueInv
  <2>3. CASE store' = store \cup {n} /\ UNCHANGED dropped
    BY <2>1, <2>3 DEF QueueInv, Q!NothingLost, Q!GoneForGood, Q!Superseded
  <2> QED
    BY <1>1, <2>2, <2>3 DEF Q!Enter
<1>2. ASSUME NEW J, Q!Take(J)
      PROVE  QueueInv'
  <2>1. /\ store' \cup (taken' \ taken) = Q!Latest(store)
        /\ store' \cap (taken' \ taken) = {}
        /\ taken \subseteq taken'
        /\ Q!Latest(store) \subseteq store
        /\ entered' = entered
        /\ dropped' = dropped
    BY <1>2 DEF Q!Take, Q!Latest, QueueInv, Q!GoneForGood
  <2>2. \A n \in store \ Q!Latest(store) :
            \E m \in store : m.job = n.job /\ m.at > n.at
    BY NotLatest DEF QueueInv
  <2>3. Q!NothingLost'
    <3> SUFFICES ASSUME NEW n \in entered \ (store' \cup taken' \cup dropped)
                 PROVE  \E m \in entered : m.job = n.job /\ m.at > n.at
      BY <2>1 DEF Q!NothingLost, Q!Superseded
    <3>1. CASE n \in store
      BY <2>1, <2>2, <3>1 DEF QueueInv
    <3>2. CASE n \notin store
      BY <2>1, <3>2 DEF QueueInv, Q!NothingLost, Q!Superseded
    <3> QED
      BY <3>1, <3>2
  <2>4. Q!GoneForGood'
    BY <2>1 DEF QueueInv, Q!GoneForGood
  <2> QED
    BY <2>1, <2>3, <2>4 DEF QueueInv
<1>3. ASSUME Q!Compact
      PROVE  QueueInv'
  <2>1. store \in SUBSET Notification /\ store \cap (taken \cup dropped) = {}
    BY DEF QueueInv, Q!GoneForGood
  <2> QED
    BY <1>3, <2>1, CompactedKeeps DEF Q!Compact, QueueInv
<1>4. Q!Notification = Notification
  BY DEF Q!Notification, Notification
<1> QED
  BY <1>1, <1>2, <1>3, <1>4 DEF Q!Next

-----------------------------------------------------------------------------
(* The lock and the stamps of the notifications, action by action.         *)
LEMMA SafeInit ==
    ASSUME Init
    PROVE  SafeInv
<1>1. TypeOK
  <2>1. /\ step \in [Process -> Step]
        /\ op \in [Process -> Op]
        /\ subject \in [Process -> Notification \cup Job \cup {None}]
        /\ snapshot \in [Process -> SUBSET Notification]
    BY DEF Init, Op, Step
  <2>2. \A p \in Process : op[p] = "getStats"
    BY DEF Init
  <2>3. received \in 0 .. MaxNotifications /\ crashes \in 0 .. MaxCrashes
    BY StoreAssumption DEF Init
  <2> QED
    BY <2>1, <2>2, <2>3 DEF Init, TypeOK
<1>2. LockIsOwn
  BY DEF Init, LockIsOwn, Inside
<1>3. Fresh
  BY DEF Init, Fresh, Unwritten
<1>4. EnqueueAppends
  BY DEF Init, EnqueueAppends
<1> QED
  BY <1>1, <1>2, <1>3, <1>4 DEF SafeInv

LEMMA BeginStep ==
    ASSUME SafeInv, NEW p \in Process, Receive(p) \/ Ask(p)
    PROVE  SafeInv'
<1> USE StoreAssumption DEF SafeInv, TypeOK, Begin, Goes, Op, Step, Inside
<1>1. CASE Receive(p)
  <2>1. PICK j \in Job :
            received' = received + 1 /\ Begin(p, "enqueue", [job |-> j, at |-> received'])
    BY <1>1 DEF Receive
  <2>2. received < MaxNotifications /\ received' \in 1 .. MaxNotifications
    BY <1>1, <2>1 DEF Receive
  <2>3. [job |-> j, at |-> received'] \in Notification
    BY <2>2 DEF Notification
  <2>4. TypeOK'
    BY <2>1, <2>2, <2>3 DEF history
  <2>5. LockIsOwn'
    BY <2>1 DEF LockIsOwn
  <2>6. Fresh'
    <3>1. subject' = [subject EXCEPT ![p] = [job |-> j, at |-> received']]
          /\ entered' = entered
      BY <2>1 DEF history
    <3>2. \A n \in Notification : n.at \in Nat
      BY DEF Notification
    <3>3. \A n \in entered : n.at <= received /\ n.at < received'
      BY <2>1, <3>2 DEF Fresh
    <3>4. \A q \in Process \ {p} :
              /\ Unwritten(q)' <=> Unwritten(q)
              /\ subject'[q] = subject[q]
      BY <2>1 DEF Unwritten
    <3>5. \A q \in Process \ {p} : Unwritten(q) => 
              /\ subject[q] \notin entered
              /\ subject[q].at <= received /\ subject[q].at < received'
      BY <2>1, <3>2 DEF Fresh, Unwritten
    <3>6. subject'[p].at = received' /\ subject'[p] \notin entered
      <4>1. subject'[p] = [job |-> j, at |-> received']
        BY <3>1
      <4>2. subject'[p].at = received' /\ received' \in Nat
        BY <2>2, <4>1
      <4> QED
        BY <3>3, <4>2
    <3>7. \A n \in entered' : n.at <= received'
      BY <2>1, <3>1, <3>2, <3>3
    <3>8. \A q \in Process : Unwritten(q)' =>
              subject'[q] \notin entered' /\ subject'[q].at <= received'
      <4> SUFFICES ASSUME NEW q \in Process, Unwritten(q)'
                   PROVE  subject'[q] \notin entered' /\ subject'[q].at <= received'
        OBVIOUS
      <4>1. CASE q = p
        BY <2>2, <3>1, <3>6, <4>1
      <4>2. CASE q # p
        <5>1. subject[q] \in Notification /\ subject'[q] = subject[q]
          BY <3>4, <4>2 DEF Unwritten
        <5> QED
          BY <2>2, <3>1, <3>2, <3>4, <3>5, <4>2, <5>1
      <4> QED
        BY <4>1, <4>2
    <3>9. \A q, r \in Process :
              Unwritten(q)' /\ Unwritten(r)' /\ q # r => subject'[q] # subject'[r]
      BY <2>1, <3>2, <3>4, <3>5, <3>6 DEF Fresh
    <3> QED
      BY <3>7, <3>8, <3>9 DEF Fresh
  <2>7. EnqueueAppends'
    BY <2>1 DEF EnqueueAppends
  <2> QED
    BY <2>4, <2>5, <2>6, <2>7
<1>2. CASE Ask(p)
  <2>1. /\ received' = received
        /\ \/ \E j \in Job : Begin(p, "drainForJob", j)
           \/ \E o \in {"drainAll", "load", "getStats"} : Begin(p, o, None)
    BY <1>2 DEF Ask
  <2>2. TypeOK'
    BY <2>1 DEF history
  <2>3. LockIsOwn'
    BY <2>1 DEF LockIsOwn
  <2>4. Fresh'
    BY <2>1 DEF Fresh, Unwritten, history
  <2>5. EnqueueAppends'
    BY <2>1 DEF EnqueueAppends
  <2> QED
    BY <2>2, <2>3, <2>4, <2>5
<1> QED
  BY <1>1, <1>2

(* A step that stamps nothing and writes no enqueue keeps the stamps.      *)
LEMMA FreshKept ==
    ASSUME Fresh, UNCHANGED <<op, subject, received, entered>>,
           \A q \in Process : Unwritten(q)' => Unwritten(q)
    PROVE  Fresh'
BY DEF Fresh

(* Waiting for the lock changes no file but the lock's.                    *)
LEMMA WaitStep ==
    ASSUME SafeInv, NEW p \in Process,
           Lock(p) \/ Inspect(p) \/ TimeOut(p) \/ RemoveStale(p)
    PROVE  SafeInv'
<1> USE DEF SafeInv, TypeOK, Goes, Step, Inside
<1>1. TypeOK'
  BY StoreAssumption
  DEF Lock, Inspect, TimeOut, RemoveStale, RemoveLock, local, history
<1>2. LockIsOwn'
  <2>1. CASE Lock(p)
    BY <2>1, StoreAssumption DEF Lock, LockIsOwn, local
  <2>2. CASE Inspect(p) \/ TimeOut(p)
    BY <2>2 DEF Inspect, TimeOut, LockIsOwn, local
  <2>3. CASE RemoveStale(p)
    BY <2>3 DEF RemoveStale, RemoveLock, LockIsOwn, local
  <2> QED
    BY <2>1, <2>2, <2>3
<1>3. Fresh'
  <2>1. \A q \in Process : Unwritten(q)' => Unwritten(q)
    BY DEF Lock, Inspect, TimeOut, RemoveStale, local, Unwritten
  <2>2. UNCHANGED <<op, subject, received, entered>>
    BY DEF Lock, Inspect, TimeOut, RemoveStale, local, history
  <2> QED
    BY <2>1, <2>2, FreshKept
<1>4. EnqueueAppends'
  BY DEF Lock, Inspect, TimeOut, RemoveStale, local, EnqueueAppends
<1> QED
  BY <1>1, <1>2, <1>3, <1>4

(* Ages, releases and deaths: whoever is inside keeps its lock file.       *)
LEMMA EndStep ==
    ASSUME SafeInv,
           Age \/ \E p \in Process : ReadToken(p) \/ Unlock(p) \/ Crash(p)
    PROVE  SafeInv'
<1> USE DEF SafeInv, TypeOK, Goes, Returns, Step, Inside
<1>1. CASE Age
  <2>1. TypeOK' /\ LockIsOwn'
    BY <1>1 DEF Age, LockIsOwn, local, history
  <2>2. Fresh'
    BY <1>1 DEF Age, Fresh, Unwritten, local, history
  <2>3. EnqueueAppends'
    BY <1>1 DEF Age, EnqueueAppends, local
  <2> QED
    BY <2>1, <2>2, <2>3
<1>2. ASSUME NEW p \in Process, ReadToken(p) \/ Unlock(p) \/ Crash(p)
      PROVE  SafeInv'
  <2>1. TypeOK'
    <3>1. CASE ReadToken(p)
      BY <3>1 DEF ReadToken, history
    <3>2. CASE Unlock(p)
      BY <3>2 DEF Unlock, RemoveLock, history
    <3>3. CASE Crash(p)
      BY <3>3, StoreAssumption DEF Crash, history
    <3> QED
      BY <1>2, <3>1, <3>2, <3>3
  <2>2. LockIsOwn'
    <3>1. CASE ReadToken(p)
      BY <3>1 DEF ReadToken, LockIsOwn
    <3>2. CASE Unlock(p)
      BY <3>2 DEF Unlock, RemoveLock, LockIsOwn
    <3>3. CASE Crash(p)
      BY <3>3 DEF Crash, LockIsOwn
    <3> QED
      BY <1>2, <3>1, <3>2, <3>3
  <2>3. Fresh'
    <3>1. \A q \in Process : Unwritten(q)' => Unwritten(q)
      BY <1>2 DEF ReadToken, Unlock, Crash, Unwritten
    <3>2. UNCHANGED <<op, subject, received, entered>>
      BY <1>2 DEF ReadToken, Unlock, Crash, history
    <3> QED
      BY <3>1, <3>2, FreshKept
  <2>4. EnqueueAppends'
    BY <1>2 DEF ReadToken, Unlock, Crash, EnqueueAppends
  <2> QED
    BY <2>1, <2>2, <2>3, <2>4
<1> QED
  BY <1>1, <1>2

(* What an operation does to the file, it does alone.                      *)
LEMMA ReadStep ==
    ASSUME SafeInv, NEW p \in Process, Read(p)
    PROVE  SafeInv'
<1> USE DEF SafeInv, TypeOK, Goes, Step, Inside
<1>1. TypeOK'
  BY DEF Read, history
<1>2. LockIsOwn'
  BY DEF Read, LockIsOwn
<1>3. Fresh'
  <2>1. \A q \in Process : Unwritten(q)' => Unwritten(q)
    BY DEF Read, Unwritten
  <2>2. UNCHANGED <<op, subject, received, entered>>
    BY DEF Read, history
  <2> QED
    BY <2>1, <2>2, FreshKept
<1>4. EnqueueAppends'
  BY DEF Read, EnqueueAppends
<1> QED
  BY <1>1, <1>2, <1>3, <1>4

(* An enqueue's own notification enters; the others are different ones.    *)
LEMMA EnterStep ==
    ASSUME SafeInv, NEW p \in Process, Unwritten(p), WritesDone(p),
           entered' = entered \cup {subject[p]}
    PROVE  Fresh'
<1> USE DEF SafeInv, TypeOK, WritesDone, Goes, local, Unwritten, Step, Inside
<1>1. UNCHANGED <<op, subject, received>> /\ step'[p] = "releasing"
  OBVIOUS
<1>2. \A q \in Process : Unwritten(q)' => Unwritten(q) /\ q # p
  OBVIOUS
<1>3. \A n \in entered' : n.at <= received'
  BY <1>1 DEF Fresh
<1>4. \A q \in Process : Unwritten(q)' => subject'[q] \notin entered'
  BY <1>1, <1>2 DEF Fresh
<1>5. \A q \in Process : Unwritten(q)' => subject'[q].at <= received'
  BY <1>1, <1>2 DEF Fresh
<1>6. \A q, r \in Process :
          Unwritten(q)' /\ Unwritten(r)' /\ q # r => subject'[q] # subject'[r]
  BY <1>1, <1>2 DEF Fresh
<1> QED
  BY <1>3, <1>4, <1>5, <1>6 DEF Fresh

LEMMA WriteStep ==
    ASSUME SafeInv, NEW p \in Process, Write(p) \/ Append(p)
    PROVE  SafeInv'
<1> USE DEF SafeInv, TypeOK, Goes, Step, Inside
<1>1. step[p] \in {"writing", "appending"}
  BY DEF Write, Append
<1>2. /\ step' = [step EXCEPT ![p] = step'[p]]
      /\ step'[p] \in {"releasing", "appending"}
      /\ UNCHANGED <<lockFile, lockStale, op, subject, snapshot, received,
                     crashes, robbed>>
  BY DEF Write, Append, Enqueue, Compact, Drain, ReturnUncleared, RewriteFails,
         WritesDone, local
<1>3. LockIsOwn'
  BY <1>1, <1>2 DEF LockIsOwn
<1>4. EnqueueAppends'
  <2>1. step'[p] = "appending" => op[p] = "enqueue"
    BY DEF Write, Append, Enqueue, Compact, Drain, ReturnUncleared,
           RewriteFails, WritesDone
  <2> QED
    BY <1>2, <2>1 DEF EnqueueAppends
<1>5. Drained(p) \subseteq Notification /\ Q!Latest(snapshot[p]) \subseteq Notification
  BY DEF Drained, Q!Latest
<1>6. op[p] = "enqueue" =>
          Q!Latest(snapshot[p] \cup {subject[p]}) \subseteq Notification
  BY DEF Q!Latest
<1>7. \A S : Q!Retained(S) \subseteq S
  BY DEF Q!Retained
<1>8. CASE Write(p)
  <2>1. TypeOK' /\ (op[p] # "enqueue" => entered' = entered)
    <3>1. CASE Enqueue(p)
      BY <1>2, <1>6, <1>7, <3>1 DEF Enqueue
    <3>2. CASE Compact(p)
      BY <1>2, <1>5, <1>7, <3>2 DEF Compact
    <3>3. CASE Drain(p)
      BY <1>2, <1>5, <3>3 DEF Drain
    <3>4. CASE ReturnUncleared(p)
      BY <1>2, <1>5, <3>4 DEF ReturnUncleared, history
    <3>5. CASE RewriteFails(p)
      BY <1>2, <3>5 DEF RewriteFails, history
    <3> QED
      BY <1>8, <3>1, <3>2, <3>3, <3>4, <3>5 DEF Write
  <2>2. Fresh'
    <3>1. CASE Enqueue(p)
      BY <1>1, <3>1, EnterStep DEF Enqueue, Unwritten
    <3>2. CASE entered' = entered
      <4>1. \A q \in Process : Unwritten(q)' => Unwritten(q)
        BY <1>1, <1>2 DEF Unwritten
      <4> QED
        BY <1>2, <3>2, <4>1, FreshKept
    <3> QED
      BY <1>8, <3>1, <3>2
      DEF Write, Compact, Drain, ReturnUncleared, RewriteFails, history
  <2> QED
    BY <1>3, <1>4, <2>1, <2>2
<1>9. CASE Append(p)
  <2>1. op[p] = "enqueue" /\ subject[p] \in Notification /\ Unwritten(p)
    BY <1>9 DEF Append, EnqueueAppends, Unwritten
  <2>2. \/ store' = store \cup {subject[p]} /\ entered' = entered \cup {subject[p]}
        \/ store' = store /\ entered' = entered
    BY <1>9 DEF Append
  <2>3. TypeOK'
    BY <1>2, <1>9, <2>1, <2>2 DEF Append
  <2>4. Fresh'
    <3>1. CASE entered' = entered \cup {subject[p]}
      BY <1>9, <2>1, <3>1, EnterStep DEF Append
    <3>2. CASE entered' = entered
      <4>1. \A q \in Process : Unwritten(q)' => Unwritten(q)
        BY <1>1, <1>2 DEF Unwritten
      <4> QED
        BY <1>2, <3>2, <4>1, FreshKept
    <3> QED
      BY <2>2, <3>1, <3>2
  <2> QED
    BY <1>3, <1>4, <2>3, <2>4
<1> QED
  BY <1>8, <1>9

-----------------------------------------------------------------------------
(* Under the lock the detailed operations are those of the queue.          *)
LEMMA RefinementStep ==
    ASSUME SafeInv, Next, ~robbed'
    PROVE  Q!Next \/ UNCHANGED <<store, history>>
<1> SUFFICES ASSUME NEW p \in Process, Write(p) \/ Append(p)
             PROVE  Q!Next \/ UNCHANGED <<store, history>>
  BY DEF Next, Proceed, Receive, Ask, Begin, Lock, Inspect, RemoveStale, Read,
         ReadToken, Unlock, TimeOut, Crash, Age, history
<1>1. ~robbed
  BY DEF Write, Append, Enqueue, Compact, Drain, ReturnUncleared, RewriteFails,
         WritesDone
<1>2. step[p] = "writing" => snapshot[p] = store
  BY <1>1 DEF SafeInv, LockIsOwn, Inside
<1>3. op[p] = "enqueue" /\ step[p] \in {"writing", "appending"} =>
          subject[p] \in Q!Notification /\ subject[p] \notin entered
  BY DEF SafeInv, TypeOK, Fresh, Unwritten, Step, Inside, Notification,
         Q!Notification
<1>4. CASE step[p] = "writing" /\ Enqueue(p)
  <2>1. Q!Enter(subject[p])
    BY <1>2, <1>3, <1>4 DEF Enqueue, Q!Enter, Q!Compacted
  <2> QED
    BY <1>3, <1>4, <2>1 DEF Enqueue, Q!Next
<1>5. CASE step[p] = "writing" /\ Compact(p)
  BY <1>2, <1>5 DEF Compact, Q!Next, Q!Compact, Q!Compacted
<1>6. CASE step[p] = "writing" /\ Drain(p)
  <2> DEFINE J == IF op[p] = "drainAll" THEN Job ELSE {subject[p]}
  <2>1. \A n \in Q!Latest(store) : n.job \in Job
    BY DEF SafeInv, TypeOK, Notification, Q!Latest
  <2>2. Drained(p) = {n \in Q!Latest(store) : n.job \in J}
    BY <1>2, <1>6, <2>1 DEF Drained
  <2>3. /\ op[p] \in {"drainForJob", "drainAll"}
        /\ store' = Q!Latest(store) \ Drained(p)
        /\ taken' = taken \cup Drained(p)
        /\ UNCHANGED <<entered, dropped>>
    BY <1>2, <1>6 DEF Drain
  <2>4. J \in {Job} \cup {{j} : j \in Job}
    BY <2>3 DEF SafeInv, TypeOK
  <2> HIDE DEF J
  <2>5. Q!Take(J)
    BY <2>2, <2>3 DEF Q!Take
  <2> QED
    BY <2>4, <2>5 DEF Q!Next
<1>7. CASE ReturnUncleared(p) \/ RewriteFails(p)
  BY <1>7 DEF ReturnUncleared, RewriteFails, history
<1>8. CASE Append(p)
  <2>1. CASE entered' = entered \cup {subject[p]} /\ store' = store \cup {subject[p]}
    <3>1. Q!Enter(subject[p])
      BY <1>3, <1>8, <2>1 DEF Append, SafeInv, EnqueueAppends, Q!Enter
    <3> QED
      BY <1>3, <1>8, <3>1 DEF Append, SafeInv, EnqueueAppends, Q!Next
  <2>2. CASE UNCHANGED <<store, entered>>
    BY <1>8, <2>2 DEF Append, history
  <2> QED
    BY <1>8, <2>1, <2>2 DEF Append
<1> QED
  BY <1>4, <1>5, <1>6, <1>7, <1>8 DEF Write

LEMMA StoreStep ==
    ASSUME StoreInv, [Next]_vars
    PROVE  StoreInv'
<1>1. CASE Next
  <2>1. SafeInv'
    BY <1>1, BeginStep, WaitStep, EndStep, ReadStep, WriteStep
    DEF StoreInv, Next, Proceed
  <2>2. ~robbed' => ~robbed
    BY <1>1
    DEF Next, Proceed, Receive, Ask, Begin, Lock, Inspect, TimeOut, RemoveStale,
        RemoveLock, Read, Write, Enqueue, Compact, Drain, ReturnUncleared,
        RewriteFails, WritesDone, Append, ReadToken, Unlock, Crash, Age
  <2>3. ASSUME ~robbed'
        PROVE  QueueInv'
    <3>1. QueueInv /\ entered \subseteq Notification
      BY <2>2, <2>3 DEF StoreInv, SafeInv, TypeOK
    <3>2. CASE Q!Next
      BY <3>1, <3>2, QueueStep
    <3>3. CASE UNCHANGED <<store, history>>
      BY <3>1, <3>3
      DEF history, QueueInv, Q!NothingLost, Q!GoneForGood, Q!Superseded
    <3> QED
      BY <1>1, <2>3, <3>2, <3>3, RefinementStep DEF StoreInv
  <2> QED
    BY <2>1, <2>3 DEF StoreInv
<1>2. CASE UNCHANGED vars
  BY <1>2
  DEF StoreInv, SafeInv, TypeOK, LockIsOwn, Fresh, Unwritten, EnqueueAppends,
      QueueInv, Q!NothingLost, Q!GoneForGood, Q!Superseded, vars, local,
      history
<1> QED
  BY <1>1, <1>2

(* In every reachable state the lock excludes, notifications have times of *)
(* their own and, while no living owner has lost its lock, the queue is    *)
(* consistent with its history.                                            *)
THEOREM StoreInvariance == Spec => []StoreInv
<1>1. Init => StoreInv
  <2> SUFFICES ASSUME Init
               PROVE  StoreInv
    OBVIOUS
  <2>1. QueueInv
    BY DEF Init, QueueInv, Q!NothingLost, Q!GoneForGood
  <2> QED
    BY <2>1, SafeInit DEF StoreInv
<1> QED
  BY <1>1, StoreStep, PTL DEF Spec

(* Only one process at a time works on the file (withFileLock), also when  *)
(* owners die, unless a living owner has had its lock file removed.        *)
THEOREM LockIsExclusive == Spec => []LockExcludes
<1>1. StoreInv => LockExcludes
  BY DEF StoreInv, SafeInv, LockIsOwn, LockExcludes
<1> QED
  BY <1>1, StoreInvariance, PTL

(* Before any death, and unless owners stall, no lock is ever taken over.  *)
Undisturbed ==
    crashes = 0 /\ ~OwnersStall =>
        /\ lockFile # Orphan
        /\ ~lockStale
        /\ ~robbed
        /\ \A p \in Process : step[p] # "removing"

LEMMA UndisturbedStep ==
    ASSUME StoreInv, Undisturbed, [Next]_vars
    PROVE  Undisturbed'
<1> SUFFICES ASSUME crashes' = 0, ~OwnersStall
             PROVE  /\ lockFile' # Orphan
                    /\ ~lockStale'
                    /\ ~robbed'
                    /\ \A p \in Process : step'[p] # "removing"
  BY DEF Undisturbed
<1> USE StoreAssumption DEF StoreInv, SafeInv, TypeOK, Goes
<1>1. \A p \in Process : ~Crash(p)
  BY DEF Crash
<1>2. crashes = 0
  BY <1>1
  DEF Next, Proceed, Receive, Ask, Begin, Lock, Inspect, TimeOut, RemoveStale,
      Read, Write, Enqueue, Compact, Drain, ReturnUncleared, RewriteFails,
      WritesDone, Append, ReadToken, Unlock, Age, vars
<1>3. /\ lockFile # Orphan
      /\ ~lockStale
      /\ ~robbed
      /\ \A p \in Process : step[p] # "removing"
  BY <1>2 DEF Undisturbed
<1>4. ASSUME NEW p \in Process, Receive(p) \/ Ask(p) \/ Read(p) \/ ReadToken(p)
                                \/ TimeOut(p) \/ Write(p) \/ Append(p)
      PROVE  /\ UNCHANGED <<lockFile, lockStale, robbed>>
             /\ \A q \in Process : step'[q] # "removing"
  BY <1>3, <1>4
  DEF Receive, Ask, Begin, Read, ReadToken, Returns, TimeOut, Write, Enqueue,
      Compact, Drain, ReturnUncleared, RewriteFails, WritesDone, Append
<1>5. ASSUME NEW p \in Process, Lock(p) \/ Inspect(p)
      PROVE  /\ lockFile' # Orphan /\ ~lockStale' /\ robbed' = robbed
             /\ \A q \in Process : step'[q] # "removing"
  BY <1>3, <1>5 DEF Lock, Inspect
<1>6. ASSUME NEW p \in Process, Unlock(p)
      PROVE  /\ lockFile' # Orphan /\ ~lockStale' /\ ~robbed'
             /\ \A q \in Process : step'[q] # "removing"
  <2>1. lockFile = p
    BY <1>3, <1>6 DEF Unlock, LockIsOwn, Inside
  <2> QED
    BY <1>3, <1>6, <2>1 DEF Unlock, RemoveLock, Returns
<1>7. ~Age /\ \A p \in Process : ~RemoveStale(p)
  BY <1>3 DEF Age, RemoveStale
<1>8. CASE UNCHANGED vars
  BY <1>3, <1>8 DEF vars
<1> QED
  BY <1>1, <1>3, <1>4, <1>5, <1>6, <1>7, <1>8 DEF Next, Proceed

(* Waiting, however long and with however many others, takes no lock from  *)
(* a process at work: only after a death, or an operation slower than      *)
(* lockStaleMs, can a living owner lose its lock.                          *)
THEOREM RobbedOnlyByDeathOrDelay == Spec => []OnlyDeathOrDelayRobs
<1>1. Init => Undisturbed
  BY StoreAssumption DEF Init, Undisturbed
<1>2. Spec => []Undisturbed
  BY <1>1, UndisturbedStep, StoreInvariance, PTL DEF Spec
<1>3. StoreInv /\ Undisturbed => OnlyDeathOrDelayRobs
  BY DEF StoreInv, SafeInv, TypeOK, Undisturbed, OnlyDeathOrDelayRobs
<1> QED
  BY <1>2, <1>3, StoreInvariance, PTL

(* No notification that an enqueue has put in the file is lost.            *)
THEOREM StoreLosesNothing == Spec => []NothingIsLost
<1>1. StoreInv => NothingIsLost
  BY DEF StoreInv, QueueInv, NothingIsLost
<1> QED
  BY <1>1, StoreInvariance, PTL

(* No notification that was drained, or displaced by the limit, comes back *)
(* into the file.                                                          *)
THEOREM StoreBringsNothingBack == Spec => []NothingComesBack
<1>1. StoreInv => NothingComesBack
  BY DEF StoreInv, QueueInv, NothingComesBack
<1> QED
  BY <1>1, StoreInvariance, PTL

(* The store implements the abstract queue: enqueue, drainForJob, drainAll *)
(* and the compaction at startup are single steps of it, as long as no     *)
(* living owner loses its lock.                                            *)
THEOREM StoreImplementsQueue == Spec => ImplementsQueue
<1>1. Init => Q!Init
  BY DEF Init, Q!Init
<1>2. ASSUME StoreInv, [Next]_vars
      PROVE  [robbed' \/ Q!Next]_<<store, history>>
  <2>1. CASE Next
    BY <1>2, <2>1, RefinementStep DEF StoreInv
  <2>2. CASE UNCHANGED vars
    BY <2>2 DEF vars, history
  <2> QED
    BY <1>2, <2>1, <2>2
<1> QED
  BY <1>1, <1>2, StoreInvariance, PTL DEF Spec, ImplementsQueue
=============================================================================
