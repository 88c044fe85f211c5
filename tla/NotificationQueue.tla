------------------------- MODULE NotificationQueue -------------------------
(***************************************************************************)
(* What the shared store of omx-dispatch promises: completion              *)
(* notifications enter it, and leave it by being handed out, or because a  *)
(* newer one of the same job or the limit displaces them. Nothing is lost  *)
(* and nothing is handed out twice.                                        *)
(***************************************************************************)
EXTENDS Naturals, FiniteSets

CONSTANTS
    Job,               \* ids of jobs that notifications are about
    MaxNotifications,  \* bound: notifications received
    MaxQueueSize       \* MAX_NOTIFICATION_QUEUE_SIZE

(* receivedAt names a notification: no two have the same.                  *)
Notification == [job : Job, at : 1 .. MaxNotifications]

(* The newest notification of each job.                                    *)
Latest(S) == {n \in S : \A m \in S : m.job = n.job => m.at <= n.at}

Newer(n, S) == {m \in S : m.at > n.at}

(* The newest MaxQueueSize notifications.                                  *)
Retained(S) == {n \in S : Cardinality(Newer(n, S)) < MaxQueueSize}

VARIABLES
    pending,           \* what the store holds
    entered,           \* what has ever been put into it
    taken,             \* what has been handed out
    dropped            \* what the limit has displaced

queue == <<pending, entered, taken, dropped>>

Init ==
    /\ pending = {}
    /\ entered = {}
    /\ taken = {}
    /\ dropped = {}

Compacted(S) ==
    /\ pending' = Retained(Latest(S))
    /\ dropped' = dropped \cup (Latest(S) \ Retained(Latest(S)))

(* A notification enters once. When the store cannot be compacted it is    *)
(* only appended.                                                          *)
Enter(n) ==
    /\ n \notin entered
    /\ entered' = entered \cup {n}
    /\ \/ Compacted(pending \cup {n})
       \/ pending' = pending \cup {n} /\ UNCHANGED dropped
    /\ UNCHANGED taken

(* The newest notification of each job of J is handed out, and every older *)
(* one of any job goes with it.                                            *)
Take(J) ==
    /\ taken' = taken \cup {n \in Latest(pending) : n.job \in J}
    /\ pending' = {n \in Latest(pending) : n.job \notin J}
    /\ UNCHANGED <<entered, dropped>>

Compact == Compacted(pending) /\ UNCHANGED <<entered, taken>>

Next ==
    \/ \E n \in Notification : Enter(n)
    \/ \E J \in {Job} \cup {{j} : j \in Job} : Take(J)
    \/ Compact

Spec == Init /\ [][Next]_queue

-----------------------------------------------------------------------------
Superseded(n) == \E m \in entered : m.job = n.job /\ m.at > n.at

(* Nothing is lost: what has entered and is not pending has been handed    *)
(* out, displaced by the limit, or superseded by a newer one of its job.   *)
NothingLost ==
    \A n \in entered \ (pending \cup taken \cup dropped) : Superseded(n)

(* What was handed out, or displaced, is not pending again.                *)
GoneForGood == pending \cap (taken \cup dropped) = {}
=============================================================================
