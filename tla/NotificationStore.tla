------------------------- MODULE NotificationStore -------------------------
(***************************************************************************)
(* NotificationStore of omx-dispatch: processes that share one file of     *)
(* notifications under a lock file. Each process works on one operation at *)
(* a time (withStoreLock). The lock is created with wx, inspected by its   *)
(* age, removed by path when it is old, and removed by its owner when the  *)
(* token in it is its own: all of them separate steps.                     *)
(*                                                                         *)
(* The file's lines are a set of notifications: every reader deduplicates  *)
(* and sorts them. The in-memory queue only feeds getStats when the file   *)
(* cannot be read, and is left out.                                        *)
(***************************************************************************)
EXTENDS Naturals, FiniteSets

CONSTANTS
    Process,           \* omx-dispatch processes; one that dies starts again
    Job,
    MaxNotifications,
    MaxQueueSize,
    NoLock,            \* no lock file
    Orphan,            \* a lock file whose owner has died
    None,              \* a notification or job an operation does not have
    Faults,            \* the file operations that may fail
    OwnersStall,       \* an owner may be slower than lockStaleMs
    MaxCrashes         \* bound: processes that die

ASSUME StoreAssumption ==
    /\ MaxNotifications \in Nat
    /\ MaxQueueSize \in Nat \ {0}
    /\ MaxCrashes \in Nat
    /\ Faults \subseteq {"read", "rewrite", "append", "clear"}
    /\ OwnersStall \in BOOLEAN
    /\ NoLock # Orphan
    /\ {NoLock, Orphan} \cap Process = {}

VARIABLES
    store,             \* the notifications in the file
    lockFile,          \* the owner of the lock file
    lockStale,         \* the lock file is older than lockStaleMs
    step,              \* where each process is in its operation
    op,                \* what the operation is
    subject,           \* the notification or the job it is about
    snapshot,          \* what it has read from the file
    received,          \* notifications received so far
    crashes,
    entered,           \* history: notifications an enqueue has put in
    taken,             \* history: notifications a drain has removed
    dropped,           \* history: notifications the limit has displaced
    robbed             \* history: a living process has lost its lock file

history == <<entered, taken, dropped>>
local   == <<op, subject, snapshot>>
vars    == <<store, lockFile, lockStale, step, local, received, crashes,
             history, robbed>>

Q == INSTANCE NotificationQueue WITH pending <- store

Notification == [job : Job, at : 1 .. MaxNotifications]

Op == {"enqueue", "drainForJob", "drainAll", "load", "getStats"}

(* The steps of an operation that has the lock.                            *)
Inside == {"reading", "writing", "appending", "releasing", "unlinking"}

Step == {"idle", "locking", "inspecting", "removing"} \cup Inside

TypeOK ==
    /\ store \subseteq Notification
    /\ lockFile \in Process \cup {NoLock, Orphan}
    /\ lockStale \in BOOLEAN
    /\ step \in [Process -> Step]
    /\ op \in [Process -> Op]
    /\ subject \in [Process -> Notification \cup Job \cup {None}]
    /\ \A p \in Process :
        /\ op[p] = "enqueue" => subject[p] \in Notification
        /\ op[p] = "drainForJob" => subject[p] \in Job
    /\ snapshot \in [Process -> SUBSET Notification]
    /\ received \in 0 .. MaxNotifications
    /\ crashes \in 0 .. MaxCrashes
    /\ entered \subseteq Notification
    /\ taken \subseteq Notification
    /\ dropped \subseteq Notification
    /\ robbed \in BOOLEAN

Init ==
    /\ store = {}
    /\ lockFile = NoLock
    /\ lockStale = FALSE
    /\ step = [p \in Process |-> "idle"]
    /\ op = [p \in Process |-> "getStats"]
    /\ subject = [p \in Process |-> None]
    /\ snapshot = [p \in Process |-> {}]
    /\ received = 0
    /\ crashes = 0
    /\ entered = {}
    /\ taken = {}
    /\ dropped = {}
    /\ robbed = FALSE

Goes(p, to) == step' = [step EXCEPT ![p] = to]

-----------------------------------------------------------------------------
(* The operations that may begin.                                          *)

Begin(p, o, x) ==
    /\ step[p] = "idle"
    /\ Goes(p, "locking")
    /\ op' = [op EXCEPT ![p] = o]
    /\ subject' = [subject EXCEPT ![p] = x]
    /\ UNCHANGED <<store, lockFile, lockStale, snapshot, crashes, history,
                   robbed>>

(* The webhook stamps a notification before it waits for anything.         *)
Receive(p) ==
    /\ received < MaxNotifications
    /\ received' = received + 1
    /\ \E j \in Job : Begin(p, "enqueue", [job |-> j, at |-> received'])

Ask(p) ==
    /\ \/ \E j \in Job : Begin(p, "drainForJob", j)
       \/ \E o \in {"drainAll", "load", "getStats"} : Begin(p, o, None)
    /\ UNCHANGED received

-----------------------------------------------------------------------------
(* withFileLock, up to the operation.                                      *)

Lock(p) ==
    /\ step[p] = "locking"
    /\ \/ /\ lockFile = NoLock
          /\ lockFile' = p
          /\ lockStale' = FALSE
          /\ Goes(p, "reading")
       \/ /\ lockFile # NoLock
          /\ Goes(p, "inspecting")
          /\ UNCHANGED <<lockFile, lockStale>>
    /\ UNCHANGED <<store, local, received, crashes, history, robbed>>

(* A faulty variant, which never takes a lock over.                        *)
InspectOnly(p) ==
    /\ step[p] = "inspecting"
    /\ Goes(p, "locking")
    /\ UNCHANGED <<store, lockFile, lockStale, local, received, crashes,
                   history, robbed>>

(* A faulty variant, which takes over a lock of any age.                   *)
InspectAnyAge(p) ==
    /\ step[p] = "inspecting"
    /\ Goes(p, IF lockFile # NoLock THEN "removing" ELSE "locking")
    /\ UNCHANGED <<store, lockFile, lockStale, local, received, crashes,
                   history, robbed>>

Inspect(p) ==
    /\ step[p] = "inspecting"
    /\ Goes(p, IF lockFile # NoLock /\ lockStale THEN "removing" ELSE "locking")
    /\ UNCHANGED <<store, lockFile, lockStale, local, received, crashes,
                   history, robbed>>

(* After lockTimeoutMs a lock that is not old ends the operation.          *)
TimeOut(p) ==
    /\ step[p] = "inspecting"
    /\ lockFile = NoLock \/ ~lockStale
    /\ Goes(p, "idle")
    /\ snapshot' = [snapshot EXCEPT ![p] = {}]
    /\ UNCHANGED <<store, lockFile, lockStale, op, subject, received, crashes,
                   history, robbed>>

(* A file is removed by its path, whosever it is by now.                   *)
RemoveLock(p) ==
    /\ lockFile' = NoLock
    /\ lockStale' = FALSE
    /\ robbed' = (robbed \/ lockFile \in Process \ {p})

RemoveStale(p) ==
    /\ step[p] = "removing"
    /\ RemoveLock(p)
    /\ Goes(p, "locking")
    /\ UNCHANGED <<store, local, received, crashes, history>>

(* Time passes: mtimeMs is more than lockStaleMs ago.                      *)
Age ==
    /\ lockFile = Orphan \/ (OwnersStall /\ lockFile \in Process)
    /\ ~lockStale
    /\ lockStale' = TRUE
    /\ UNCHANGED <<store, lockFile, step, local, received, crashes, history,
                   robbed>>

-----------------------------------------------------------------------------
(* The operations, under the lock.                                         *)

Fails(f) == f \in Faults

ReadsTarget(p) ==
    op[p] = "drainForJob" => \E n \in store : n.job = subject[p]

(* load rewrites the file only when that changes something.                *)
ReadsSurplus(p) ==
    op[p] = "load" => Q!Retained(Q!Latest(store)) # store

(* readUnsafe, and the returns that follow it.                             *)
Read(p) ==
    /\ step[p] = "reading"
    /\ \/ /\ snapshot' = [snapshot EXCEPT ![p] = store]
          /\ Goes(p, IF op[p] # "getStats" /\ ReadsTarget(p) /\ ReadsSurplus(p)
                     THEN "writing" ELSE "releasing")
       \/ /\ Fails("read")
          /\ Goes(p, IF op[p] = "enqueue" THEN "appending" ELSE "releasing")
          /\ UNCHANGED snapshot
    /\ UNCHANGED <<store, lockFile, lockStale, op, subject, received, crashes,
                   history, robbed>>

WritesDone(p) ==
    /\ Goes(p, "releasing")
    /\ UNCHANGED <<lockFile, lockStale, local, received, crashes, robbed>>

(* The notifications a drain returns; the others stay.                     *)
Drained(p) ==
    IF op[p] = "drainAll" THEN Q!Latest(snapshot[p])
    ELSE {n \in Q!Latest(snapshot[p]) : n.job = subject[p]}

Enqueue(p) ==
    LET merged == Q!Latest(snapshot[p] \cup {subject[p]})
    IN  /\ op[p] = "enqueue"
        /\ store' = Q!Retained(merged)
        /\ entered' = entered \cup {subject[p]}
        /\ dropped' = dropped \cup (merged \ Q!Retained(merged))
        /\ WritesDone(p)
        /\ UNCHANGED taken

Compact(p) ==
    LET merged == Q!Latest(snapshot[p])
    IN  /\ op[p] = "load"
        /\ store' = Q!Retained(merged)
        /\ dropped' = dropped \cup (merged \ Q!Retained(merged))
        /\ WritesDone(p)
        /\ UNCHANGED <<entered, taken>>

Drain(p) ==
    /\ op[p] \in {"drainForJob", "drainAll"}
    /\ store' = Q!Latest(snapshot[p]) \ Drained(p)
    /\ taken' = taken \cup Drained(p)
    /\ WritesDone(p)
    /\ UNCHANGED <<entered, dropped>>

(* drainAll returns what it could not clear, which the next one returns    *)
(* again.                                                                  *)
ReturnUncleared(p) ==
    /\ Fails("clear")
    /\ op[p] = "drainAll"
    /\ WritesDone(p)
    /\ UNCHANGED <<store, history>>

(* A failed rewrite ends the operation; enqueue appends instead.           *)
RewriteFails(p) ==
    /\ Fails("rewrite")
    /\ \/ /\ op[p] \in {"drainForJob", "load"}
          /\ WritesDone(p)
          /\ UNCHANGED <<store, history>>
       \/ /\ op[p] = "enqueue"
          /\ Goes(p, "appending")
          /\ UNCHANGED <<store, lockFile, lockStale, local, received, crashes,
                         history, robbed>>

Write(p) ==
    /\ step[p] = "writing"
    /\ \/ Enqueue(p)
       \/ Compact(p)
       \/ Drain(p)
       \/ ReturnUncleared(p)
       \/ RewriteFails(p)

(* A faulty variant, which writes the file instead of appending to it.     *)
AppendOverwrites(p) ==
    /\ step[p] = "appending"
    /\ store' = {subject[p]}
    /\ entered' = entered \cup {subject[p]}
    /\ WritesDone(p)
    /\ UNCHANGED <<taken, dropped>>

(* appendUnsafe. Its failure is swallowed, and the webhook answers 200.    *)
Append(p) ==
    /\ step[p] = "appending"
    /\ \/ /\ store' = store \cup {subject[p]}
          /\ entered' = entered \cup {subject[p]}
       \/ /\ Fails("append")
          /\ UNCHANGED <<store, entered>>
    /\ WritesDone(p)
    /\ UNCHANGED <<taken, dropped>>

-----------------------------------------------------------------------------
(* The finally block of withFileLock, and the end of a process.            *)

Returns(p) ==
    /\ Goes(p, "idle")
    /\ snapshot' = [snapshot EXCEPT ![p] = {}]

ReadToken(p) ==
    /\ step[p] = "releasing"
    /\ \/ lockFile = p /\ Goes(p, "unlinking") /\ UNCHANGED snapshot
       \/ lockFile # p /\ Returns(p)
    /\ UNCHANGED <<store, lockFile, lockStale, op, subject, received, crashes,
                   history, robbed>>

Unlock(p) ==
    /\ step[p] = "unlinking"
    /\ RemoveLock(p)
    /\ Returns(p)
    /\ UNCHANGED <<store, op, subject, received, crashes, history>>

Crash(p) ==
    /\ step[p] # "idle"
    /\ crashes < MaxCrashes
    /\ crashes' = crashes + 1
    /\ Returns(p)
    /\ lockFile' = IF lockFile = p THEN Orphan ELSE lockFile
    /\ UNCHANGED <<store, lockStale, op, subject, received, history, robbed>>

Proceed(p) ==
    \/ Lock(p)
    \/ Inspect(p)
    \/ RemoveStale(p)
    \/ Read(p)
    \/ Write(p)
    \/ Append(p)
    \/ ReadToken(p)
    \/ Unlock(p)

Next ==
    \/ \E p \in Process :
        \/ Receive(p)
        \/ Ask(p)
        \/ Proceed(p)
        \/ TimeOut(p)
        \/ Crash(p)
    \/ Age

Spec == Init /\ [][Next]_vars

(* Every await returns, and the lock of a dead owner grows old. Nobody has *)
(* to call, to give up waiting or to die.                                  *)
LiveSpec ==
    /\ Spec
    /\ \A p \in Process : WF_vars(Proceed(p))
    /\ WF_vars(lockFile = Orphan /\ Age)

-----------------------------------------------------------------------------
(* Only one process works on the file: while no living owner has had its   *)
(* lock removed. A lock left by a dead process changes nothing about it.   *)
LockExcludes ==
    \A p, q \in Process :
        ~robbed /\ step[p] \in Inside /\ step[q] \in Inside => p = q

(* ... and a living owner loses its lock file only to a takeover, which    *)
(* takes a death or an operation slower than lockStaleMs: however many     *)
(* processes wait, none removes the lock of another that is at work.       *)
OnlyDeathOrDelayRobs == robbed => crashes > 0 \/ OwnersStall

(* Under the lock, reading the file and writing it are one step: the store *)
(* behaves as NotificationQueue does, also when processes die anywhere and *)
(* files cannot be read, rewritten or appended to.                         *)
ImplementsQueue ==
    Q!Init /\ [][robbed' \/ Q!Next]_<<store, history>>

(* While no living owner has lost its lock, a notification that an enqueue *)
(* has put in the file is there, or has been handed out, displaced by the  *)
(* limit, or superseded by a newer one of its job.                         *)
NothingIsLost == ~robbed => Q!NothingLost

(* ... and a notification handed out, or displaced, does not come back: no *)
(* merge of an enqueue or of a startup brings it into the file again.      *)
NothingComesBack == ~robbed => Q!GoneForGood

(* A process that dies does not shut the others out: unless the operations *)
(* stop, or give up waiting, one gets to the file again.                   *)
LockIsFreed ==
    lockFile = Orphan ~>
        \/ lockFile # Orphan
        \/ \A p \in Process : step[p] = "idle"
=============================================================================
