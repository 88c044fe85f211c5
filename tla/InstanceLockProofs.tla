------------------------- MODULE InstanceLockProofs -------------------------
(***************************************************************************)
(* What the instance lock guarantees for any number of processes.          *)
(***************************************************************************)
EXTENDS InstanceLock, TLAPS

(* The path names a live process only while that process has the file.     *)
FileNamesItsOwner ==
    file \in Process => step[file] \in {"writing", "held", "unlinking"}

(* A pid that has been read and not tested is that of a process that is    *)
(* there and has written its file, or of a dead one.                       *)
PidIsOfALifetime ==
    \A p \in Process :
        /\ step[p] = "testing" => pid[p] # NoFile
        /\ pid[p] \in Process =>
               step[pid[p]] \in {"held", "unlinking", "released"}

LockInv == TypeOK /\ FileNamesItsOwner /\ PidIsOfALifetime

(* However processes race, the path names a live process only while that   *)
(* process is writing its file, holds it, or is unlinking it; and a pid    *)
(* that was read is tested as that of the process that wrote it.           *)
THEOREM LockInvariance == Spec => []LockInv
<1> USE LockFileAssumption DEF LockInv, TypeOK, FileNamesItsOwner,
           PidIsOfALifetime, Step, Ended, Goes
<1>1. Init => LockInv
  BY DEF Init
<1>2. ASSUME LockInv, [Next]_vars
      PROVE  LockInv'
  <2>1. ASSUME NEW p \in Process, Start(p) \/ Acquire(p)
        PROVE  LockInv'
    <3>1. CASE Start(p) \/ OpenFresh(p) \/ Tighten(p)
      BY <1>2, <3>1 DEF Start, OpenFresh, Tighten
    <3>2. CASE ReadExisting(p)
      BY <1>2, <3>2 DEF ReadExisting, NamesAPid
    <3>3. CASE MisreadExisting(p) \/ TestPid(p)
      BY <1>2, <3>3 DEF MisreadExisting, TestPid
    <3>4. CASE RemoveStale(p) \/ Reopen(p) \/ Write(p)
      BY <1>2, <3>4 DEF RemoveStale, Reopen, Write
    <3> QED
      BY <2>1, <3>1, <3>2, <3>3, <3>4 DEF Acquire
  <2>2. ASSUME NEW p \in Process, ReleaseRead(p) \/ UnlinkOwnLock(p)
        PROVE  LockInv'
    BY <1>2, <2>2 DEF ReleaseRead, UnlinkOwnLock
  <2>3. ASSUME NEW p \in Process, Exit(p) \/ Crash(p)
        PROVE  LockInv'
    <3>1. Ends(p) /\ step[p] \notin Ended
      BY <2>3 DEF Exit, Crash
    <3>2. /\ step' \in [Process -> Step]
          /\ pid' \in [Process -> Process \cup {NoFile, DeadPid}]
      BY <1>2, <3>1 DEF Ends
    <3>3. PidIsOfALifetime'
      BY <1>2, <3>1 DEF Ends
    <3>4. CASE Exit(p)
      BY <1>2, <3>2, <3>3, <3>4 DEF Exit, Ends
    <3>5. CASE Crash(p)
      BY <1>2, <3>2, <3>3, <3>5 DEF Crash, Ends
    <3> QED
      BY <2>3, <3>4, <3>5
  <2>4. CASE UNCHANGED vars
    BY <1>2, <2>4 DEF vars
  <2> QED
    BY <1>2, <2>1, <2>2, <2>3, <2>4 DEF Next
<1> QED
  BY <1>1, <1>2, PTL DEF Spec

(* While p is settled, another process that can read the file gets no      *)
(* further than testing p's own pid, and can neither remove the file nor   *)
(* replace it.                                                             *)
LEMMA SettledStep ==
    ASSUME LockInv, [Next]_vars, NEW p \in Process, Settled(p),
           step'[p] = "held", \A q \in Process : ~MisreadExisting(q)
    PROVE  Settled(p)'
<1> USE LockFileAssumption DEF LockInv, TypeOK, Settled, Ended, Goes
<1>1. ASSUME NEW q \in Process, Start(q)
      PROVE  Settled(p)'
  BY <1>1 DEF Start
<1>2. ASSUME NEW q \in Process, Acquire(q)
      PROVE  Settled(p)'
  <2>1. /\ q # p
        /\ \/ step[q] \in {"opening", "tightening", "reading"}
           \/ step[q] = "testing" /\ pid[q] = p
    BY <1>2 DEF Acquire, OpenFresh, Tighten, ReadExisting, MisreadExisting,
       TestPid, RemoveStale, Reopen, Write
  <2>2. OpenFresh(q) \/ Tighten(q) \/ ReadExisting(q) \/ TestPid(q)
    BY <1>2, <2>1 DEF Acquire, RemoveStale, Reopen, Write
  <2>3. file = p /\ p # NoFile /\ p # DeadPid /\ NamesAPid
    BY DEF NamesAPid
  <2>4. CASE OpenFresh(q) \/ Tighten(q)
    BY <2>1, <2>3, <2>4 DEF OpenFresh, Tighten
  <2>5. CASE ReadExisting(q)
    BY <2>1, <2>3, <2>5 DEF ReadExisting
  <2>6. CASE TestPid(q)
    BY <2>1, <2>3, <2>6 DEF TestPid
  <2> QED
    BY <2>2, <2>4, <2>5, <2>6
<1>3. ASSUME NEW q \in Process, ReleaseRead(q) \/ UnlinkOwnLock(q)
      PROVE  Settled(p)'
  BY <1>3 DEF ReleaseRead, UnlinkOwnLock
<1>4. ASSUME NEW q \in Process, Exit(q) \/ Crash(q)
      PROVE  Settled(p)'
  <2>1. q # p /\ Ends(q) /\ file' = file
    BY <1>4 DEF Exit, Crash, Ends
  <2> QED
    BY <2>1 DEF Ends
<1>5. CASE UNCHANGED vars
  BY <1>5 DEF vars
<1> QED
  BY <1>1, <1>2, <1>3, <1>4, <1>5 DEF Next

(* A lock taken without contention excludes every other process until its  *)
(* holder releases it or dies, or somebody cannot read it.                 *)
THEOREM SettledLockExcludes == Spec => SettledStaysAlone
<1>1. LockInv /\ [Next]_vars =>
          [\A p \in Process :
              Settled(p) /\ step'[p] = "held" =>
                  \/ Settled(p)'
                  \/ \E q \in Process : MisreadExisting(q)]_vars
  <2>1. ASSUME LockInv, UNCHANGED vars, NEW p \in Process, Settled(p)
        PROVE  Settled(p)'
    BY <2>1 DEF vars, Settled
  <2> QED
    BY <2>1, SettledStep
<1> QED
  BY <1>1, LockInvariance, PTL DEF Spec, SettledStaysAlone

-----------------------------------------------------------------------------
(* When the lock excludes.                                                 *)

(* A robbery: a process that took the lock for stale, because it read an   *)
(* empty file, no file or the pid of a process that has ended, removes by  *)
(* path the file of a process that is there.                               *)
Robs(p) == RemoveStale(p) /\ file \in Process

(* Who has got a file still has it, so there is one such process at most.  *)
OwnersHaveTheFile ==
    \A p \in Process :
        step[p] \in {"writing", "held", "unlinking"} => file = p

(* Without a robbery nobody loses the file but by its own unlink or death: *)
(* an open with wx gives it to one process, and a late unlink or a death   *)
(* takes away nothing but one's own.                                       *)
LEMMA OwnersStep ==
    ASSUME TypeOK, OwnersHaveTheFile, [Next]_vars,
           \A p \in Process : ~Robs(p)
    PROVE  OwnersHaveTheFile'
<1> USE LockFileAssumption DEF TypeOK, OwnersHaveTheFile, Goes
<1>1. ASSUME NEW p \in Process, Start(p)
      PROVE  OwnersHaveTheFile'
  BY <1>1 DEF Start
<1>2. ASSUME NEW p \in Process, Acquire(p)
      PROVE  OwnersHaveTheFile'
  <2>1. CASE RemoveStale(p)
    <3>1. file \notin Process
      BY <2>1 DEF Robs
    <3> QED
      BY <2>1, <3>1 DEF RemoveStale
  <2>2. CASE OpenFresh(p) \/ Reopen(p)
    BY <2>2 DEF OpenFresh, Reopen
  <2>3. CASE Tighten(p) \/ ReadExisting(p) \/ MisreadExisting(p)
    BY <2>3 DEF Tighten, ReadExisting, MisreadExisting
  <2>4. CASE TestPid(p) \/ Write(p)
    BY <2>4 DEF TestPid, Write
  <2> QED
    BY <1>2, <2>1, <2>2, <2>3, <2>4 DEF Acquire
<1>3. ASSUME NEW p \in Process, ReleaseRead(p) \/ UnlinkOwnLock(p)
      PROVE  OwnersHaveTheFile'
  BY <1>3 DEF ReleaseRead, UnlinkOwnLock
<1>4. ASSUME NEW p \in Process, Exit(p) \/ Crash(p)
      PROVE  OwnersHaveTheFile'
  BY <1>4 DEF Exit, Crash, Ends, Ended
<1>5. CASE UNCHANGED vars
  BY <1>5 DEF vars
<1> QED
  BY <1>1, <1>2, <1>3, <1>4, <1>5 DEF Next

(* Two instances hold the lock at the same time only after a robbery: the  *)
(* gap between readExistingLock and the unlink of acquireFreshLock, which  *)
(* the run lock_race falls into, is the only one. However processes start, *)
(* are refused, release or die, everything else keeps to one instance.     *)
THEOREM OnlyARobberyMakesTwo ==
    Spec /\ [][\A p \in Process : ~Robs(p)]_vars => []AtMostOneInstance
<1>1. Init => OwnersHaveTheFile
  BY DEF Init, OwnersHaveTheFile
<1>2. /\ LockInv /\ OwnersHaveTheFile
      /\ [Next]_vars /\ [\A p \in Process : ~Robs(p)]_vars
      => OwnersHaveTheFile'
  <2>1. ASSUME LockInv, OwnersHaveTheFile, UNCHANGED vars
        PROVE  OwnersHaveTheFile'
    BY <2>1 DEF vars, OwnersHaveTheFile
  <2> QED
    BY <2>1, OwnersStep DEF LockInv
<1>3. OwnersHaveTheFile => AtMostOneInstance
  BY DEF OwnersHaveTheFile, AtMostOneInstance
<1> QED
  BY <1>1, <1>2, <1>3, LockInvariance, PTL DEF Spec
=============================================================================
