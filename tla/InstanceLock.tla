---------------------------- MODULE InstanceLock ----------------------------
(***************************************************************************)
(* BridgeInstanceLockService: bridge processes on one jobs directory, and  *)
(* the lock file .omx-bridge-instance.lock that lets one of them work.     *)
(*                                                                         *)
(* Opening the file (flag wx) and writing the payload into it are two      *)
(* steps; reading a file, testing the pid it names, and removing it by     *)
(* path are three. The payload goes to the file that was opened, also when *)
(* the path has been unlinked or recreated since; so the path is all that  *)
(* is shared, and what the file behind it says follows from how far its    *)
(* creator has come. A process that starts again has another pid, and no   *)
(* pid is used twice.                                                      *)
(***************************************************************************)
EXTENDS Naturals

CONSTANTS
    Process,      \* bridge processes; a process that ends may start again
    NoFile,       \* nothing at the path
    DeadPid,      \* the file of a process that died after writing it
    DeadEmpty     \* the file of a process that died before writing it

ASSUME LockFileAssumption ==
    /\ NoFile # DeadPid
    /\ NoFile # DeadEmpty
    /\ DeadPid # DeadEmpty
    /\ {NoFile, DeadPid, DeadEmpty} \cap Process = {}

VARIABLES
    file,         \* the lock file, named by the live process that created it
    step,         \* where each process is in acquire or release
    pid           \* whose pid each process has read and not tested yet

vars == <<file, step, pid>>

(* off: not running. refused: ended by an error of acquire. writing: its   *)
(* file exists and is empty. held: acquire has returned. unlinking:        *)
(* release has read its own token in the file. released: release is done,  *)
(* and the process is still there.                                         *)
Step == {"off", "refused", "opening", "tightening", "reading", "testing",
         "removing", "reopening", "writing", "held", "unlinking", "released"}

Ended == {"off", "refused"}

TypeOK ==
    /\ file \in Process \cup {NoFile, DeadPid, DeadEmpty}
    /\ step \in [Process -> Step]
    /\ pid \in [Process -> Process \cup {NoFile, DeadPid}]

Init ==
    /\ file \in {NoFile, DeadPid, DeadEmpty}
    /\ step = [p \in Process |-> "off"]
    /\ pid = [p \in Process |-> NoFile]

Goes(p, to) == step' = [step EXCEPT ![p] = to]

-----------------------------------------------------------------------------
(* acquireFreshLock. Every error ends the process: onModuleInit rejects,   *)
(* and nothing catches it.                                                 *)

Start(p) ==
    /\ step[p] \in Ended
    /\ Goes(p, "opening")
    /\ UNCHANGED <<file, pid>>

OpenFresh(p) ==
    /\ step[p] = "opening"
    /\ IF file = NoFile
       THEN file' = p /\ Goes(p, "writing")
       ELSE UNCHANGED file /\ Goes(p, "tightening")
    /\ UNCHANGED pid

(* tightenPrivateOwnedFile throws when the file has gone meanwhile.        *)
Tighten(p) ==
    /\ step[p] = "tightening"
    /\ Goes(p, IF file = NoFile THEN "refused" ELSE "reading")
    /\ UNCHANGED <<file, pid>>

(* The file has a pid in it. A creator that is still here has a live one.  *)
NamesAPid == file = DeadPid \/ (file \in Process /\ step[file] # "writing")

(* A faulty variant, which takes an empty file for the lock of another.    *)
ReadExistingTrustsEmpty(p) ==
    /\ step[p] = "reading"
    /\ IF NamesAPid
       THEN pid' = [pid EXCEPT ![p] = file] /\ Goes(p, "testing")
       ELSE /\ UNCHANGED pid
            /\ Goes(p, IF file = NoFile THEN "removing" ELSE "refused")
    /\ UNCHANGED file

(* readExistingLock. A missing or an empty file reads as null.             *)
ReadExisting(p) ==
    /\ step[p] = "reading"
    /\ IF NamesAPid
       THEN pid' = [pid EXCEPT ![p] = file] /\ Goes(p, "testing")
       ELSE UNCHANGED pid /\ Goes(p, "removing")
    /\ UNCHANGED file

(* Any error of reading the file reads as null, too.                       *)
MisreadExisting(p) ==
    /\ step[p] = "reading"
    /\ Goes(p, "removing")
    /\ UNCHANGED <<file, pid>>

(* A faulty variant, which replaces whatever lock it finds.                *)
TestPidIgnored(p) ==
    /\ step[p] = "testing"
    /\ Goes(p, "removing")
    /\ pid' = [pid EXCEPT ![p] = NoFile]
    /\ UNCHANGED file

(* isPidAlive, of the pid that was read: that process may be gone by now,  *)
(* and another one have the file.                                          *)
TestPid(p) ==
    /\ step[p] = "testing"
    /\ Goes(p, IF pid[p] = DeadPid THEN "removing" ELSE "refused")
    /\ pid' = [pid EXCEPT ![p] = NoFile]
    /\ UNCHANGED file

RemoveStale(p) ==
    /\ step[p] = "removing"
    /\ file' = NoFile
    /\ Goes(p, "reopening")
    /\ UNCHANGED pid

(* The second open fails with EEXIST when somebody else was faster.        *)
Reopen(p) ==
    /\ step[p] = "reopening"
    /\ IF file = NoFile
       THEN file' = p /\ Goes(p, "writing")
       ELSE UNCHANGED file /\ Goes(p, "refused")
    /\ UNCHANGED pid

Write(p) ==
    /\ step[p] = "writing"
    /\ Goes(p, "held")
    /\ UNCHANGED <<file, pid>>

Acquire(p) ==
    \/ OpenFresh(p)
    \/ Tighten(p)
    \/ ReadExisting(p)
    \/ MisreadExisting(p)
    \/ TestPid(p)
    \/ RemoveStale(p)
    \/ Reopen(p)
    \/ Write(p)

-----------------------------------------------------------------------------
(* release, and the end of the process. A failed read or unlink of release *)
(* is swallowed: the process then ends with its file in place, as in Crash.*)

ReleaseRead(p) ==
    /\ step[p] = "held"
    /\ Goes(p, IF file = p THEN "unlinking" ELSE "released")
    /\ UNCHANGED <<file, pid>>

UnlinkOwnLock(p) ==
    /\ step[p] = "unlinking"
    /\ file' = NoFile
    /\ Goes(p, "released")
    /\ UNCHANGED pid

(* From now on a test of p's pid fails.                                    *)
Ends(p) ==
    /\ Goes(p, "off")
    /\ pid' = [q \in Process |-> CASE q = p      -> NoFile
                                   [] pid[q] = p -> DeadPid
                                   [] OTHER      -> pid[q]]

Exit(p) ==
    /\ step[p] = "released"
    /\ Ends(p)
    /\ UNCHANGED file

Crash(p) ==
    /\ step[p] \notin Ended
    /\ Ends(p)
    /\ file' = IF file # p THEN file
               ELSE IF step[p] = "writing" THEN DeadEmpty ELSE DeadPid

Next ==
    \E p \in Process :
        \/ Start(p)
        \/ Acquire(p)
        \/ ReleaseRead(p)
        \/ UnlinkOwnLock(p)
        \/ Exit(p)
        \/ Crash(p)

Spec == Init /\ [][Next]_vars

(* systemd starts a process that ended again (Restart=always), and each    *)
(* await returns. Nothing makes a process release or die.                  *)
LiveSpec ==
    /\ Spec
    /\ \A p \in Process :
        /\ WF_vars(Start(p))
        /\ WF_vars(Acquire(p))
        /\ WF_vars(UnlinkOwnLock(p))
        /\ WF_vars(Exit(p))

-----------------------------------------------------------------------------
(* p holds the lock, and nobody is about to remove its file: all others    *)
(* have yet to read it, or have read p's own pid.                          *)
Settled(p) ==
    /\ step[p] = "held"
    /\ file = p
    /\ \A q \in Process \ {p} :
           \/ step[q] \in Ended \cup {"opening", "tightening", "reading", "released"}
           \/ step[q] = "testing" /\ pid[q] = p

(* A lock that was taken without contention stays exclusive, whoever       *)
(* starts, is refused or dies meanwhile, until its holder lets go or dies, *)
(* unless somebody fails to read it, which it takes for a stale one.       *)
SettledStaysAlone ==
    [][\A p \in Process :
          Settled(p) /\ step'[p] = "held" =>
              \/ Settled(p)'
              \/ \E q \in Process : MisreadExisting(q)]_vars

(* "refuses to run a second live instance against the same job directory"  *)
(* (README, Notes). Not so when two start at the same time: see the run    *)
(* lock_race.                                                              *)
AtMostOneInstance ==
    \A p, q \in Process : step[p] = "held" /\ step[q] = "held" => p = q

(* No lock file that a dead process left, written or empty, keeps the      *)
(* bridge down: unless processes die for ever, the lock is taken again and *)
(* again ("Stale lock files are recovered automatically", README).         *)
LockIsObtained ==
    \/ []<><<\E p \in Process : Crash(p)>>_vars
    \/ []<>(\E p \in Process : step[p] = "held")
=============================================================================
