---------------------------- MODULE ExecContract ----------------------------
(***************************************************************************)
(* What JobRunnerService.executeJob may take for granted of a call of      *)
(* OmxExecService.execute, and what execute owes it: whether a child was   *)
(* spawned, whether the AbortSignal has fired, and the status of the       *)
(* result. A promise that is rejected counts as failed, which is what      *)
(* executeJob makes of it.                                                 *)
(*                                                                         *)
(* OmxExec implements this module, and JobRunner plays it for each job.    *)
(***************************************************************************)
VARIABLES
    stage,           \* up to the spawn, up to the result, or over
    signalled,       \* the AbortSignal has fired
    outcome          \* the status of the result

contractVars == <<stage, signalled, outcome>>

Init ==
    /\ stage = "starting"
    /\ signalled = FALSE
    /\ outcome = "none"

Settle(s) ==
    /\ stage' = "settled"
    /\ outcome' = s

(* No child is spawned: the cwd is refused, or the signal has fired.       *)
Refuse ==
    /\ stage = "starting"
    /\ \E s \in IF signalled THEN {"failed", "cancelled"} ELSE {"failed"} :
          Settle(s)
    /\ UNCHANGED signalled

Spawn ==
    /\ stage = "starting"
    /\ ~signalled
    /\ stage' = "executing"
    /\ UNCHANGED <<signalled, outcome>>

(* A child that has been told to stop never counts as a success, whatever  *)
(* it has printed and returned by then; one that has not is not cancelled. *)
End ==
    /\ stage = "executing"
    /\ \E s \in IF signalled THEN {"cancelled", "failed"}
                             ELSE {"succeeded", "failed"} : Settle(s)
    /\ UNCHANGED signalled

(* The signal fires: the handler of a running child sends SIGTERM, and the *)
(* execution has failed at once when that cannot be sent.                  *)
Signal ==
    /\ ~signalled
    /\ signalled' = TRUE
    /\ \/ UNCHANGED <<stage, outcome>>
       \/ /\ stage = "executing"
          /\ Settle("failed")

Next == Refuse \/ Spawn \/ End \/ Signal

Spec == Init /\ [][Next]_contractVars
=============================================================================
