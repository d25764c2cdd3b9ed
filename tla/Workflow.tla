------------------------------ MODULE Workflow -------------------------------
(***************************************************************************)
(* What the AppController may expect of any workflow it starts: the life   *)
(* of a WorkflowController's state machine.  ChangePinController is shown  *)
(* to implement it, AppController is built on it.                          *)
(*                                                                         *)
(*   initial   the machine is created, its start is queued in the main loop*)
(*   running   it is between its first state and FinalState                *)
(*   final     FinalState is entered: the result is shown to the user      *)
(*   done      FinalState was approved, the machine has finished           *)
(*   deaf      it was killed while "initial": its first state is approved  *)
(*             before it listens, so nothing runs it                       *)
(***************************************************************************)
CONSTANT EarlyKill   \* killWorkflow() may come before the queued start

VARIABLES stage, killed

Stages == {"initial", "running", "final", "done", "deaf"}

Init == stage = "initial" /\ killed = FALSE

(* QStateMachine::start is queued by WorkflowController::run.              *)
Start == /\ stage = "initial"
         /\ stage' = IF killed THEN "deaf" ELSE "running"
         /\ UNCHANGED killed

(* FinalState is entered; a killed workflow approves it at once.           *)
Finish == /\ stage = "running"
          /\ stage' = IF killed THEN "done" ELSE "final"
          /\ UNCHANGED killed

Leave == stage = "final" /\ stage' = "done" /\ UNCHANGED killed

(* WorkflowContext::killWorkflow approves the current state and cancels,   *)
(* which frees a deaf machine; so does a later cancel.                     *)
AfterKill == CASE stage = "deaf" -> "running"
               [] stage = "final" -> "done"
               [] OTHER -> stage

Kill == /\ stage = "initial" => EarlyKill
        /\ killed' = TRUE
        /\ stage' = AfterKill

Cancel == stage = "deaf" /\ stage' = "running" /\ UNCHANGED killed

Next == Start \/ Finish \/ Leave \/ Kill \/ Cancel

Spec == Init /\ [][Next]_<<stage, killed>>
=============================================================================
