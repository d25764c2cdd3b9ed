------------------------- MODULE ChangePinController ------------------------
(***************************************************************************)
(* The PIN change workflow: CompositeStatePace followed by the states that *)
(* set the new PIN and clean up (ChangePinController and its states).      *)
(***************************************************************************)
EXTENDS CardWorkflow

Pace == INSTANCE CompositeStatePace
          WITH OnEstablished <- "PrepareChangePin",
               OnAbort <- "ClearPacePasswords",
               AsksByName <- FALSE,
               canAllowedMode <- FALSE

OuterStates ==
  {"PrepareChangePin", "EnterNewPacePin", "ChangePin", "DestroyPaceFinal",
   "ClearPacePasswords", "UpdateRetryCounterFinal", "CleanUpReaderManager",
   "FinalState"}

States == Pace!PaceStates \cup OuterStates
            \cup {"Initial", "Done", "Unreachable"}

(* fireAbort of each state; FinalState has no transition yet.              *)
AbortTarget_FinalRestarts ==
  [s \in States |->
     IF s \in Pace!PaceStates THEN Pace!PaceAbortTarget[s]
     ELSE IF s \in {"ClearPacePasswords", "DestroyPaceFinal"}
       THEN "UpdateRetryCounterFinal"
     ELSE "MaintainCardConnection"]

AbortTarget ==
  [s \in States |->
     IF s \in Pace!PaceStates THEN Pace!PaceAbortTarget[s]
     ELSE IF s \in {"PrepareChangePin", "EnterNewPacePin", "ChangePin"}
       THEN "MaintainCardConnection"
     ELSE IF s = "DestroyPaceFinal" THEN "ClearPacePasswords"
     ELSE IF s = "ClearPacePasswords" THEN "UpdateRetryCounterFinal"
     ELSE IF s = "UpdateRetryCounterFinal" THEN "CleanUpReaderManager"
     ELSE IF s = "CleanUpReaderManager" THEN "FinalState"
     ELSE s]

Init ==
  /\ state = "Initial" /\ phase = "entered"
  /\ cancelDue = FALSE
  /\ ctx = InitialContext
  /\ jobs = <<>>
  /\ reader = [r \in Readers |-> [card |-> NoCard, counter |-> -1,
                                  session |-> "closed"]]
  /\ card \in [Cards -> [counter : 0 .. 3, puk : {PukUses}, changed : {FALSE}]]
  /\ spent = {}

StatePrepareChangePin ==
  /\ Run("PrepareChangePin")
  /\ Go(IF ctx.pw["newPin"] = NoPassword THEN "EnterNewPacePin" ELSE "ChangePin",
        ctx)

(* StateEnterNewPacePin: like StateEnterPacePassword, but it never looks   *)
(* at the status.                                                          *)
StateEnterNewPacePin ==
  /\ Run("EnterNewPacePin")
  /\ \E p \in IF ctx.killed \/ ~Pace!TypesAtScreen
                THEN {ctx.pw["newPin"]} ELSE {WrongPassword} :
       Go("ChangePin", [ctx EXCEPT !.pw["newPin"] = p])

StateChangePin ==
  /\ Run("ChangePin") /\ HasConnection(ctx)
  /\ Call("SetEidPin", ctx.conn.reader, "UNKNOWN", ctx.pw["newPin"])

(* StateChangePin::onSetEidPinDone.                                        *)
ChangePinDone_MismatchUnreported ==
  /\ Heard("ChangePin")
  /\ Return(CASE Result = "OK" -> "DestroyPaceFinal"
              [] Result = "NEW_PIN_MISMATCH" -> "ClearPacePasswords"
              [] OTHER -> "MaintainCardConnection",
            [ctx EXCEPT !.last = Result])

ChangePinDone ==
  /\ Heard("ChangePin")
  /\ LET c == [ctx EXCEPT !.last = Result]
         failed == updateStatus(c, toGlobalStatus[Result])
     IN \/ Result = "OK" /\ Return("DestroyPaceFinal", c)
        \/ Result = "CANCELLATION_BY_USER" /\ Return("MaintainCardConnection", failed)
        \/ Result = "NEW_PIN_MISMATCH" /\ Return("ClearPacePasswords", failed)
        \/ /\ Result \notin {"OK", "CANCELLATION_BY_USER", "NEW_PIN_MISMATCH"}
           /\ Return("MaintainCardConnection", c)

(* FinalState::run lets the machine reach its QFinalState.                 *)
StateFinal == Run("FinalState") /\ Go("Done", ctx)

Step ==
  \/ StartMachine("MaintainCardConnection")
  \/ Pace!PaceStep
  \/ StatePrepareChangePin \/ StateEnterNewPacePin
  \/ StateChangePin \/ ChangePinDone
  \/ Pace!StateDestroyPace("DestroyPaceFinal")
  \/ Pace!DestroyPaceDone("DestroyPaceFinal", "ClearPacePasswords")
  \/ Pace!StateClearPacePasswords("ClearPacePasswords", "UpdateRetryCounterFinal")
  \/ Pace!StateUpdateRetryCounter("UpdateRetryCounterFinal", "CleanUpReaderManager")
  \/ Pace!UpdateRetryCounterDone("UpdateRetryCounterFinal", "CleanUpReaderManager",
                                 "CleanUpReaderManager")
  \/ Pace!StateCleanUpReaderManager("FinalState") \/ StateFinal
  \/ DropResult
  \/ CancelKilled(AbortTarget[state])

Terminated == state \in {"Done", "Unreachable"} /\ ~cancelDue /\ UNCHANGED vars

Next ==
  \/ Step
  \/ Pace!ExecuteCommand
  \/ Pace!Environment
  \/ fireCancelWorkflow(AbortTarget[state])
  \/ killWorkflow
  \/ Terminated

Spec == Init /\ [][Next]_vars

(***************************************************************************)
(* Fairness.  The ReaderManager thread executes its commands; the main     *)
(* loop delivers results; UIs approve every state that asks the user       *)
(* nothing.  Whether the user types, inserts a card or dismisses the       *)
(* result is up to the user.                                               *)
(***************************************************************************)
AsksUser == {"EnterPacePassword", "EnterNewPacePin", "UnfortunateCardPosition",
             "FinalState"}

FairSpec ==
  /\ Spec
  /\ WF_vars(Pace!ExecuteCommand)
  /\ WF_vars((state \in AsksUser => ctx.killed) /\ Step)

(***************************************************************************)
(* Types; the repositioning count starts again before it passes its limit  *)
(* (WorkflowContext::isNpaRepositioningRequired).                          *)
(***************************************************************************)
TypeOK ==
  /\ state \in States /\ phase \in {"entered", "waiting"} /\ cancelDue \in BOOLEAN
  /\ ctx \in Contexts
  /\ jobs \in Seq(Jobs)
  /\ reader \in [Readers -> [card : Cards \cup {NoCard}, counter : Counters,
                             session : Sessions]]
  /\ card \in [Cards -> [counter : 0 .. 3, puk : 0 .. PukUses, changed : BOOLEAN]]
  /\ spent \subseteq Cards

(***************************************************************************)
(* Between two resets of its counter a PIN typed once costs a card at most *)
(* one try, however often connections break and answers are lost:          *)
(* StateVerifyRetryCounter and StateMaintainCardConnection drop the stored *)
(* PIN before it is sent again.  Left out are the tries of a connection in *)
(* doubt: a counter that could not be read before and after the try is -1  *)
(* both times, so StateVerifyRetryCounter notices nothing, and a build     *)
(* without assertions sends the PIN once more.                             *)
(***************************************************************************)
OneTryPerTypedPin ==
  [][\A c \in Cards :
       (/\ card'[c].counter < card[c].counter
        /\ \E r \in Readers : Pace!CardIn(r) = c /\ IsBasic(r))
         => c \notin spent \/ ctx.doubted]_vars

(***************************************************************************)
(* The password StatePreparePace chose fits the card when the command      *)
(* reaches it: the PUK for a blocked PIN, the PIN after the CAN on a       *)
(* suspended card.  Left out is a connection in doubt: StatePreparePace    *)
(* takes an unread counter of -1 for one that allows the PIN.              *)
(***************************************************************************)
PasswordFitsCounter ==
  ~ctx.doubted =>
    /\ (/\ Pace!Pending("EstablishPaceChannel") /\ Head(jobs).type = "PACE_PIN"
        /\ Pace!Alive(Pace!R))
         => LET n == card[Pace!CardIn(Pace!R)].counter
            IN n > 0 /\ (n = 1 => reader[Pace!R].session = "can")
    /\ (Pace!Pending("UnblockPin") /\ Pace!Alive(Pace!R))
         => card[Pace!CardIn(Pace!R)].counter = 0

(***************************************************************************)
(* What the user typed at the screen goes to a basic reader only, and a    *)
(* basic reader gets a password for every PACE, also when the card moved   *)
(* to another reader meanwhile (the assertions of                          *)
(* CardConnectionWorker::establishPaceChannel and setEidPin).              *)
(***************************************************************************)
PasswordGoesToItsReader ==
  (jobs # <<>> /\ Result = "PENDING" /\ Pace!CardIn(Pace!R) # NoCard) =>
    /\ Head(jobs).op \in {"EstablishPaceChannel", "UnblockPin"}
         => (IsBasic(Pace!R) <=> Head(jobs).pw # NoPassword)
    /\ Head(jobs).op = "SetEidPin"
         => (IsBasic(Pace!R) \/ Head(jobs).pw = NoPassword)

(***************************************************************************)
(* No password outlives the clean-up, on no path through errors, cancels   *)
(* and kills (the assertions of ~WorkflowContext and ~ChangePinContext).   *)
(***************************************************************************)
PasswordsClearedAtEnd ==
  state \in {"UpdateRetryCounterFinal", "CleanUpReaderManager", "FinalState", "Done"}
    => \A k \in PasswordKinds : ctx.pw[k] = NoPassword

(***************************************************************************)
(* StateDestroyPace and StateChangePin find the connection they assert,    *)
(* although it is dropped whenever a card vanishes.                        *)
(***************************************************************************)
ConnectionWhereAsserted ==
  state \in {"DestroyPace", "DestroyPaceFinal", "ChangePin"} => HasConnection(ctx)

(***************************************************************************)
(* A workflow that ends without an error has changed the PIN of a card.    *)
(***************************************************************************)
SuccessMeansChanged ==
  (state \in {"FinalState", "Done"} /\ ~HasError(ctx))
    => \E c \in Cards : card[c].changed

(***************************************************************************)
(* StateVerifyRetryCounter and StatePreparePace know the counter they      *)
(* assert (currentRetryCounter != -1), through swaps, removals and lost    *)
(* answers.  The assertion breaks where a reading has failed or the card's *)
(* eID function is switched off since the connection was made (doubted):   *)
(* CardInfoFactory::create ignores it, Reader::updateRetryCounter          *)
(* does not signal a later success, and StateConnectCard keeps the         *)
(* connection to a deactivated card.                                       *)
(***************************************************************************)
CounterKnown ==
  (/\ state \in {"VerifyRetryCounter", "PreparePace"}
   /\ HasConnection(ctx) /\ ~ctx.doubted) => ctx.conn.counter # -1

(***************************************************************************)
(* A workflow that has failed or was cancelled reaches its final state,    *)
(* and a killed one ends without the user.                                 *)
(***************************************************************************)
FailedEnds == HasError(ctx) ~> state \in {"FinalState", "Done"}
KilledEnds == ctx.killed ~> state = "Done"

(***************************************************************************)
(* The controller implements the life of a workflow that the AppController *)
(* is built on: it starts once, shows its result once, is done only after  *)
(* that, and a kill never moves it backwards.                              *)
(***************************************************************************)
LifecycleStage ==
  CASE state = "Initial" -> "initial"
    [] state = "FinalState" /\ ~ctx.killed -> "final"
    [] state = "Done" \/ (state = "FinalState" /\ ctx.killed) -> "done"
    [] state = "MaintainCardConnection" /\ phase = "waiting" -> "deaf"
    [] OTHER -> "running"

Lifecycle == INSTANCE Workflow WITH stage <- LifecycleStage, killed <- ctx.killed

ImplementsWorkflow == Lifecycle!Spec
=============================================================================
