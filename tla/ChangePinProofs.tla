-------------------------- MODULE ChangePinProofs ---------------------------
(***************************************************************************)
(* Proofs about the PIN change workflow for any cards, readers and limits: *)
(* its safety invariants, and that it implements the life of a workflow.   *)
(*                                                                         *)
(* The composite's own invariant and what its steps do are proved in       *)
(* CompositeStatePaceProofs, of which P is the instance for this           *)
(* controller.  The first part says that the operators the controller uses *)
(* are those of the instance.                                              *)
(***************************************************************************)
EXTENDS ChangePinController, TLAPS

P == INSTANCE CompositeStatePaceProofs
       WITH OnEstablished <- "PrepareChangePin",
            OnAbort <- "ClearPacePasswords",
            AsksByName <- FALSE,
            canAllowedMode <- FALSE

-----------------------------------------------------------------------------
(* The AbstractState protocol.                                             *)
LEMMA SameProtocol ==
  /\ \A s : Run(s) <=> P!Run(s)
  /\ \A s : Heard(s) <=> P!Heard(s)
  /\ \A s, c : Go(s, c) <=> P!Go(s, c)
  /\ \A s, c : Return(s, c) <=> P!Return(s, c)
  /\ \A op, r, type, pw : Call(op, r, type, pw) <=> P!Call(op, r, type, pw)
  /\ \A t : onUserCancelled(t) <=> P!onUserCancelled(t)
  /\ \A s : StartMachine(s) <=> P!StartMachine(s)
  /\ DropResult <=> P!DropResult
  /\ killWorkflow <=> P!killWorkflow
  /\ Quiet <=> P!Quiet
<1>1. \A s : Run(s) <=> P!Run(s)
  BY DEF Run, P!Run
<1>2. \A s : Heard(s) <=> P!Heard(s)
  BY DEF Answered, P!Answered, Heard, P!Heard, Quiet, P!Quiet, Result, P!Result
<1>3. \A s, c : Go(s, c) <=> P!Go(s, c)
  BY DEF Enter, P!Enter, Go, P!Go, Holds, P!Holds, Main, P!Main, SessionsAfter,
         P!SessionsAfter, Unheard, P!Unheard
<1>4. \A s, c : Return(s, c) <=> P!Return(s, c)
  BY DEF Enter, P!Enter, Holds, P!Holds, Main, P!Main, Return, P!Return,
         SessionsAfter, P!SessionsAfter, Unheard, P!Unheard
<1>5. \A op, r, type, pw : Call(op, r, type, pw) <=> P!Call(op, r, type, pw)
  BY DEF Call, P!Call, Holds, P!Holds, Main, P!Main, SessionsAfter,
         P!SessionsAfter
<1>6. \A t : onUserCancelled(t) <=> P!onUserCancelled(t)
  BY DEF CancelledContext, P!CancelledContext, Enter, P!Enter, Holds, P!Holds,
         Main, P!Main, SessionsAfter, P!SessionsAfter, Unheard, P!Unheard,
         onUserCancelled, P!onUserCancelled, updateStatus, P!updateStatus
<1>7. \A s : StartMachine(s) <=> P!StartMachine(s)
  BY DEF StartMachine, P!StartMachine
<1>8. DropResult <=> P!DropResult
  BY DEF Answered, P!Answered, DropResult, P!DropResult, Holds, P!Holds, Main,
         P!Main, PaceFlags, P!PaceFlags, Quiet, P!Quiet, Result, P!Result,
         SessionsAfter, P!SessionsAfter
<1>9. killWorkflow <=> P!killWorkflow
  BY DEF Quiet, P!Quiet, killWorkflow, P!killWorkflow
<1>10. Quiet <=> P!Quiet
  BY DEF Quiet, P!Quiet
<1>11. QED
  BY <1>1, <1>2, <1>3, <1>4, <1>5, <1>6, <1>7, <1>8, <1>9, <1>10

(* The composite, and its states that a controller reuses.                 *)
LEMMA SameComposite ==
  /\ Pace!PaceStep <=> P!PaceStep
  /\ Pace!Environment <=> P!Environment
  /\ \A s : Pace!StateDestroyPace(s) <=> P!StateDestroyPace(s)
  /\ \A s, t : Pace!DestroyPaceDone(s, t) <=> P!DestroyPaceDone(s, t)
  /\ \A s, t : Pace!StateClearPacePasswords(s, t)
               <=> P!StateClearPacePasswords(s, t)
  /\ \A s, a : Pace!StateUpdateRetryCounter(s, a)
               <=> P!StateUpdateRetryCounter(s, a)
  /\ \A s, t, a : Pace!UpdateRetryCounterDone(s, t, a)
                  <=> P!UpdateRetryCounterDone(s, t, a)
  /\ \A t : Pace!StateCleanUpReaderManager(t)
            <=> P!StateCleanUpReaderManager(t)
<1>1. Pace!PaceStep <=> P!PaceStep
  BY DEF Pace!AfterPace, P!AfterPace, Pace!Answered, P!Answered, Pace!Call,
         P!Call, Pace!CanStillRequired, P!CanStillRequired, Pace!CardIn,
         P!CardIn, Pace!CardVanished, P!CardVanished, Pace!ConnectCardDone,
         P!ConnectCardDone, Pace!DestroyPaceDone, P!DestroyPaceDone,
         Pace!Doubtful, P!Doubtful, Pace!CounterOf, P!CounterOf,
         Pace!Readings, P!Readings, Pace!IsPinDeactivated, P!IsPinDeactivated,
         Pace!Enter, P!Enter, Pace!EstablishPaceChannelDone,
         P!EstablishPaceChannelDone, Pace!Established, P!Established, Pace!Go,
         P!Go, Pace!HasConnection, P!HasConnection, Pace!HasError, P!HasError,
         Pace!Heard, P!Heard, Pace!Holds, P!Holds, Pace!IsBasic, P!IsBasic,
         Pace!KindOf, P!KindOf, Pace!Main, P!Main, Pace!MaintainAborts,
         P!MaintainAborts, Pace!NoConnection, P!NoConnection, Pace!PaceFlags,
         P!PaceFlags, Pace!PaceStep, P!PaceStep, Pace!PasswordKinds,
         P!PasswordKinds, Pace!Prepare, P!Prepare,
         Pace!PreparePaceInCanAllowedMode, P!PreparePaceInCanAllowedMode,
         Pace!Quiet, P!Quiet, Pace!RefinedInvalidPin, P!RefinedInvalidPin,
         Pace!Result, P!Result, Pace!Return, P!Return, Pace!Run, P!Run,
         Pace!Select, P!Select, Pace!SessionsAfter, P!SessionsAfter,
         Pace!StateClearPacePasswords, P!StateClearPacePasswords,
         Pace!StateConnectCard, P!StateConnectCard, Pace!StateDestroyPace,
         P!StateDestroyPace, Pace!StateEnterPacePassword,
         P!StateEnterPacePassword, Pace!StateEstablishPaceChannel,
         P!StateEstablishPaceChannel, Pace!StateMaintainCardConnection,
         P!StateMaintainCardConnection, Pace!StatePreparePace,
         P!StatePreparePace, Pace!StateSelectReader, P!StateSelectReader,
         Pace!StateUnfortunateCardPosition, P!StateUnfortunateCardPosition,
         Pace!StateUpdateRetryCounter, P!StateUpdateRetryCounter,
         Pace!StateVerifyRetryCounter, P!StateVerifyRetryCounter,
         Pace!TypePassword, P!TypePassword, Pace!TypesAtScreen,
         P!TypesAtScreen, Pace!Unheard, P!Unheard, Pace!Unrecoverable,
         P!Unrecoverable, Pace!UpdateRetryCounterDone,
         P!UpdateRetryCounterDone, Pace!Verified, P!Verified,
         Pace!equalsWrongPacePassword, P!equalsWrongPacePassword,
         Pace!handleWrongNpaPosition, P!handleWrongNpaPosition,
         Pace!isNpaRepositioningRequired, P!isNpaRepositioningRequired,
         Pace!resetPacePasswords, P!resetPacePasswords,
         Pace!setNpaPositionVerified, P!setNpaPositionVerified,
         Pace!toGlobalStatus, P!toGlobalStatus, Pace!updateStatus,
         P!updateStatus
<1>2. Pace!Environment <=> P!Environment
  BY DEF Pace!CardIn, P!CardIn, Pace!CounterOf, P!CounterOf, Pace!Enter,
         Pace!Doubtful, P!Doubtful, Pace!Readings, P!Readings,
         Pace!IsPinDeactivated, P!IsPinDeactivated,
         P!Enter, Pace!Environment, P!Environment, Pace!Go, P!Go, Pace!Holds,
         P!Holds, Pace!InfoChanged, P!InfoChanged, Pace!InsertCard,
         P!InsertCard, Pace!Main, P!Main, Pace!NothingSentBefore,
         P!NothingSentBefore, Pace!Quiet, P!Quiet, Pace!RemoveCard,
         P!RemoveCard, Pace!Result, P!Result, Pace!SessionsAfter,
         P!SessionsAfter, Pace!Unheard, P!Unheard, Pace!onReaderDeviceError,
         P!onReaderDeviceError, Pace!setReaderPlugInTypes,
         P!setReaderPlugInTypes, Pace!updateStatus, P!updateStatus
<1>3. \A s : Pace!StateDestroyPace(s) <=> P!StateDestroyPace(s)
  BY DEF Pace!Call, P!Call, Pace!HasConnection, P!HasConnection, Pace!Holds,
         P!Holds, Pace!Main, P!Main, Pace!NoConnection, P!NoConnection,
         Pace!Run, P!Run, Pace!SessionsAfter, P!SessionsAfter,
         Pace!StateDestroyPace, P!StateDestroyPace
<1>4. \A s, t : Pace!DestroyPaceDone(s, t) <=> P!DestroyPaceDone(s, t)
  BY DEF Pace!Answered, P!Answered, Pace!DestroyPaceDone, P!DestroyPaceDone,
         Pace!Enter, P!Enter, Pace!Heard, P!Heard, Pace!Holds, P!Holds,
         Pace!Main, P!Main, Pace!Quiet, P!Quiet, Pace!Result, P!Result,
         Pace!Return, P!Return, Pace!SessionsAfter, P!SessionsAfter,
         Pace!Unheard, P!Unheard
<1>5. \A s, t : Pace!StateClearPacePasswords(s, t)
               <=> P!StateClearPacePasswords(s, t)
  BY DEF Pace!Enter, P!Enter, Pace!Go, P!Go, Pace!Holds, P!Holds, Pace!Main,
         P!Main, Pace!PasswordKinds, P!PasswordKinds, Pace!Run, P!Run,
         Pace!SessionsAfter, P!SessionsAfter, Pace!StateClearPacePasswords,
         P!StateClearPacePasswords, Pace!Unheard, P!Unheard,
         Pace!resetPacePasswords, P!resetPacePasswords
<1>6. \A s, a : Pace!StateUpdateRetryCounter(s, a)
               <=> P!StateUpdateRetryCounter(s, a)
  BY DEF Pace!Call, P!Call, Pace!Enter, P!Enter, Pace!Go, P!Go,
         Pace!HasConnection, P!HasConnection, Pace!Holds, P!Holds, Pace!Main,
         P!Main, Pace!NoConnection, P!NoConnection, Pace!Run, P!Run,
         Pace!SessionsAfter, P!SessionsAfter, Pace!StateUpdateRetryCounter,
         P!StateUpdateRetryCounter, Pace!Unheard, P!Unheard
<1>7. \A s, t, a : Pace!UpdateRetryCounterDone(s, t, a)
                  <=> P!UpdateRetryCounterDone(s, t, a)
  BY DEF Pace!Answered, P!Answered, Pace!Enter, P!Enter, Pace!Heard, P!Heard,
         Pace!Holds, P!Holds, Pace!Main, P!Main, Pace!NoConnection,
         P!NoConnection, Pace!Quiet, P!Quiet, Pace!Result, P!Result,
         Pace!Return, P!Return, Pace!SessionsAfter, P!SessionsAfter,
         Pace!Unheard, P!Unheard, Pace!UpdateRetryCounterDone,
         P!UpdateRetryCounterDone
<1>8. \A t : Pace!StateCleanUpReaderManager(t)
            <=> P!StateCleanUpReaderManager(t)
  BY DEF Pace!Enter, P!Enter, Pace!Go, P!Go, Pace!Holds, P!Holds, Pace!Main,
         P!Main, Pace!NoConnection, P!NoConnection, Pace!Run, P!Run,
         Pace!SessionsAfter, P!SessionsAfter, Pace!StateCleanUpReaderManager,
         P!StateCleanUpReaderManager, Pace!Unheard, P!Unheard
<1>9. QED
  BY <1>1, <1>2, <1>3, <1>4, <1>5, <1>6, <1>7, <1>8

(* The commands.                                                           *)
LEMMA SameCardinality ==
  \A S : Pace!Cardinality(S) = P!Cardinality(S)
  BY DEF Pace!Cardinality, P!Cardinality, Pace!IsFiniteSet, P!IsFiniteSet

LEMMA SameWorkers ==
  \A code : Pace!WorkerCreated(code) <=> P!WorkerCreated(code)
<1>1. ASSUME NEW code
      PROVE  Pace!WorkerCreated(code) <=> P!WorkerCreated(code)
  BY SameCardinality, Zenon
     DEF Pace!WorkerCreated, P!WorkerCreated, Pace!R, P!R, Pace!Others, P!Others,
         Pace!Waits, P!Waits
<1>2. QED
  BY <1>1

LEMMA SameCommands ==
  Pace!ExecuteCommand <=> P!ExecuteCommand
<1>1. Pace!UpdateRetryCounter <=> P!UpdateRetryCounter
  BY DEF Pace!Alive, P!Alive, Pace!Answer, P!Answer, Pace!CardIn, P!CardIn,
         Pace!CounterOf, P!CounterOf, Pace!Fail, P!Fail, Pace!Pending,
         P!Pending, Pace!R, P!R, Pace!UpdateRetryCounter, P!UpdateRetryCounter,
         Pace!ReadCounter, P!ReadCounter, Pace!CounterRead, P!CounterRead,
         Pace!Readings, P!Readings, Pace!Doubtful, P!Doubtful
<1>2. Pace!EstablishPacePin <=> P!EstablishPacePin
  BY DEF Pace!Alive, P!Alive, Pace!Answer, P!Answer, Pace!BrokenPace,
         P!BrokenPace, Pace!CardIn, P!CardIn, Pace!CounterOf, P!CounterOf,
         Pace!EstablishPacePin, P!EstablishPacePin, Pace!Fail, P!Fail,
         Pace!GivenUp, P!GivenUp, Pace!IsBasic, P!IsBasic, Pace!Pending,
         P!Pending, Pace!R, P!R, Pace!Typed, P!Typed
<1>3. Pace!EstablishPaceCan <=> P!EstablishPaceCan
  BY DEF Pace!Alive, P!Alive, Pace!Answer, P!Answer, Pace!BrokenPace,
         P!BrokenPace, Pace!CardIn, P!CardIn, Pace!EstablishPaceCan,
         P!EstablishPaceCan, Pace!Fail, P!Fail, Pace!GivenUp, P!GivenUp,
         Pace!IsBasic, P!IsBasic, Pace!Pending, P!Pending, Pace!R, P!R,
         Pace!Typed, P!Typed
<1>4. Pace!UnblockPin <=> P!UnblockPin
  BY DEF Pace!Alive, P!Alive, Pace!Answer, P!Answer, Pace!BrokenPace,
         P!BrokenPace, Pace!CardIn, P!CardIn, Pace!Fail, P!Fail, Pace!GivenUp,
         P!GivenUp, Pace!IsBasic, P!IsBasic, Pace!Pending, P!Pending, Pace!R,
         P!R, Pace!Typed, P!Typed, Pace!UnblockPin, P!UnblockPin,
         Pace!IsPinDeactivated, P!IsPinDeactivated
<1>5. Pace!SetEidPin <=> P!SetEidPin
  BY DEF Pace!Alive, P!Alive, Pace!Answer, P!Answer, Pace!CardIn, P!CardIn,
         Pace!Fail, P!Fail, Pace!GivenUp, P!GivenUp, Pace!IsBasic, P!IsBasic,
         Pace!Pending, P!Pending, Pace!R, P!R, Pace!SetEidPin, P!SetEidPin
<1>6. Pace!DestroyPaceChannel <=> P!DestroyPaceChannel
  BY DEF Pace!Answer, P!Answer, Pace!DestroyPaceChannel, P!DestroyPaceChannel,
         Pace!Pending, P!Pending, Pace!R, P!R
<1>7. \A op, f : Pace!AuthenticationCommand(op, f)
                <=> P!AuthenticationCommand(op, f)
  BY DEF Pace!Alive, P!Alive, Pace!Answer, P!Answer,
         Pace!AuthenticationCommand, P!AuthenticationCommand, Pace!CardIn,
         P!CardIn, Pace!Fail, P!Fail, Pace!Pending, P!Pending, Pace!R, P!R
<1>8. Pace!CreateCardConnection <=> P!CreateCardConnection
  BY SameWorkers DEF Pace!CreateCardConnection, P!CreateCardConnection, Pace!R,
         P!R, Pace!CardIn, P!CardIn, Pace!Pending, P!Pending
<1>9. QED
  BY <1>1, <1>2, <1>3, <1>4, <1>5, <1>6, <1>7, <1>8
     DEF Pace!ExecuteCommand, P!ExecuteCommand

-----------------------------------------------------------------------------
(***************************************************************************)
(* The invariant.  TypeOK and the properties are about single states; what *)
(* makes them inductive is where the connection stands, which states may   *)
(* wait, and what a command that is listened to will have done.            *)
(***************************************************************************)
ControllerWaits == {"ChangePin", "DestroyPaceFinal", "UpdateRetryCounterFinal"}

OuterFits ==
  /\ state \in States
  /\ state \in {"PrepareChangePin", "EnterNewPacePin", "ChangePin",
                "DestroyPaceFinal"} => P!HasConnection(ctx)
  /\ (phase = "waiting" /\ state \notin P!PaceStates)
       => state \in ControllerWaits
  /\ state = "Initial" => ~P!HasConnection(ctx) /\ jobs = <<>> /\ ~cancelDue

(* The states a workflow without an error reaches after the PIN change.    *)
Finishing == {"DestroyPaceFinal", "ClearPacePasswords", "UpdateRetryCounterFinal",
              "CleanUpReaderManager", "FinalState", "Done"}

PinChanged == \E c \in Cards : card[c].changed

(* The SetEidPin command that is listened to had a PIN to set, unless the  *)
(* workflow was killed.                                                    *)
ChangeFits ==
  /\ (state \in Finishing /\ ~P!HasError(ctx)) => PinChanged
  /\ (state = "ChangePin" /\ ~P!HasError(ctx)) =>
       (ctx.pw["newPin"] # NoPassword \/ ~P!IsBasic(ctx.conn.reader))
  /\ state = "ChangePin" =>
       \A i \in 1 .. Len(jobs) : jobs[i].heard =>
         /\ jobs[i].op = "SetEidPin"
         /\ \/ P!HasError(ctx)
            \/ jobs[i].pw # NoPassword
            \/ ~P!IsBasic(jobs[i].reader)
         /\ jobs[i].result = "OK" => P!HasError(ctx) \/ PinChanged

ChangePinInv == P!PaceInv /\ OuterFits /\ ChangeFits /\ PasswordsClearedAtEnd

-----------------------------------------------------------------------------
(* A state that has just been entered.                                     *)
LEMMA EnteredKeeps ==
  ASSUME P!PaceInv', phase' = "entered", state' \in States \ {"Initial"},
         state' \in {"PrepareChangePin", "EnterNewPacePin", "ChangePin",
                     "DestroyPaceFinal"} => P!HasConnection(ctx'),
         (state' \in Finishing /\ ~P!HasError(ctx')) => PinChanged',
         (state' = "ChangePin" /\ ~P!HasError(ctx')) =>
           (ctx'.pw["newPin"] # NoPassword \/ ~P!IsBasic(ctx'.conn.reader)),
         PasswordsClearedAtEnd'
  PROVE  ChangePinInv'
<1>1. \A i \in 1 .. Len(jobs') : ~jobs'[i].heard
  BY P!NobodyListens, ConstantsAssumption, UiAssumption
<1>2. ChangeFits'
  BY <1>1 DEF ChangeFits
<1>3. OuterFits'
  BY DEF OuterFits
<1>4. QED
  BY <1>2, <1>3 DEF ChangePinInv

(* States of the composite have no part in what the controller adds.       *)
LEMMA InsideKeeps ==
  ASSUME P!PaceInv', state' \in P!PaceStates
  PROVE  ChangePinInv'
  BY DEF ChangePinInv, OuterFits, ChangeFits, PasswordsClearedAtEnd, Finishing,
         States, Pace!PaceStates, P!PaceStates

(* The names of the states.                                                *)
LEMMA StateNames ==
  /\ Pace!PaceStates = P!PaceStates
  /\ OuterStates \cap P!PaceStates = {} /\ OuterStates \subseteq States
  /\ P!PaceStates \subseteq States
  /\ {"Initial", "Done", "Unreachable"} \cap (P!PaceStates \cup OuterStates) = {}
  BY DEF Pace!PaceStates, P!PaceStates, OuterStates, States

LEMMA Exits == P!ExitsOutside
  BY DEF P!ExitsOutside, P!PaceStates

LEMMA InitHolds == Init => ChangePinInv
<1> SUFFICES ASSUME Init PROVE ChangePinInv
  OBVIOUS
<1>1. /\ InitialContext \in P!Contexts
      /\ InitialContext.conn = P!NoConnection /\ ~InitialContext.killed
      /\ InitialContext.vanished = 0
  <2>1. "OK" \in P!Codes /\ P!toGlobalStatus["OK"] = "No_Error"
    BY DEF P!Codes, P!toGlobalStatus
  <2>2. "No_Error" \in P!Statuses
    BY <2>1 DEF P!Statuses
  <2>3. NoConnection \in P!Connections /\ NoConnection = P!NoConnection
    BY DEF P!Connections, P!Counters, NoConnection, P!NoConnection
  <2>4. [k \in PasswordKinds |-> NoPassword]
          \in [P!PasswordKinds -> P!Passwords]
    BY DEF PasswordKinds, P!PasswordKinds, P!Passwords
  <2>5. QED
    BY <2>1, <2>2, <2>3, <2>4, ConstantsAssumption
       DEF InitialContext, P!Contexts, P!PaceTypes, P!Counters
<1>2. P!PaceTypeOK
  <2>1. reader \in [Readers -> P!ReaderStates]
    BY DEF Init, P!ReaderStates, P!Counters, P!Sessions
  <2>2. PukUses \in 0 .. PukUses
    BY ConstantsAssumption
  <2>3. card \in P!CardRecords
    <3>1. ASSUME NEW c \in Cards
          PROVE  card[c] \in [counter : 0 .. 3, puk : 0 .. PukUses,
                              changed : BOOLEAN]
      <4>1. card[c] \in [counter : 0 .. 3, puk : {PukUses}, changed : {FALSE}]
        BY <3>1 DEF Init
      <4>2. QED
        BY <2>2, <4>1
    <3>2. QED
      BY <3>1 DEF Init, P!CardRecords
  <2>4. /\ phase = "entered" /\ cancelDue = FALSE /\ ctx = InitialContext
        /\ jobs = <<>> /\ spent = {}
    BY DEF Init
  <2>5. jobs \in Seq(P!Jobs) /\ spent \subseteq Cards
    BY <2>4
  <2>6. phase \in {"entered", "waiting"} /\ cancelDue \in BOOLEAN
    BY <2>4
  <2>7. ctx \in P!Contexts
    BY <1>1, <2>4
  <2>8. QED
    BY <2>1, <2>3, <2>5, <2>6, <2>7 DEF P!PaceTypeOK
<1>3. P!ContextFits(state, ctx)
  BY <1>1, ConstantsAssumption
     DEF Init, P!ContextFits, P!ConnectionFits, P!ErrorFits, P!InfoFits,
         P!CardFits, P!HasConnection
<1>4. P!JobsFit /\ P!ResultsTrue /\ P!WaitFits
  BY DEF Init, P!JobsFit, P!ResultsTrue, P!WaitFits
<1>5. OuterFits /\ ChangeFits /\ PasswordsClearedAtEnd
  BY <1>1 DEF Init, OuterFits, States, P!HasConnection, ChangeFits, Finishing,
              PasswordsClearedAtEnd
<1>6. QED
  BY <1>2, <1>3, <1>4, <1>5 DEF ChangePinInv, P!PaceInv

-----------------------------------------------------------------------------
(***************************************************************************)
(* One lemma for each step of the controller.                              *)
(***************************************************************************)
LEMMA StartHolds ==
  ASSUME ChangePinInv, StartMachine("MaintainCardConnection")
  PROVE  ChangePinInv'
<1>1. P!StartMachine("MaintainCardConnection")
  BY SameProtocol
<1>2. P!PaceInv /\ ~P!HasConnection(ctx) /\ jobs = <<>>
  BY <1>1 DEF P!StartMachine, ChangePinInv, OuterFits
<1>3. P!PaceInv'
  BY <1>1, <1>2, P!StartKeeps, ConstantsAssumption, UiAssumption
<1>4. state' \in P!PaceStates
  BY <1>1 DEF P!StartMachine, P!PaceStates
<1>5. QED
  BY <1>3, <1>4, InsideKeeps

(* The composite, and where it is left.                                    *)
LEMMA PaceHolds ==
  ASSUME ChangePinInv, Pace!PaceStep
  PROVE  ChangePinInv'
<1>1. P!PaceInv /\ P!PaceStep
  BY SameComposite DEF ChangePinInv
<1>2. P!PaceInv'
  BY <1>1, P!PaceStepKeeps, Exits, ConstantsAssumption, UiAssumption
<1>3. P!Moves
  BY <1>1, P!PaceStepMoves, ConstantsAssumption, UiAssumption
<1>4. phase' \in {"entered", "waiting"}
  BY <1>2 DEF P!PaceInv, P!PaceTypeOK
<1>5. CASE state' \in P!PaceStates
  BY <1>2, <1>5, InsideKeeps
<1>6. CASE state' \notin P!PaceStates
  <2>1. phase' = "entered"
    BY <1>3, <1>4, <1>6 DEF P!Moves
  <2>2. CASE state' = "Unreachable"
    BY <1>2, <2>1, <2>2, StateNames, EnteredKeeps
       DEF States, Finishing, PasswordsClearedAtEnd
  <2>3. CASE state' = "ClearPacePasswords" /\ P!HasError(ctx')
    BY <1>2, <2>1, <2>3, EnteredKeeps
       DEF States, OuterStates, PasswordsClearedAtEnd
  <2>4. CASE state' = "PrepareChangePin" /\ P!ChannelStands
    BY <1>2, <2>1, <2>4, EnteredKeeps
       DEF States, OuterStates, PasswordsClearedAtEnd, P!ChannelStands, Finishing
  <2>5. QED
    BY <1>3, <1>6, <2>2, <2>3, <2>4 DEF P!Moves, P!Leaves
<1>7. QED
  BY <1>5, <1>6

LEMMA PrepareHolds ==
  ASSUME ChangePinInv, StatePrepareChangePin
  PROVE  ChangePinInv'
<1> DEFINE s == IF ctx.pw["newPin"] = NoPassword THEN "EnterNewPacePin"
                                                  ELSE "ChangePin"
<1>1. /\ P!PaceInv /\ P!HasConnection(ctx) /\ state = "PrepareChangePin"
      /\ P!Go(s, ctx) /\ ctx \in P!Contexts
  BY SameProtocol DEF StatePrepareChangePin, P!Run, ChangePinInv, OuterFits,
     P!PaceInv, P!PaceTypeOK
<1>2. state \notin P!PaceStates /\ s \notin P!PaceStates
  BY <1>1, StateNames DEF OuterStates
<1>3. P!ContextFits(s, ctx)
  BY <1>1, <1>2, P!OutsideFits, ConstantsAssumption, UiAssumption
<1>4. P!PaceInv'
  BY <1>1, <1>2, <1>3, P!GoKeeps, ConstantsAssumption, UiAssumption
<1>5. state' = s /\ phase' = "entered" /\ ctx' = ctx
  BY <1>1 DEF P!Go, P!Enter, P!Main
<1>6. QED
  BY <1>1, <1>4, <1>5, EnteredKeeps
     DEF States, OuterStates, Finishing, PasswordsClearedAtEnd

(* The user types the new PIN, at the screen or later at the PIN pad.      *)
LEMMA EnterNewPinHolds ==
  ASSUME ChangePinInv, StateEnterNewPacePin
  PROVE  ChangePinInv'
<1>1. PICK p \in IF ctx.killed \/ ~Pace!TypesAtScreen
                   THEN {ctx.pw["newPin"]} ELSE {WrongPassword} :
        Go("ChangePin", [ctx EXCEPT !.pw["newPin"] = p])
  BY DEF StateEnterNewPacePin
<1> DEFINE c == [ctx EXCEPT !.pw["newPin"] = p]
<1>2. /\ P!PaceInv /\ P!HasConnection(ctx) /\ state = "EnterNewPacePin"
      /\ P!Go("ChangePin", c) /\ ctx \in P!Contexts
  BY <1>1, SameProtocol DEF StateEnterNewPacePin, P!Run, ChangePinInv, OuterFits,
     P!PaceInv, P!PaceTypeOK
<1>3. "newPin" \in P!PasswordKinds /\ ctx.pw \in [P!PasswordKinds -> P!Passwords]
  BY <1>2, P!ContextTypes, ConstantsAssumption, UiAssumption DEF P!PasswordKinds
<1>4. p \in P!Passwords
  BY <1>1, <1>3 DEF P!Passwords
<1>5. /\ c \in P!Contexts /\ c.conn = ctx.conn /\ c.vanished = ctx.vanished
      /\ c.killed = ctx.killed /\ c.status = ctx.status /\ c.pw["newPin"] = p
      /\ c.doubted = ctx.doubted
  BY <1>2, <1>3, <1>4 DEF P!Contexts
<1>6. P!HasError(ctx) \/ p # NoPassword \/ ~P!IsBasic(ctx.conn.reader)
  <2>1. ctx.killed => P!HasError(ctx)
    BY <1>2 DEF P!PaceInv, P!ContextFits, P!ErrorFits
  <2>2. Pace!TypesAtScreen <=> P!IsBasic(ctx.conn.reader)
    BY DEF Pace!TypesAtScreen, Pace!IsBasic, P!IsBasic
  <2>3. QED
    BY <1>1, <2>1, <2>2, ConstantsAssumption
<1> HIDE DEF c
<1>7. state \notin P!PaceStates /\ "ChangePin" \notin P!PaceStates
  BY <1>2, StateNames DEF OuterStates
<1>8. P!ContextFits("ChangePin", c)
  BY <1>2, <1>5, <1>7, P!OutsideFits, ConstantsAssumption, UiAssumption
     DEF P!HasError
<1>9. P!PaceInv'
  BY <1>2, <1>5, <1>7, <1>8, P!GoKeeps, ConstantsAssumption, UiAssumption
<1>10. state' = "ChangePin" /\ phase' = "entered" /\ ctx' = c
  BY <1>2 DEF P!Go, P!Enter, P!Main
<1>11. QED
  BY <1>2, <1>5, <1>6, <1>9, <1>10, EnteredKeeps
     DEF States, OuterStates, Finishing, PasswordsClearedAtEnd, P!HasError,
         P!HasConnection

(* SetEidPin is handed over with what was typed.                           *)
LEMMA ChangePinHolds ==
  ASSUME ChangePinInv, StateChangePin
  PROVE  ChangePinInv'
<1> DEFINE pw == ctx.pw["newPin"]
           r == ctx.conn.reader
<1>1. /\ P!PaceInv /\ P!HasConnection(ctx) /\ state = "ChangePin"
      /\ phase = "entered" /\ P!Call("SetEidPin", r, "UNKNOWN", pw)
      /\ ctx \in P!Contexts /\ jobs \in Seq(P!Jobs)
      /\ P!HasError(ctx) \/ pw # NoPassword \/ ~P!IsBasic(r)
  BY SameProtocol DEF StateChangePin, P!Run, ChangePinInv, OuterFits, ChangeFits,
     P!PaceInv, P!PaceTypeOK
<1>2. /\ state \notin P!PaceStates /\ r \in Readers /\ pw \in P!Passwords
      /\ "SetEidPin" \in P!Operations /\ "UNKNOWN" \in P!PaceTypes
  <2>1. ctx.pw \in [P!PasswordKinds -> P!Passwords]
    BY <1>1, P!ContextTypes, ConstantsAssumption, UiAssumption
  <2>2. r \in Readers
    BY <1>1 DEF P!PaceInv, P!ContextFits, P!ConnectionFits, P!HasConnection
  <2>3. QED
    BY <1>1, <2>1, <2>2, StateNames
       DEF OuterStates, P!PasswordKinds, P!Operations, P!PaceTypes
<1> HIDE DEF pw, r
<1>3. P!CallFits(state, "SetEidPin")
  BY <1>2 DEF P!CallFits
<1>4. P!PaceInv'
  BY <1>1, <1>2, <1>3, P!CallKeeps, ConstantsAssumption, UiAssumption DEF r
<1> DEFINE job == [op |-> "SetEidPin", reader |-> r, type |-> "UNKNOWN",
                   pw |-> pw, heard |-> TRUE, result |-> "PENDING"]
<1>5. /\ state' = "ChangePin" /\ phase' = "waiting" /\ ctx' = ctx
      /\ jobs' = Append(jobs, job) /\ UNCHANGED <<cancelDue, card>>
  BY <1>1 DEF P!Call, P!Main
<1>6. \A i \in 1 .. Len(jobs) : ~jobs[i].heard
  BY <1>1 DEF P!PaceInv, P!JobsFit, P!JobFits
<1>7. \A i \in 1 .. Len(jobs') : ~jobs'[i].heard \/ jobs'[i] = job
  <2> HIDE DEF job
  <2>1. QED
    BY <1>1, <1>5, <1>6
<1>8. ChangeFits'
  BY <1>1, <1>5, <1>7 DEF ChangeFits, Finishing, P!HasError, r, pw
<1>9. OuterFits' /\ PasswordsClearedAtEnd'
  BY <1>1, <1>5 DEF ChangePinInv, OuterFits, PasswordsClearedAtEnd,
                    ControllerWaits, P!HasConnection
<1>10. QED
  BY <1>4, <1>8, <1>9 DEF ChangePinInv

(* onSetEidPinDone: the PIN is changed, there is an error, or the card is  *)
(* connected again.                                                        *)
LEMMA ChangePinDoneHolds ==
  ASSUME ChangePinInv, ChangePinDone
  PROVE  ChangePinInv'
<1>1. P!Heard("ChangePin") /\ P!PaceInv
  BY SameProtocol DEF ChangePinDone, ChangePinInv
<1>2. /\ state = "ChangePin" /\ jobs # <<>> /\ Head(jobs) = jobs[1]
      /\ Head(jobs).heard /\ 1 \in 1 .. Len(jobs) /\ Result \in P!Codes
  <2>1. Result = P!Result
    BY DEF Result, P!Result
  <2>2. QED
    BY <1>1, <2>1, P!HeardFacts, ConstantsAssumption, UiAssumption DEF P!Heard
<1>3. Result = "OK" => P!HasError(ctx) \/ PinChanged
  BY <1>2 DEF ChangePinInv, ChangeFits, Result
<1> DEFINE c == [ctx EXCEPT !.last = Result]
           failed == P!updateStatus(c, P!toGlobalStatus[Result])
<1>4. /\ c \in P!Contexts /\ c.conn = ctx.conn /\ c.vanished = ctx.vanished
      /\ c.killed = ctx.killed /\ c.status = ctx.status /\ c.last = Result
      /\ c.doubted = ctx.doubted
  BY <1>1, <1>2 DEF P!PaceInv, P!PaceTypeOK, P!Contexts
<1>5. /\ P!toGlobalStatus[Result] \in P!Statuses
      /\ P!toGlobalStatus[Result] = "No_Error" <=> Result \in {"OK", "OK_PUK"}
  BY <1>2, P!StatusTypes, ConstantsAssumption, UiAssumption
<1>6. /\ failed \in P!Contexts /\ failed.conn = c.conn
      /\ failed.vanished = c.vanished /\ failed.killed = c.killed
      /\ failed.doubted = c.doubted
      /\ P!HasError(failed) <=> P!HasError(c) \/ Result \notin {"OK", "OK_PUK"}
  BY <1>4, <1>5, P!UpdateStatusKeeps, ConstantsAssumption, UiAssumption
<1>7. failed = updateStatus(c, toGlobalStatus[Result])
  BY DEF updateStatus, P!updateStatus, toGlobalStatus, P!toGlobalStatus
<1>8. \/ Result = "OK" /\ P!Return("DestroyPaceFinal", c)
      \/ /\ Result = "CANCELLATION_BY_USER"
         /\ P!Return("MaintainCardConnection", failed)
      \/ Result = "NEW_PIN_MISMATCH" /\ P!Return("ClearPacePasswords", failed)
      \/ /\ Result \notin {"OK", "CANCELLATION_BY_USER", "NEW_PIN_MISMATCH"}
         /\ P!Return("MaintainCardConnection", c)
  BY <1>7, SameProtocol DEF ChangePinDone
<1> HIDE DEF c, failed
<1>9. P!HasError(c) <=> P!HasError(ctx)
  BY <1>4 DEF P!HasError
<1>10. state \notin P!PaceStates /\ P!HasConnection(ctx)
  BY <1>2, StateNames DEF OuterStates, ChangePinInv, OuterFits
<1>11. CASE Result = "OK" /\ P!Return("DestroyPaceFinal", c)
  <2>1. "DestroyPaceFinal" \notin P!PaceStates
    BY StateNames DEF OuterStates
  <2>2. P!ContextFits("DestroyPaceFinal", c)
    BY <1>1, <1>4, <1>9, <1>10, <2>1, P!OutsideFits, ConstantsAssumption,
       UiAssumption
  <2>3. P!PaceInv'
    BY <1>1, <1>2, <1>4, <1>11, <2>2, P!ReturnKeeps, ConstantsAssumption,
       UiAssumption
  <2>4. /\ state' = "DestroyPaceFinal" /\ phase' = "entered" /\ ctx' = c
        /\ UNCHANGED card
    BY <1>11 DEF P!Return, P!Enter, P!Main
  <2>5. P!HasError(ctx') \/ PinChanged'
    BY <1>3, <1>9, <1>11, <2>4 DEF PinChanged
  <2>6. P!HasConnection(ctx')
    BY <1>4, <1>10, <2>4 DEF P!HasConnection
  <2>7. QED
    BY <2>3, <2>4, <2>5, <2>6, EnteredKeeps
       DEF States, OuterStates, PasswordsClearedAtEnd
<1>12. CASE Result = "NEW_PIN_MISMATCH" /\ P!Return("ClearPacePasswords", failed)
  <2>1. "ClearPacePasswords" \notin P!PaceStates
    BY StateNames DEF OuterStates
  <2>2. P!ContextFits("ClearPacePasswords", failed)
    BY <1>1, <1>4, <1>6, <1>9, <1>10, <2>1, P!OutsideFits, ConstantsAssumption,
       UiAssumption
  <2>3. P!PaceInv'
    BY <1>1, <1>2, <1>6, <1>12, <2>2, P!ReturnKeeps, ConstantsAssumption,
       UiAssumption
  <2>4. state' = "ClearPacePasswords" /\ phase' = "entered" /\ ctx' = failed
    BY <1>12 DEF P!Return, P!Enter, P!Main
  <2>5. P!HasError(ctx')
    BY <1>6, <1>12, <2>4
  <2>6. QED
    BY <2>3, <2>4, <2>5, EnteredKeeps
       DEF States, OuterStates, PasswordsClearedAtEnd
<1>13. ASSUME NEW d \in {c, failed}, P!Return("MaintainCardConnection", d),
              d.last # "OK" \/ P!HasError(d)
       PROVE  ChangePinInv'
  <2>1. /\ d \in P!Contexts /\ d.conn = ctx.conn /\ d.vanished = ctx.vanished
        /\ d.killed = ctx.killed
        /\ d.doubted = ctx.doubted
        /\ P!HasError(ctx) => P!HasError(d)
    BY <1>4, <1>6, <1>9
  <2>2. P!ContextFits("MaintainCardConnection", d)
    BY <1>1, <1>10, <1>13, <2>1, P!OutsideFits, ConstantsAssumption, UiAssumption
  <2>3. P!PaceInv'
    BY <1>1, <1>2, <1>13, <2>1, <2>2, P!ReturnKeeps, ConstantsAssumption,
       UiAssumption
  <2>4. state' \in P!PaceStates
    BY <1>13 DEF P!Return, P!Enter, P!PaceStates
  <2>5. QED
    BY <2>3, <2>4, InsideKeeps
<1>14. QED
  BY <1>4, <1>6, <1>8, <1>11, <1>12, <1>13

(* The channel is closed again.                                            *)
LEMMA DestroyHolds ==
  ASSUME ChangePinInv,
         \/ Pace!StateDestroyPace("DestroyPaceFinal")
         \/ Pace!DestroyPaceDone("DestroyPaceFinal", "ClearPacePasswords")
  PROVE  ChangePinInv'
<1>1. /\ P!PaceInv /\ "DestroyPaceFinal" \notin P!PaceStates
      /\ "ClearPacePasswords" \notin P!PaceStates
  BY StateNames DEF ChangePinInv, OuterStates
<1>2. CASE Pace!StateDestroyPace("DestroyPaceFinal")
  <2>1. P!StateDestroyPace("DestroyPaceFinal")
    BY <1>2, SameComposite
  <2>2. P!CallFits("DestroyPaceFinal", "DestroyPaceChannel")
    BY <1>1 DEF P!CallFits
  <2>3. P!PaceInv'
    BY <1>1, <2>1, <2>2, P!DestroyKeeps, ConstantsAssumption, UiAssumption
  <2>4. /\ state = "DestroyPaceFinal" /\ phase' = "waiting"
        /\ UNCHANGED <<state, ctx, cancelDue, card>>
    BY <2>1 DEF P!StateDestroyPace, P!Run, P!Call, P!Main
  <2>5. OuterFits'
    BY <2>4 DEF ChangePinInv, OuterFits, ControllerWaits, P!HasConnection
  <2>6. ChangeFits'
    BY <2>4 DEF ChangePinInv, ChangeFits, PinChanged, P!HasError
  <2>7. PasswordsClearedAtEnd'
    BY <2>4 DEF PasswordsClearedAtEnd
  <2>8. QED
    BY <2>3, <2>5, <2>6, <2>7 DEF ChangePinInv
<1>3. CASE Pace!DestroyPaceDone("DestroyPaceFinal", "ClearPacePasswords")
  <2>1. P!DestroyPaceDone("DestroyPaceFinal", "ClearPacePasswords")
    BY <1>3, SameComposite
  <2>2. P!PaceInv'
    BY <1>1, <2>1, P!DestroyDoneKeeps, ConstantsAssumption, UiAssumption
  <2>3. /\ state = "DestroyPaceFinal" /\ state' = "ClearPacePasswords"
        /\ phase' = "entered" /\ UNCHANGED <<ctx, card>>
    BY <2>1 DEF P!DestroyPaceDone, P!Heard, P!Return, P!Enter, P!Main
  <2>4. P!HasError(ctx') \/ PinChanged'
    BY <2>3 DEF ChangePinInv, ChangeFits, Finishing, PinChanged, P!HasError
  <2>5. QED
    BY <2>2, <2>3, <2>4, EnteredKeeps
       DEF States, OuterStates, PasswordsClearedAtEnd
<1>4. QED
  BY <1>2, <1>3

(* No password is left, and no error is lost.                              *)
LEMMA ClearHolds ==
  ASSUME ChangePinInv,
         Pace!StateClearPacePasswords("ClearPacePasswords",
                                      "UpdateRetryCounterFinal")
  PROVE  ChangePinInv'
<1>1. P!StateClearPacePasswords("ClearPacePasswords", "UpdateRetryCounterFinal")
  BY SameComposite
<1>2. /\ P!PaceInv /\ "UpdateRetryCounterFinal" \notin P!PaceStates
      /\ ctx \in P!Contexts
  BY StateNames DEF ChangePinInv, OuterStates, P!PaceInv, P!PaceTypeOK
<1>3. P!PaceInv'
  BY <1>1, <1>2, P!ClearKeeps, ConstantsAssumption, UiAssumption
<1>4. /\ state = "ClearPacePasswords" /\ state' = "UpdateRetryCounterFinal"
      /\ phase' = "entered" /\ ctx' = P!resetPacePasswords(ctx) /\ UNCHANGED card
  BY <1>1 DEF P!StateClearPacePasswords, P!Run, P!Go, P!Enter, P!Main
<1>5. /\ ctx'.status = ctx.status
      /\ \A k \in P!PasswordKinds : ctx'.pw[k] = NoPassword
  BY <1>2, <1>4, P!ResetKeeps, ConstantsAssumption, UiAssumption
<1>6. P!HasError(ctx') \/ PinChanged'
  BY <1>4, <1>5 DEF ChangePinInv, ChangeFits, Finishing, PinChanged, P!HasError
<1>7. PasswordsClearedAtEnd'
  BY <1>5 DEF PasswordsClearedAtEnd, PasswordKinds, P!PasswordKinds
<1>8. QED
  BY <1>3, <1>4, <1>6, <1>7, EnteredKeeps DEF States, OuterStates

(* The counter is read once more, and the readers are released.            *)
LEMMA UpdateHolds ==
  ASSUME ChangePinInv,
         \/ Pace!StateUpdateRetryCounter("UpdateRetryCounterFinal",
                                         "CleanUpReaderManager")
         \/ Pace!UpdateRetryCounterDone("UpdateRetryCounterFinal",
                                        "CleanUpReaderManager",
                                        "CleanUpReaderManager")
  PROVE  ChangePinInv'
<1> DEFINE s == "UpdateRetryCounterFinal"
           t == "CleanUpReaderManager"
<1>1. /\ P!PaceInv /\ s \notin P!PaceStates /\ t \notin P!PaceStates
      /\ P!CallFits(s, "UpdateRetryCounter") /\ ctx \in P!Contexts
  BY StateNames DEF ChangePinInv, OuterStates, P!CallFits, P!PaceInv, P!PaceTypeOK
<1>2. \/ P!StateUpdateRetryCounter(s, t) \/ P!UpdateRetryCounterDone(s, t, t)
  BY SameComposite
<1> HIDE DEF s, t
<1>3. P!PaceInv'
  BY <1>1, <1>2, P!UpdateKeeps, P!UpdateDoneKeeps, ConstantsAssumption,
     UiAssumption
<1>4. /\ state = s /\ UNCHANGED <<cancelDue, card>>
      /\ \/ ctx' = ctx \/ ctx' = [ctx EXCEPT !.conn = P!NoConnection]
      /\ \/ state' = s /\ phase' = "waiting"
         \/ state' = t /\ phase' = "entered"
  BY <1>2 DEF P!StateUpdateRetryCounter, P!UpdateRetryCounterDone, P!Run, P!Heard,
     P!Go, P!Call, P!Return, P!Enter, P!Main
<1>5. ctx'.pw = ctx.pw /\ ctx'.status = ctx.status
  BY <1>1, <1>4 DEF P!Contexts
<1>6. P!HasError(ctx') \/ PinChanged'
  BY <1>4, <1>5 DEF ChangePinInv, ChangeFits, Finishing, PinChanged, P!HasError, s
<1>7. PasswordsClearedAtEnd'
  BY <1>4, <1>5 DEF ChangePinInv, PasswordsClearedAtEnd, s
<1>8. CASE state' = t /\ phase' = "entered"
  BY <1>3, <1>6, <1>7, <1>8, EnteredKeeps DEF States, OuterStates, t
<1>9. CASE state' = s /\ phase' = "waiting"
  <2>1. OuterFits'
    BY <1>9 DEF OuterFits, States, OuterStates, ControllerWaits, s
  <2>2. ChangeFits'
    BY <1>6, <1>9 DEF ChangeFits, s
  <2>3. QED
    BY <1>3, <1>7, <2>1, <2>2 DEF ChangePinInv
<1>10. QED
  BY <1>4, <1>8, <1>9

LEMMA FinalHolds ==
  ASSUME ChangePinInv,
         Pace!StateCleanUpReaderManager("FinalState") \/ StateFinal
  PROVE  ChangePinInv'
<1>1. /\ P!PaceInv /\ ctx \in P!Contexts /\ {"CleanUpReaderManager", "FinalState",
         "Done"} \cap P!PaceStates = {}
  BY StateNames DEF ChangePinInv, OuterStates, P!PaceInv, P!PaceTypeOK
<1>2. CASE Pace!StateCleanUpReaderManager("FinalState")
  <2>1. P!StateCleanUpReaderManager("FinalState")
    BY <1>2, SameComposite
  <2>2. P!PaceInv'
    BY <1>1, <2>1, P!CleanUpKeeps, ConstantsAssumption, UiAssumption
  <2>3. /\ state = "CleanUpReaderManager" /\ state' = "FinalState"
        /\ phase' = "entered" /\ UNCHANGED card
        /\ ctx' = [ctx EXCEPT !.conn = P!NoConnection]
    BY <2>1 DEF P!StateCleanUpReaderManager, P!Run, P!Go, P!Enter, P!Main
  <2>4. ctx'.pw = ctx.pw /\ ctx'.status = ctx.status
    BY <1>1, <2>3 DEF P!Contexts
  <2>5. P!HasError(ctx') \/ PinChanged'
    BY <2>3, <2>4 DEF ChangePinInv, ChangeFits, Finishing, PinChanged, P!HasError
  <2>6. PasswordsClearedAtEnd'
    BY <2>3, <2>4 DEF ChangePinInv, PasswordsClearedAtEnd
  <2>7. QED
    BY <2>2, <2>3, <2>5, <2>6, EnteredKeeps DEF States, OuterStates
<1>3. CASE StateFinal
  <2>1. state = "FinalState" /\ P!Go("Done", ctx)
    BY <1>3, SameProtocol DEF StateFinal, P!Run
  <2>2. P!ContextFits("Done", ctx)
    BY <1>1, <2>1, P!OutsideFits, ConstantsAssumption, UiAssumption
  <2>3. P!PaceInv'
    BY <1>1, <2>1, <2>2, P!GoKeeps, ConstantsAssumption, UiAssumption
  <2>4. state' = "Done" /\ phase' = "entered" /\ UNCHANGED <<ctx, card>>
    BY <2>1 DEF P!Go, P!Enter, P!Main
  <2>5. P!HasError(ctx') \/ PinChanged'
    BY <2>1, <2>4 DEF ChangePinInv, ChangeFits, Finishing, PinChanged, P!HasError
  <2>6. PasswordsClearedAtEnd'
    BY <2>1, <2>4 DEF ChangePinInv, PasswordsClearedAtEnd
  <2>7. QED
    BY <2>3, <2>4, <2>5, <2>6, EnteredKeeps DEF States
<1>4. QED
  BY <1>2, <1>3

(***************************************************************************)
(* What happens around the controller.                                     *)
(***************************************************************************)
(* The machine stays where it is, and what it listens to stays as good.    *)
LEMMA StayKeeps ==
  ASSUME ChangePinInv, P!PaceInv', UNCHANGED <<state, phase, cancelDue>>,
         P!ContextStays, PinChanged => PinChanged',
         state = "Initial" => UNCHANGED jobs,
         state = "ChangePin" =>
           \A i \in 1 .. Len(jobs') : jobs'[i].heard =>
             /\ jobs'[i].op = "SetEidPin"
             /\ \/ P!HasError(ctx)
                \/ jobs'[i].pw # NoPassword
                \/ ~P!IsBasic(jobs'[i].reader)
             /\ jobs'[i].result = "OK" => P!HasError(ctx) \/ PinChanged'
  PROVE  ChangePinInv'
<1>1. /\ ctx'.pw = ctx.pw /\ ctx'.conn.reader = ctx.conn.reader
      /\ P!HasError(ctx') <=> P!HasError(ctx)
      /\ P!HasConnection(ctx') <=> P!HasConnection(ctx)
  BY DEF P!ContextStays, P!HasError
<1>2. OuterFits'
  BY <1>1 DEF ChangePinInv, OuterFits
<1>3. ChangeFits'
  BY <1>1 DEF ChangePinInv, ChangeFits
<1>4. PasswordsClearedAtEnd'
  BY <1>1 DEF ChangePinInv, PasswordsClearedAtEnd
<1>5. QED
  BY <1>2, <1>3, <1>4 DEF ChangePinInv

LEMMA DropHolds ==
  ASSUME ChangePinInv, DropResult
  PROVE  ChangePinInv'
<1>1. P!PaceInv /\ P!DropResult
  BY SameProtocol DEF ChangePinInv
<1>2. P!PaceInv'
  BY <1>1, P!DropResultKeeps, ConstantsAssumption, UiAssumption
<1>3. P!DropMoves
  BY <1>1, P!DropsMove, ConstantsAssumption, UiAssumption
<1>4. UNCHANGED card => (PinChanged => PinChanged')
  BY DEF PinChanged
<1>5. state = "Initial" => jobs = <<>>
  BY DEF ChangePinInv, OuterFits
<1>6. jobs # <<>>
  BY <1>1 DEF P!DropResult, P!Answered
<1>7. QED
  BY <1>2, <1>3, <1>4, <1>5, <1>6, StayKeeps
     DEF P!DropMoves, ChangePinInv, ChangeFits

(* The ReaderManager thread.                                               *)
LEMMA CommandHolds ==
  ASSUME ChangePinInv, Pace!ExecuteCommand
  PROVE  ChangePinInv'
<1>1. P!PaceInv /\ P!ExecuteCommand
  BY SameCommands DEF ChangePinInv
<1>2. P!PaceInv'
  BY <1>1, P!CommandKeeps, ConstantsAssumption, UiAssumption
<1>3. P!CommandMoves
  BY <1>1, P!CommandsMove, ConstantsAssumption, UiAssumption
<1>4. PinChanged => PinChanged'
  BY <1>3 DEF P!CommandMoves, PinChanged
<1>5. jobs # <<>> /\ jobs \in Seq(P!Jobs) /\ jobs' \in Seq(P!Jobs)
  BY <1>1, <1>2 DEF P!PaceInv, P!PaceTypeOK, P!ExecuteCommand,
     P!AuthenticationCommand, P!CreateCardConnection, P!UpdateRetryCounter,
     P!EstablishPacePin, P!EstablishPaceCan, P!UnblockPin, P!SetEidPin,
     P!DestroyPaceChannel, P!Pending
<1>6. state # "Initial"
  BY <1>5 DEF ChangePinInv, OuterFits
<1>7. ASSUME state = "ChangePin", NEW i \in 1 .. Len(jobs'), jobs'[i].heard
      PROVE  /\ jobs'[i].op = "SetEidPin"
             /\ \/ P!HasError(ctx)
                \/ jobs'[i].pw # NoPassword
                \/ ~P!IsBasic(jobs'[i].reader)
             /\ jobs'[i].result = "OK" => P!HasError(ctx) \/ PinChanged'
  <2>1. P!HeardBefore(i)
    BY <1>3, <1>7 DEF P!CommandMoves
  <2>2. jobs'[i].op # "CreateCardConnection"
    <3>1. state' = "ChangePin" /\ P!CallFits(state', jobs'[i].op)
      BY <1>2, <1>3, <1>7 DEF P!PaceInv, P!JobsFit, P!JobFits, P!CommandMoves
    <3>2. QED
      BY <3>1, StateNames DEF P!CallFits, OuterStates
  <2>3. /\ i \in 1 .. Len(jobs) /\ jobs[i].heard /\ jobs'[i].op = jobs[i].op
        /\ jobs'[i].reader = jobs[i].reader /\ jobs'[i].pw = jobs[i].pw
        /\ jobs'[i].result # jobs[i].result =>
             i = 1 /\ jobs[1].result = "PENDING"
    BY <1>7, <2>1, <2>2 DEF P!HeardBefore
  <2>4. /\ jobs[i].op = "SetEidPin"
        /\ \/ P!HasError(ctx)
           \/ jobs[i].pw # NoPassword
           \/ ~P!IsBasic(jobs[i].reader)
        /\ jobs[i].result = "OK" => P!HasError(ctx) \/ PinChanged
    BY <1>7, <2>3 DEF ChangePinInv, ChangeFits
  <2>5. ASSUME jobs'[i].result = "OK", jobs[i].result # "OK", ~P!HasError(ctx)
        PROVE  PinChanged'
    <3>1. /\ i = 1 /\ jobs[1].op = "SetEidPin" /\ jobs[1].result = "PENDING"
          /\ jobs'[1].result = "OK"
          /\ jobs[1].pw # NoPassword \/ ~P!IsBasic(jobs[1].reader)
      BY <2>3, <2>4, <2>5
    <3>2. \E c \in Cards : card'[c].changed
      BY <1>1, <1>5, <3>1, P!PinIsSet, ConstantsAssumption, UiAssumption
    <3>3. QED
      BY <3>2 DEF PinChanged
  <2>6. QED
    BY <1>4, <2>3, <2>4, <2>5
<1>8. QED
  BY <1>2, <1>3, <1>4, <1>6, <1>7, StayKeeps DEF P!CommandMoves

(* The readers, the cards and the user interface.                          *)
LEMMA EnvironmentHolds ==
  ASSUME ChangePinInv, Pace!Environment
  PROVE  ChangePinInv'
<1>1. P!PaceInv /\ P!Environment
  BY SameComposite DEF ChangePinInv
<1>2. P!PaceInv'
  BY <1>1, P!EnvironmentKeeps, ConstantsAssumption, UiAssumption
<1>3. P!EnvironmentMoves
  BY <1>1, P!EnvironmentsMove, ConstantsAssumption, UiAssumption
<1>4. CASE state' \in P!PaceStates
  BY <1>2, <1>4, InsideKeeps
<1>5. CASE state' \notin P!PaceStates
  <2>1. /\ UNCHANGED <<state, phase, cancelDue, card, jobs>> /\ P!ContextStays
    BY <1>3, <1>5 DEF P!EnvironmentMoves, P!PaceStates
  <2>2. PinChanged => PinChanged'
    BY <2>1 DEF PinChanged
  <2>3. QED
    BY <1>2, <2>1, <2>2, StayKeeps DEF ChangePinInv, ChangeFits
<1>6. QED
  BY <1>4, <1>5

(* fireAbort leads out of the composite, on towards the end, or back to    *)
(* the connection.                                                         *)
LEMMA Aborts ==
  ASSUME state \in States, state \notin {"Initial", "Done"}
  PROVE  LET t == AbortTarget[state]
         IN /\ t \in States \ {"Initial", "Done", "PrepareChangePin",
                               "EnterNewPacePin", "ChangePin", "DestroyPaceFinal"}
            /\ t \in P!PaceStates =>
                 t \in {"MaintainCardConnection", "ClearPacePasswordsOnError",
                        "DestroyPace"}
            /\ t = "DestroyPace" => state = "ClearPacePasswordsBeforeDestroy"
            /\ t = state => state \in {"FinalState", "Unreachable"}
            /\ t \in {"UpdateRetryCounterFinal", "CleanUpReaderManager",
                      "FinalState"} =>
                 state \in {"ClearPacePasswords", "UpdateRetryCounterFinal",
                            "CleanUpReaderManager", "FinalState"}
            /\ t = "UpdateRetryCounterFinal" => state = "ClearPacePasswords"
            /\ (t = "ClearPacePasswordsOnError" /\ state # "MaintainCardConnection")
                 => FALSE
  BY DEF AbortTarget, Pace!PaceAbortTarget, Pace!PaceStates, P!PaceStates, States,
         OuterStates

LEMMA CancelHolds ==
  ASSUME ChangePinInv, Quiet \/ phase = "waiting",
         state \notin {"Initial", "Done"},
         onUserCancelled(AbortTarget[state]),
         cancelDue' = cancelDue \/ cancelDue' = FALSE
  PROVE  ChangePinInv'
<1> DEFINE t == AbortTarget[state]
<1>1. P!PaceInv /\ P!onUserCancelled(t) /\ state \in States
  BY SameProtocol DEF ChangePinInv, OuterFits
<1>2. /\ state \notin {"ClearPacePasswords", "ClearPacePasswordsBeforeDestroy"}
      /\ phase = "waiting" => state \notin {"FinalState", "Unreachable"}
  BY UiAssumption, StateNames
     DEF Quiet, ChangePinInv, OuterFits, ControllerWaits, P!PaceInv, P!WaitFits,
         P!PaceStates, P!PaceWaits
<1>3. /\ t \in States \ {"Initial", "Done", "PrepareChangePin",
                         "EnterNewPacePin", "ChangePin", "DestroyPaceFinal"}
      /\ t \in P!PaceStates =>
           t \in {"MaintainCardConnection", "ClearPacePasswordsOnError"}
      /\ t = state => state \in {"FinalState", "Unreachable"}
      /\ t \in {"UpdateRetryCounterFinal", "CleanUpReaderManager",
                "FinalState"} =>
           state \in {"UpdateRetryCounterFinal", "CleanUpReaderManager",
                      "FinalState"}
      /\ t # "UpdateRetryCounterFinal"
  BY <1>1, <1>2, Aborts
<1> HIDE DEF t
<1>4. {"FinalState", "Unreachable"} \cap P!PaceStates = {}
  BY StateNames DEF OuterStates
<1>5. P!PaceInv' /\ P!HasError(ctx')
  BY <1>1, <1>3, <1>4, P!CancelKeeps, ConstantsAssumption, UiAssumption
<1>6. P!CancelMoves(t)
  BY <1>1, P!CancelsMove, ConstantsAssumption, UiAssumption
<1>7. /\ ctx'.pw = ctx.pw /\ phase \in {"entered", "waiting"}
      /\ IF t = state THEN UNCHANGED <<state, phase>>
                      ELSE state' = t /\ phase' = "entered"
  BY <1>1, <1>6 DEF P!CancelMoves, P!PaceInv, P!PaceTypeOK
<1>8. state' = t /\ phase' = "entered"
  BY <1>2, <1>3, <1>7
<1>9. PasswordsClearedAtEnd'
  BY <1>3, <1>7, <1>8 DEF ChangePinInv, PasswordsClearedAtEnd
<1>10. QED
  BY <1>3, <1>5, <1>8, <1>9, EnteredKeeps

LEMMA KillHolds ==
  ASSUME ChangePinInv, killWorkflow
  PROVE  ChangePinInv'
<1>1. P!PaceInv /\ P!killWorkflow
  BY SameProtocol DEF ChangePinInv
<1>2. P!PaceInv' /\ P!HasError(ctx')
  BY <1>1, P!KillKeeps, ConstantsAssumption, UiAssumption
<1>3. /\ UNCHANGED <<state, phase, jobs, card>>
      /\ cancelDue' = (state # "Initial")
      /\ ctx' = [ctx EXCEPT !.killed = TRUE,
                            !.status = "Card_Cancellation_By_User"]
  BY <1>1 DEF P!killWorkflow
<1>4. ctx'.pw = ctx.pw /\ ctx'.conn = ctx.conn
  BY <1>1, <1>3 DEF P!PaceInv, P!PaceTypeOK, P!Contexts
<1>5. OuterFits'
  BY <1>3, <1>4 DEF ChangePinInv, OuterFits, P!HasConnection
<1>6. ChangeFits'
  BY <1>2, <1>3 DEF ChangePinInv, ChangeFits, PinChanged
<1>7. PasswordsClearedAtEnd'
  BY <1>3, <1>4 DEF ChangePinInv, PasswordsClearedAtEnd
<1>8. QED
  BY <1>2, <1>5, <1>6, <1>7 DEF ChangePinInv

LEMMA StepHolds ==
  ASSUME ChangePinInv, Step
  PROVE  ChangePinInv'
<1>1. CASE CancelKilled(AbortTarget[state])
  <2>1. /\ cancelDue /\ cancelDue' = FALSE
        /\ phase = "waiting" \/ state = "Done"
        /\ IF state = "Done"
             THEN UNCHANGED <<state, phase, ctx, jobs, reader, card, spent>>
             ELSE onUserCancelled(AbortTarget[state])
    BY <1>1 DEF CancelKilled
  <2>2. CASE state = "Done"
    <3>1. UNCHANGED <<state, phase, ctx, jobs, reader, card, spent>>
      BY <2>1, <2>2
    <3>2. P!PaceInv'
      BY <2>1, <2>2, <3>1, P!RestKeeps, StateNames, ConstantsAssumption,
         UiAssumption DEF ChangePinInv
    <3>3. OuterFits' /\ ChangeFits' /\ PasswordsClearedAtEnd'
      BY <2>2, <3>1 DEF ChangePinInv, OuterFits, ChangeFits, Finishing, PinChanged,
         PasswordsClearedAtEnd, P!HasError
    <3>4. QED
      BY <3>2, <3>3 DEF ChangePinInv
  <2>3. CASE state # "Done"
    <3>1. state # "Initial"
      BY <2>1, <2>3 DEF ChangePinInv, OuterFits
    <3>2. QED
      BY <2>1, <2>3, <3>1, CancelHolds
  <2>4. QED
    BY <2>2, <2>3
<1>2. QED
  BY <1>1, StartHolds, PaceHolds, PrepareHolds, EnterNewPinHolds, ChangePinHolds,
     ChangePinDoneHolds, DestroyHolds, ClearHolds, UpdateHolds, FinalHolds,
     DropHolds DEF Step

LEMMA StutterHolds ==
  ASSUME ChangePinInv, UNCHANGED vars
  PROVE  ChangePinInv'
<1>1. P!PaceInv'
  BY P!RestKeeps, ConstantsAssumption, UiAssumption DEF vars, ChangePinInv
<1>2. OuterFits' /\ ChangeFits' /\ PasswordsClearedAtEnd'
  BY DEF vars, ChangePinInv, OuterFits, ChangeFits, PinChanged,
         PasswordsClearedAtEnd, P!HasError, P!HasConnection
<1>3. QED
  BY <1>1, <1>2 DEF ChangePinInv

LEMMA NextHolds == ChangePinInv /\ [Next]_vars => ChangePinInv'
<1> SUFFICES ASSUME ChangePinInv, [Next]_vars PROVE ChangePinInv'
  OBVIOUS
<1>1. CASE Step
  BY <1>1, StepHolds
<1>2. CASE Pace!ExecuteCommand
  BY <1>2, CommandHolds
<1>3. CASE Pace!Environment
  BY <1>3, EnvironmentHolds
<1>4. CASE fireCancelWorkflow(AbortTarget[state])
  BY <1>4, CancelHolds DEF fireCancelWorkflow
<1>5. CASE killWorkflow
  BY <1>5, KillHolds
<1>6. CASE Terminated \/ UNCHANGED vars
  BY <1>6, StutterHolds DEF Terminated
<1>7. QED
  BY <1>1, <1>2, <1>3, <1>4, <1>5, <1>6 DEF Next

(***************************************************************************)
(* The inductive invariant holds in every state of every PIN change:       *)
(* through wrong PINs, cards that come and go, cancels and kills.          *)
(***************************************************************************)
THEOREM Invariant == Spec => []ChangePinInv
  BY InitHolds, NextHolds, PTL DEF Spec

(***************************************************************************)
(* The members of the WorkflowContext keep their types, and the count of   *)
(* WorkflowContext::isNpaRepositioningRequired never passes its limit.     *)
(***************************************************************************)
THEOREM TypeCorrect == Spec => []TypeOK
<1>1. P!PaceTypeOK /\ state \in States => TypeOK
  BY DEF P!PaceTypeOK, TypeOK, Contexts, P!Contexts, PasswordKinds,
         P!PasswordKinds, Passwords, P!Passwords, PaceTypes, P!PaceTypes,
         Counters, P!Counters, Connections, P!Connections, Codes, P!Codes,
         equalsWrongPacePassword, P!equalsWrongPacePassword, Unrecoverable,
         P!Unrecoverable, CardVanished, P!CardVanished, Statuses, P!Statuses,
         toGlobalStatus, P!toGlobalStatus, Jobs, P!Jobs, Operations,
         P!Operations, Sessions, P!Sessions, P!ReaderStates, P!CardRecords
<1>2. ChangePinInv => TypeOK
  BY <1>1 DEF ChangePinInv, OuterFits, P!PaceInv
<1>3. QED
  BY <1>2, Invariant, PTL

(***************************************************************************)
(* StateDestroyPace and StateChangePin find the connection they assert,    *)
(* although cards vanish and connections are dropped on the way to them.   *)
(***************************************************************************)
THEOREM ConnectionStands == Spec => []ConnectionWhereAsserted
<1>1. ChangePinInv => ConnectionWhereAsserted
  BY DEF ChangePinInv, OuterFits, P!PaceInv, P!ContextFits, P!ConnectionFits,
         ConnectionWhereAsserted, HasConnection, P!HasConnection, NoConnection,
         P!NoConnection
<1>2. QED
  BY <1>1, Invariant, PTL

(***************************************************************************)
(* No typed password outlives StateClearPacePasswords, whichever error,    *)
(* cancel or kill ended the workflow (the assertions of ~WorkflowContext). *)
(***************************************************************************)
THEOREM PasswordsCleared == Spec => []PasswordsClearedAtEnd
<1>1. ChangePinInv => PasswordsClearedAtEnd
  BY DEF ChangePinInv
<1>2. QED
  BY <1>1, Invariant, PTL

(***************************************************************************)
(* A workflow that ends without an error has changed the PIN of a card:    *)
(* no path ends it silently, and SetEidPin never succeeds without a PIN.   *)
(***************************************************************************)
THEOREM SuccessIsTrue == Spec => []SuccessMeansChanged
<1>1. ChangePinInv => SuccessMeansChanged
  BY DEF ChangePinInv, ChangeFits, Finishing, PinChanged, SuccessMeansChanged,
         HasError, P!HasError
<1>2. QED
  BY <1>1, Invariant, PTL

(***************************************************************************)
(* StateVerifyRetryCounter and StatePreparePace know the retry counter     *)
(* they assert, unless a reading has failed or the card's PIN is switched  *)
(* off since the card was connected (doubted): a card taken away makes it  *)
(* unknown too, but is noticed before.                                     *)
(***************************************************************************)
THEOREM CounterIsKnown == Spec => []CounterKnown
<1>1. ASSUME ChangePinInv, state \in {"VerifyRetryCounter", "PreparePace"},
             HasConnection(ctx), ~ctx.doubted
      PROVE  ctx.conn.counter # -1
  <2>1. P!HasConnection(ctx)
    BY <1>1 DEF HasConnection, P!HasConnection, NoConnection, P!NoConnection
  <2>2. /\ ctx.conn.counter = reader[ctx.conn.reader].counter
        /\ ~P!Doubtful(reader[ctx.conn.reader].card, ctx.conn.counter)
    BY <1>1, <2>1 DEF ChangePinInv, P!PaceInv, P!ContextFits, P!InfoFits
  <2>3. reader[ctx.conn.reader].card # NoCard
    BY <1>1, <2>1 DEF ChangePinInv, P!PaceInv, P!ContextFits, P!CardFits
  <2>4. QED
    BY <2>2, <2>3 DEF P!Doubtful
<1>2. ChangePinInv => CounterKnown
  BY <1>1 DEF CounterKnown
<1>3. QED
  BY <1>2, Invariant, PTL

-----------------------------------------------------------------------------
(***************************************************************************)
(* The password fits the counter: the states between the channel and the   *)
(* new PIN belong to those in which the channel stands.                    *)
(***************************************************************************)
StandingStates == {"PrepareChangePin", "EnterNewPacePin", "ChangePin"}

PinInv == ChangePinInv /\ P!PasswordInv(StandingStates)

LEMMA Standing ==
  /\ StandingStates \cap P!PaceStates = {}
  /\ {"ClearPacePasswords", "Unreachable"} \cap StandingStates = {}
  /\ ({"DestroyPaceFinal", "UpdateRetryCounterFinal", "CleanUpReaderManager",
       "FinalState", "Done"} \cap (P!PaceStates \cup StandingStates)) = {}
  BY DEF StandingStates, P!PaceStates

(* What the states of the controller that look at no counter ask for.      *)
LEMMA StandsOn ==
  ASSUME NEW s \in StandingStates, NEW t \in StandingStates, NEW c, NEW d, NEW js,
         P!EntryFits(StandingStates, s, c, js), d.conn = c.conn,
         d.status = c.status, d.doubted = c.doubted
  PROVE  P!EntryFits(StandingStates, t, d, js)
<1>1. /\ P!HasConnection(c) <=> P!HasConnection(d)
      /\ P!HasError(c) <=> P!HasError(d)
  BY DEF P!HasConnection, P!HasError
<1>2. /\ P!IsCalm(StandingStates, s, c) /\ P!IsCalm(StandingStates, t, d)
      /\ t \notin {"VerifyRetryCounter", "PreparePace", "EnterPacePassword",
                   "EstablishPaceChannel", "MaintainCardConnection",
                   "ClearPacePasswordsBeforeDestroy", "DestroyPace"}
  BY DEF P!IsCalm, StandingStates
<1>3. QED
  BY <1>1, <1>2 DEF P!EntryFits

LEMMA InitFits == Init => P!PasswordInv(StandingStates)
<1> SUFFICES ASSUME Init PROVE P!PasswordInv(StandingStates)
  OBVIOUS
<1>1. jobs = <<>> /\ phase = "entered" /\ ~P!HasConnection(ctx)
  BY InitHolds DEF Init, ChangePinInv, OuterFits
<1>2. P!PasswordsFirst /\ P!PasswordHeard /\ P!OldestFits
  BY <1>1 DEF P!PasswordsFirst, P!PasswordHeard, P!OldestFits
<1>3. P!ChoiceFits(StandingStates)
  BY <1>1 DEF P!ChoiceFits, P!EntryFits
<1>4. QED
  BY <1>2, <1>3 DEF P!PasswordInv

(* Their only command is SetEidPin.                                        *)
LEMMA NothingDestroyed ==
  ASSUME ChangePinInv
  PROVE  P!NoDestroyIn(StandingStates)
<1> SUFFICES ASSUME state \in StandingStates, jobs # <<>>, jobs[1].heard
             PROVE  jobs[1].op # "DestroyPaceChannel"
  BY DEF P!NoDestroyIn
<1>1. jobs \in Seq(P!Jobs) /\ 1 \in 1 .. Len(jobs)
  BY DEF ChangePinInv, P!PaceInv, P!PaceTypeOK
<1>2. phase = "waiting"
  BY <1>1 DEF ChangePinInv, P!PaceInv, P!JobsFit, P!JobFits
<1>3. state = "ChangePin"
  BY <1>2, Standing DEF ChangePinInv, OuterFits, ControllerWaits, StandingStates
<1>4. QED
  BY <1>1, <1>3 DEF ChangePinInv, ChangeFits

(***************************************************************************)
(* The steps of the controller's own states.                               *)
(***************************************************************************)
LEMMA PrepareChangeFits ==
  ASSUME PinInv, ChangePinInv', StatePrepareChangePin \/ StateEnterNewPacePin
  PROVE  P!PasswordInv(StandingStates)'
<1>1. /\ P!PaceInv /\ P!PaceInv' /\ P!PasswordInv(StandingStates)
      /\ ctx \in P!Contexts
  BY DEF PinInv, ChangePinInv, P!PaceInv, P!PaceTypeOK
<1>2. state \in {"PrepareChangePin", "EnterNewPacePin"} /\ phase = "entered"
  BY DEF StatePrepareChangePin, StateEnterNewPacePin, Run
<1>3. PICK t \in StandingStates :
        P!Go(t, ctx) \/ \E p : P!Go(t, [ctx EXCEPT !.pw["newPin"] = p])
  BY SameProtocol
     DEF StatePrepareChangePin, StateEnterNewPacePin, StandingStates
<1>4. PICK c : /\ P!Go(t, c) /\ c.conn = ctx.conn /\ c.status = ctx.status
               /\ c.doubted = ctx.doubted
  <2>1. \A p : LET c == [ctx EXCEPT !.pw["newPin"] = p]
               IN /\ c.conn = ctx.conn /\ c.status = ctx.status
                  /\ c.doubted = ctx.doubted
    BY <1>1 DEF P!Contexts
  <2>2. QED
    BY <1>3, <2>1
<1>5. P!EntryFits(StandingStates, state, ctx, jobs) /\ state \in StandingStates
  BY <1>1, <1>2 DEF P!PasswordInv, P!ChoiceFits, StandingStates
<1>6. P!EntryFits(StandingStates, t, c, jobs)
  BY <1>4, <1>5, StandsOn
<1>7. P!HasError(ctx) => P!HasError(c)
  BY <1>4 DEF P!HasError
<1>8. QED
  BY <1>1, <1>2, <1>4, <1>6, <1>7, P!GoFits, ConstantsAssumption, UiAssumption

LEMMA SetEidPinFits ==
  ASSUME PinInv, ChangePinInv', StateChangePin
  PROVE  P!PasswordInv(StandingStates)'
<1> DEFINE pw == ctx.pw["newPin"]
           r == ctx.conn.reader
<1>1. /\ P!PaceInv /\ P!PaceInv' /\ P!PasswordInv(StandingStates)
      /\ P!HasConnection(ctx) /\ phase = "entered" /\ ctx \in P!Contexts
      /\ P!Call("SetEidPin", r, "UNKNOWN", pw)
  BY SameProtocol DEF StateChangePin, P!Run, PinInv, ChangePinInv, OuterFits,
     P!PaceInv, P!PaceTypeOK
<1>2. /\ r \in Readers /\ pw \in P!Passwords
      /\ "SetEidPin" \in P!Operations /\ "UNKNOWN" \in P!PaceTypes
      /\ "SetEidPin" \notin P!PasswordCommands
  <2>1. ctx.pw \in [P!PasswordKinds -> P!Passwords]
    BY <1>1, P!ContextTypes, ConstantsAssumption, UiAssumption
  <2>2. r \in Readers
    BY <1>1 DEF P!PaceInv, P!ContextFits, P!ConnectionFits, P!HasConnection
  <2>3. QED
    BY <2>1, <2>2
       DEF P!PasswordKinds, P!Operations, P!PaceTypes, P!PasswordCommands
<1> HIDE DEF pw, r
<1>3. QED
  BY <1>1, <1>2, P!CallsFit, ConstantsAssumption, UiAssumption

(* After onSetEidPinDone the workflow ends, or the connection is looked at *)
(* again; the queue is empty, because SetEidPin was the only command.      *)
LEMMA ChangePinDoneFits ==
  ASSUME PinInv, ChangePinInv', ChangePinDone
  PROVE  P!PasswordInv(StandingStates)'
<1>1. /\ P!PaceInv /\ P!PaceInv' /\ P!PasswordInv(StandingStates)
      /\ P!Heard("ChangePin")
      /\ state = "ChangePin" /\ jobs # <<>> /\ jobs[1].heard
      /\ jobs \in Seq(P!Jobs) /\ phase = "waiting" /\ Result \in P!Codes
      /\ ctx \in P!Contexts /\ P!HasConnection(ctx)
  <2>1. P!Heard("ChangePin") /\ P!PaceInv /\ Result = P!Result
    BY SameProtocol DEF ChangePinDone, PinInv, ChangePinInv, Result, P!Result
  <2>2. /\ state = "ChangePin" /\ jobs # <<>> /\ jobs[1].heard
        /\ jobs \in Seq(P!Jobs) /\ 1 \in 1 .. Len(jobs) /\ Result \in P!Codes
    BY <2>1, P!HeardFacts, ConstantsAssumption, UiAssumption
       DEF P!Heard, P!PaceInv, P!PaceTypeOK
  <2>3. phase = "waiting"
    BY <2>1, <2>2 DEF P!PaceInv, P!JobsFit, P!JobFits
  <2>4. QED
    BY <2>1, <2>2, <2>3
       DEF PinInv, ChangePinInv, OuterFits, P!PaceInv, P!PaceTypeOK
<1>2. jobs[1].op = "SetEidPin"
  BY <1>1 DEF PinInv, ChangePinInv, ChangeFits
<1> DEFINE c == [ctx EXCEPT !.last = Result]
           failed == P!updateStatus(c, P!toGlobalStatus[Result])
<1>3. /\ c \in P!Contexts /\ c.conn = ctx.conn /\ c.status = ctx.status
      /\ c.last = Result /\ c.doubted = ctx.doubted
  BY <1>1 DEF P!Contexts
<1>0. /\ failed.doubted = ctx.doubted
      /\ P!HasError(ctx) => P!HasError(failed) /\ P!HasError(c)
  <2>1. P!toGlobalStatus[Result] \in P!Statuses
    BY <1>1, P!StatusTypes, ConstantsAssumption, UiAssumption
  <2>2. P!HasError(ctx) => P!HasError(c)
    BY <1>3 DEF P!HasError
  <2> HIDE DEF c
  <2>3. QED
    BY <1>3, <2>1, <2>2, P!UpdateStatusKeeps, ConstantsAssumption, UiAssumption
<1>4. Result \notin {"OK", "OK_PUK"} => P!HasError(failed)
  <2>1. /\ P!toGlobalStatus[Result] \in P!Statuses
        /\ P!toGlobalStatus[Result] = "No_Error" <=> Result \in {"OK", "OK_PUK"}
    BY <1>1, P!StatusTypes, ConstantsAssumption, UiAssumption
  <2>2. QED
    BY <1>3, <2>1, P!UpdateStatusKeeps, ConstantsAssumption, UiAssumption
<1>5. \/ P!Return("DestroyPaceFinal", c)
      \/ /\ Result \notin {"OK", "OK_PUK"}
         /\ P!Return("MaintainCardConnection", failed)
      \/ P!Return("ClearPacePasswords", failed)
      \/ Result # "OK" /\ P!Return("MaintainCardConnection", c)
  <2>1. failed = updateStatus(c, toGlobalStatus[Result])
    BY DEF updateStatus, P!updateStatus, toGlobalStatus, P!toGlobalStatus
  <2>2. QED
    BY <2>1, SameProtocol DEF ChangePinDone
<1> HIDE DEF c, failed
<1>6. PICK t \in {"DestroyPaceFinal", "ClearPacePasswords",
                  "MaintainCardConnection"}, d \in {c, failed} :
        /\ P!Return(t, d)
        /\ t = "MaintainCardConnection" =>
             P!HasError(d) \/ (d = c /\ Result # "OK")
  BY <1>4, <1>5
<1>7. CASE t # "MaintainCardConnection" \/ P!HasError(d)
  <2>1. P!EntryFits(StandingStates, t, d, Tail(jobs))
    BY <1>6, <1>7, Standing, StateNames, P!NothingToFit, ConstantsAssumption,
       UiAssumption DEF OuterStates, StandingStates
  <2>2. QED
    BY <1>0, <1>1, <1>3, <1>6, <2>1, P!ReturnFits, ConstantsAssumption, UiAssumption
<1>8. CASE t = "MaintainCardConnection" /\ d = c /\ Result # "OK" /\ ~P!HasError(c)
  <2>1. ~P!HasError(ctx) /\ P!IsCalm(StandingStates, state, ctx)
    BY <1>1, <1>3, <1>8 DEF P!HasError, P!IsCalm, StandingStates
  <2>2. ASSUME ~ctx.doubted
        PROVE  /\ Len(jobs) = 1
               /\ P!Alive(ctx.conn.reader) =>
                    ((ctx.conn.paceCan /\ P!CounterIn(ctx.conn.reader) = 1)
                       => reader[ctx.conn.reader].session = "can")
    BY <1>1, <1>2, <2>1, <2>2 DEF P!PasswordInv, P!ChoiceFits, P!WaitingFits
  <2>3. ~ctx.doubted => Len(Tail(jobs)) = 0
    BY <1>1, <2>2, P!OnlyCommand, ConstantsAssumption, UiAssumption
  <2>4. P!EntryFits(StandingStates, t, d, Tail(jobs))
    BY <1>3, <1>8, <2>2, <2>3 DEF P!EntryFits
  <2>5. QED
    BY <1>0, <1>1, <1>3, <1>6, <2>4, P!ReturnFits, ConstantsAssumption, UiAssumption
<1>9. QED
  BY <1>6, <1>7, <1>8

(* On the way to the end no password is sent any more.                     *)
LEMMA EndFits ==
  ASSUME PinInv, ChangePinInv',
         \/ Pace!StateDestroyPace("DestroyPaceFinal")
         \/ Pace!DestroyPaceDone("DestroyPaceFinal", "ClearPacePasswords")
         \/ Pace!StateClearPacePasswords("ClearPacePasswords",
                                         "UpdateRetryCounterFinal")
         \/ Pace!StateUpdateRetryCounter("UpdateRetryCounterFinal",
                                         "CleanUpReaderManager")
         \/ Pace!UpdateRetryCounterDone("UpdateRetryCounterFinal",
                                        "CleanUpReaderManager",
                                        "CleanUpReaderManager")
         \/ Pace!StateCleanUpReaderManager("FinalState")
         \/ StateFinal
  PROVE  P!PasswordInv(StandingStates)'
<1>1. /\ P!PaceInv /\ P!PaceInv' /\ P!PasswordInv(StandingStates)
      /\ StandingStates \cap P!PaceStates = {}
      /\ \A t \in {"ClearPacePasswords", "UpdateRetryCounterFinal",
                   "CleanUpReaderManager", "Done"} :
           t \notin P!PaceStates \cup StandingStates
  BY Standing, StateNames DEF PinInv, ChangePinInv, OuterStates
<1>2. CASE \/ Pace!StateDestroyPace("DestroyPaceFinal")
           \/ Pace!DestroyPaceDone("DestroyPaceFinal", "ClearPacePasswords")
  <2>1. \/ P!StateDestroyPace("DestroyPaceFinal")
        \/ P!DestroyPaceDone("DestroyPaceFinal", "ClearPacePasswords")
    BY <1>2, SameComposite
  <2>2. QED
    BY <1>1, <2>1, P!DestroyFits, P!DestroyDoneFits, ConstantsAssumption,
       UiAssumption
<1>3. CASE Pace!StateClearPacePasswords("ClearPacePasswords",
                                        "UpdateRetryCounterFinal")
  <2>1. P!StateClearPacePasswords("ClearPacePasswords", "UpdateRetryCounterFinal")
    BY <1>3, SameComposite
  <2>2. QED
    BY <1>1, <2>1, P!ClearFits, ConstantsAssumption, UiAssumption
<1>4. CASE \/ Pace!StateUpdateRetryCounter("UpdateRetryCounterFinal",
                                           "CleanUpReaderManager")
           \/ Pace!UpdateRetryCounterDone("UpdateRetryCounterFinal",
                                          "CleanUpReaderManager",
                                          "CleanUpReaderManager")
  <2>1. \/ P!StateUpdateRetryCounter("UpdateRetryCounterFinal",
                                     "CleanUpReaderManager")
        \/ P!UpdateRetryCounterDone("UpdateRetryCounterFinal",
                                    "CleanUpReaderManager",
                                    "CleanUpReaderManager")
    BY <1>4, SameComposite
  <2>2. QED
    BY <1>1, <2>1, P!UpdateFits, P!UpdateDoneFits, ConstantsAssumption,
       UiAssumption
<1>5. CASE Pace!StateCleanUpReaderManager("FinalState")
  <2>1. P!StateCleanUpReaderManager("FinalState")
    BY <1>5, SameComposite
  <2>2. QED
    BY <1>1, <2>1, P!CleanUpFits, ConstantsAssumption, UiAssumption
<1>6. CASE StateFinal
  <2>1. phase = "entered" /\ P!Go("Done", ctx)
    BY <1>6, SameProtocol DEF StateFinal, P!Run
  <2>2. P!EntryFits(StandingStates, "Done", ctx, jobs)
    BY <1>1, P!NothingToFit, ConstantsAssumption, UiAssumption
  <2>3. QED
    BY <1>1, <2>1, <2>2, P!GoFits, ConstantsAssumption, UiAssumption
<1>7. QED
  BY <1>2, <1>3, <1>4, <1>5, <1>6

(***************************************************************************)
(* A cancelled workflow has an error and sends no password any more.       *)
(***************************************************************************)
LEMMA CancelledFails ==
  ASSUME PinInv, NEW t, onUserCancelled(t)
  PROVE  P!HasError(ctx')
<1>1. P!onUserCancelled(t) /\ ctx \in P!Contexts
  BY SameProtocol DEF PinInv, ChangePinInv, P!PaceInv, P!PaceTypeOK
<1>2. P!HasError(P!updateStatus(ctx, "Workflow_Cancellation_By_User"))
  BY <1>1 DEF P!updateStatus, P!HasError, P!Contexts
<1>3. P!updateStatus(ctx, "Workflow_Cancellation_By_User") \in
        {ctx, [ctx EXCEPT !.status = "Workflow_Cancellation_By_User"]}
  BY DEF P!updateStatus
<1>4. P!CancelledContext.status
        = P!updateStatus(ctx, "Workflow_Cancellation_By_User").status
  BY <1>1, <1>3 DEF P!CancelledContext, P!Contexts
<1>5. QED
  BY <1>1, <1>2, <1>4 DEF P!onUserCancelled, P!Main, P!HasError

LEMMA CancelFitsToo ==
  ASSUME PinInv, NEW t, onUserCancelled(t)
  PROVE  P!PasswordInv(StandingStates)'
<1>1. /\ P!PaceInv /\ P!PasswordInv(StandingStates) /\ P!onUserCancelled(t)
      /\ P!HasError(ctx')
  BY SameProtocol, CancelledFails DEF PinInv, ChangePinInv
<1>2. QED
  BY <1>1, Standing, P!CancelFits, ConstantsAssumption, UiAssumption

LEMMA RestFits ==
  ASSUME P!PasswordInv(StandingStates),
         UNCHANGED <<state, phase, ctx, jobs, reader, card>>
  PROVE  P!PasswordInv(StandingStates)'
<1>1. P!PasswordsFirst' /\ P!PasswordHeard'
  BY DEF P!PasswordInv, P!PasswordsFirst, P!PasswordHeard, P!HasError
<1>2. P!OldestFits'
  BY DEF P!PasswordInv, P!OldestFits, P!CommandFits, P!Alive, P!CardIn, P!CounterIn
<1>3. P!ChoiceFits(StandingStates)'
  BY DEF P!PasswordInv, P!ChoiceFits, P!EntryFits, P!WaitingFits, P!HasConnection,
         P!HasError, P!IsCalm, P!Alive, P!CardIn, P!CounterIn
<1>4. QED
  BY <1>1, <1>2, <1>3 DEF P!PasswordInv

LEMMA PinStepFits ==
  ASSUME PinInv, ChangePinInv', P!PinWanted, Step
  PROVE  P!PasswordInv(StandingStates)'
<1>1. P!PaceInv /\ P!PaceInv' /\ P!PasswordInv(StandingStates)
  BY DEF PinInv, ChangePinInv
<1>2. CASE StartMachine("MaintainCardConnection")
  <2>1. /\ P!StartMachine("MaintainCardConnection")
        /\ ~P!HasConnection(ctx) /\ jobs = <<>>
    BY <1>2, SameProtocol DEF P!StartMachine, PinInv, ChangePinInv, OuterFits
  <2>2. QED
    BY <1>1, <2>1, Standing, P!StartFits, ConstantsAssumption, UiAssumption
<1>3. CASE Pace!PaceStep
  <2>1. P!PaceStep
    BY <1>3, SameComposite
  <2>2. QED
    BY <1>1, <2>1, Standing, Exits, P!PaceStepFits, ConstantsAssumption,
       UiAssumption
<1>4. CASE DropResult
  <2>1. P!DropResult
    BY <1>4, SameProtocol
  <2>2. QED
    BY <1>1, <2>1, Standing, P!DropFits, ConstantsAssumption, UiAssumption
<1>5. CASE CancelKilled(AbortTarget[state])
  BY <1>1, <1>5, CancelFitsToo, RestFits DEF CancelKilled
<1>6. QED
  BY <1>2, <1>3, <1>4, <1>5, PrepareChangeFits, SetEidPinFits, ChangePinDoneFits,
     EndFits DEF Step

LEMMA PinHolds ==
  ASSUME P!PinWanted
  PROVE  PinInv /\ [Next]_vars => PinInv'
<1> SUFFICES ASSUME PinInv, [Next]_vars PROVE PinInv'
  OBVIOUS
<1>1. ChangePinInv'
  BY NextHolds DEF PinInv
<1>2. /\ P!PaceInv /\ P!PaceInv' /\ P!PasswordInv(StandingStates)
      /\ StandingStates \cap P!PaceStates = {}
  BY <1>1, Standing DEF PinInv, ChangePinInv
<1>3. CASE Step
  BY <1>1, <1>3, PinStepFits DEF PinInv
<1>4. CASE Pace!ExecuteCommand
  <2>1. P!ExecuteCommand /\ P!NoDestroyIn(StandingStates)
    BY <1>4, SameCommands, NothingDestroyed DEF PinInv
  <2>2. QED
    BY <1>1, <1>2, <2>1, P!CommandsFit, ConstantsAssumption, UiAssumption
       DEF PinInv
<1>5. CASE Pace!Environment
  <2>1. P!Environment
    BY <1>5, SameComposite
  <2>2. QED
    BY <1>1, <1>2, <2>1, P!EnvironmentFits, ConstantsAssumption, UiAssumption
       DEF PinInv
<1>6. CASE fireCancelWorkflow(AbortTarget[state])
  BY <1>1, <1>6, CancelFitsToo DEF fireCancelWorkflow, PinInv
<1>7. CASE killWorkflow
  <2>1. P!killWorkflow /\ UNCHANGED <<jobs, reader, card>>
    BY <1>7, SameProtocol DEF killWorkflow
  <2>2. P!HasError(ctx') /\ ctx'.doubted = ctx.doubted
    BY <1>2, <2>1, P!KillKeeps, ConstantsAssumption, UiAssumption
  <2>3. QED
    BY <1>1, <1>2, <2>1, <2>2, P!KillFits, ConstantsAssumption, UiAssumption
       DEF PinInv
<1>8. CASE Terminated \/ UNCHANGED vars
  BY <1>1, <1>2, <1>8, RestFits DEF Terminated, vars, PinInv
<1>9. QED
  BY <1>3, <1>4, <1>5, <1>6, <1>7, <1>8 DEF Next

(***************************************************************************)
(* The password StatePreparePace chose fits the card when the command      *)
(* reaches it: the PIN is sent to a card with tries left, the last of them *)
(* behind the CAN, and the PUK to a blocked one, through cards that come   *)
(* and go, lost answers and wrong PINs between the choice and the command. *)
(* Left out is a connection whose card's counter could not be read, or     *)
(* whose PIN is switched off (doubted).                                    *)
(***************************************************************************)
THEOREM PasswordFits == Spec => []PasswordFitsCounter
<1>1. P!PinWanted
  BY DEF P!PinWanted
<1>2. Init => PinInv
  BY InitHolds, InitFits DEF PinInv
<1>3. PinInv /\ [Next]_vars => PinInv'
  BY <1>1, PinHolds
<1>4. ASSUME PinInv, ~ctx.doubted, jobs # <<>>, Pace!Alive(jobs[1].reader),
             jobs[1].result = "PENDING"
      PROVE  LET n == card[Pace!CardIn(jobs[1].reader)].counter
             IN /\ (jobs[1].op = "EstablishPaceChannel" /\ jobs[1].type = "PACE_PIN")
                     => n > 0 /\ (n = 1 => reader[jobs[1].reader].session = "can")
                /\ jobs[1].op = "UnblockPin" => n = 0
  <2>1. P!CommandFits(jobs[1]) /\ P!Alive(jobs[1].reader)
    BY <1>4 DEF PinInv, P!PasswordInv, P!OldestFits, Pace!Alive, P!Alive,
       Pace!CardIn, P!CardIn
  <2>2. card[Pace!CardIn(jobs[1].reader)].counter = P!CounterIn(jobs[1].reader)
    BY DEF P!CounterIn, Pace!CardIn, P!CardIn
  <2>3. QED
    BY <1>4, <2>1, <2>2 DEF P!CommandFits
<1>5. PinInv => PasswordFitsCounter
  <2>1. PinInv /\ jobs # <<>> => Head(jobs) = jobs[1]
    BY DEF PinInv, ChangePinInv, P!PaceInv, P!PaceTypeOK
  <2>2. QED
    BY <1>4, <2>1 DEF PasswordFitsCounter, Pace!Pending, Pace!R
<1>6. QED
  BY <1>2, <1>3, <1>5, PTL DEF Spec

-----------------------------------------------------------------------------
(***************************************************************************)
(* A typed PIN costs one try.                                              *)
(***************************************************************************)
TryFits == PinInv /\ P!TryInv

LEMMA NotAsking ==
  /\ (StandingStates \cup OuterStates \cup {"Initial", "Done", "Unreachable"})
       \cap P!AskingStates = {}
  /\ "MaintainCardConnection" \notin P!AskingStates
  BY DEF StandingStates, OuterStates, P!AskingStates

LEMMA InitTries == Init => P!TryInv
<1> SUFFICES ASSUME Init PROVE P!TryInv
  OBVIOUS
<1>1. /\ jobs = <<>> /\ phase = "entered" /\ ctx.pw["pin"] = NoPassword
      /\ \A r \in Readers : reader[r].card = NoCard
  BY DEF Init, InitialContext, PasswordKinds
<1>2. P!TypedFits /\ P!SpentFits /\ P!OneReader
  BY <1>1 DEF P!TypedFits, P!SpentFits, P!OneReader, P!CardIn
<1>3. P!AskedFits(state, ctx)
  BY NotAsking, P!NothingAsked, ConstantsAssumption, UiAssumption DEF Init
<1>4. QED
  BY <1>1, <1>2, <1>3 DEF P!TryInv

(* The controller's own states keep the PIN or forget it, and ask nothing  *)
(* of the expected counter.                                                *)
LEMMA PrepareChangeTries ==
  ASSUME TryFits, ChangePinInv', StatePrepareChangePin \/ StateEnterNewPacePin
  PROVE  P!TryInv'
<1>1. /\ P!PaceInv /\ P!PaceInv' /\ P!PasswordsFirst /\ P!TryInv
      /\ ctx \in P!Contexts
  BY DEF TryFits, PinInv, ChangePinInv, P!PaceInv, P!PaceTypeOK, P!PasswordInv
<1>2. PICK t \in StandingStates :
        P!Go(t, ctx) \/ \E p : P!Go(t, [ctx EXCEPT !.pw["newPin"] = p])
  BY SameProtocol
     DEF StatePrepareChangePin, StateEnterNewPacePin, StandingStates
<1>3. PICK c : /\ P!Go(t, c) /\ c.status = ctx.status
               /\ c.pw["pin"] = ctx.pw["pin"]
               /\ c.expectedCounter = ctx.expectedCounter
               /\ c.doubted = ctx.doubted
  <2>1. ASSUME NEW p
        PROVE  LET d == [ctx EXCEPT !.pw["newPin"] = p]
               IN /\ d.pw = [ctx.pw EXCEPT !["newPin"] = p]
                  /\ d.status = ctx.status
                  /\ d.expectedCounter = ctx.expectedCounter
                  /\ d.doubted = ctx.doubted
    BY <1>1 DEF P!Contexts
  <2>2. ASSUME NEW p
        PROVE  [ctx.pw EXCEPT !["newPin"] = p]["pin"] = ctx.pw["pin"]
    <3>1. ctx.pw \in [P!PasswordKinds -> P!Passwords]
      BY <1>1, P!ContextTypes, ConstantsAssumption, UiAssumption
    <3>2. QED
      BY <3>1 DEF P!PasswordKinds
  <2>3. QED
    BY <1>2, <2>1, <2>2
<1>4. P!PinKept(c)
  <2>1. ctx.expectedCounter \in P!Counters
    BY <1>1, P!ContextTypes, ConstantsAssumption, UiAssumption
  <2>2. QED
    BY <1>3, <2>1 DEF P!PinKept, P!HasError, P!Counters
<1>5. P!AskedFits(t, c)
  <2>1. t \notin P!AskingStates
    BY NotAsking
  <2>2. QED
    BY <2>1, P!NothingAsked, ConstantsAssumption, UiAssumption
<1>6. QED
  BY <1>1, <1>3, <1>4, <1>5, P!GoTries, ConstantsAssumption, UiAssumption

LEMMA SetEidPinTries ==
  ASSUME TryFits, ChangePinInv', StateChangePin
  PROVE  P!TryInv'
<1> DEFINE pw == ctx.pw["newPin"]
           r == ctx.conn.reader
<1>1. /\ P!PaceInv /\ P!PaceInv' /\ P!PasswordInv(StandingStates) /\ P!TryInv
      /\ P!HasConnection(ctx) /\ phase = "entered" /\ state = "ChangePin"
      /\ ctx \in P!Contexts /\ P!Call("SetEidPin", r, "UNKNOWN", pw)
  BY SameProtocol DEF StateChangePin, P!Run, TryFits, PinInv, ChangePinInv,
     OuterFits, P!PaceInv, P!PaceTypeOK
<1>2. /\ r \in Readers /\ pw \in P!Passwords
      /\ "SetEidPin" \in P!Operations /\ "UNKNOWN" \in P!PaceTypes
  <2>1. ctx.pw \in [P!PasswordKinds -> P!Passwords]
    BY <1>1, P!ContextTypes, ConstantsAssumption, UiAssumption
  <2>2. r \in Readers
    BY <1>1 DEF P!PaceInv, P!ContextFits, P!ConnectionFits, P!HasConnection
  <2>3. QED
    BY <2>1, <2>2 DEF P!PasswordKinds, P!Operations, P!PaceTypes
<1> HIDE DEF pw, r
<1>3. state \notin P!AskingStates
  BY <1>1, NotAsking DEF StandingStates
<1>4. QED
  BY <1>1, <1>2, <1>3, P!CallTries, ConstantsAssumption, UiAssumption

LEMMA ChangePinDoneTries ==
  ASSUME TryFits, ChangePinInv', ChangePinDone
  PROVE  P!TryInv'
<1>1. /\ P!PaceInv /\ P!PaceInv' /\ P!PasswordsFirst /\ P!TryInv
      /\ jobs # <<>> /\ Result \in P!Codes /\ ctx \in P!Contexts
  <2>1. P!Heard("ChangePin") /\ P!PaceInv /\ Result = P!Result
    BY SameProtocol
       DEF ChangePinDone, TryFits, PinInv, ChangePinInv, Result, P!Result
  <2>2. jobs # <<>> /\ Result \in P!Codes
    BY <2>1, P!HeardFacts, ConstantsAssumption, UiAssumption
  <2>3. QED
    BY <2>1, <2>2
       DEF TryFits, PinInv, ChangePinInv, P!PaceInv, P!PaceTypeOK, P!PasswordInv
<1> DEFINE c == [ctx EXCEPT !.last = Result]
           failed == P!updateStatus(c, P!toGlobalStatus[Result])
<1>2. /\ c \in P!Contexts /\ c.pw = ctx.pw /\ c.status = ctx.status
      /\ c.expectedCounter = ctx.expectedCounter /\ c.doubted = ctx.doubted
  BY <1>1 DEF P!Contexts
<1>3. /\ failed.pw = ctx.pw /\ failed.expectedCounter = ctx.expectedCounter
      /\ failed.doubted = ctx.doubted
      /\ P!HasError(ctx) => P!HasError(failed)
  <2>1. P!toGlobalStatus[Result] \in P!Statuses
    BY <1>1, P!StatusTypes, ConstantsAssumption, UiAssumption
  <2>2. P!HasError(ctx) => P!HasError(c)
    BY <1>2 DEF P!HasError
  <2> HIDE DEF c
  <2>3. QED
    BY <1>2, <2>1, <2>2, P!UpdateStatusKeeps, ConstantsAssumption, UiAssumption
<1>4. PICK t \in {"DestroyPaceFinal", "ClearPacePasswords",
                  "MaintainCardConnection"}, d \in {c, failed} : P!Return(t, d)
  <2>1. failed = updateStatus(c, toGlobalStatus[Result])
    BY DEF updateStatus, P!updateStatus, toGlobalStatus, P!toGlobalStatus
  <2>2. \E t \in {"DestroyPaceFinal", "ClearPacePasswords",
                  "MaintainCardConnection"}, d \in {c, failed} : Return(t, d)
    BY <2>1 DEF ChangePinDone
  <2>3. QED
    BY <2>2, SameProtocol
<1> HIDE DEF c, failed
<1>5. P!PinKept(d)
  <2>1. ctx.expectedCounter \in P!Counters
    BY <1>1, P!ContextTypes, ConstantsAssumption, UiAssumption
  <2>2. QED
    BY <1>2, <1>3, <2>1 DEF P!PinKept, P!HasError, P!Counters
<1>6. P!AskedFits(t, d)
  <2>1. t \notin P!AskingStates
    BY NotAsking DEF OuterStates
  <2>2. QED
    BY <2>1, P!NothingAsked, ConstantsAssumption, UiAssumption
<1>7. QED
  BY <1>1, <1>4, <1>5, <1>6, P!GoTries, ConstantsAssumption, UiAssumption

LEMMA EndTries ==
  ASSUME TryFits, ChangePinInv',
         \/ Pace!StateDestroyPace("DestroyPaceFinal")
         \/ Pace!DestroyPaceDone("DestroyPaceFinal", "ClearPacePasswords")
         \/ Pace!StateClearPacePasswords("ClearPacePasswords",
                                         "UpdateRetryCounterFinal")
         \/ Pace!StateUpdateRetryCounter("UpdateRetryCounterFinal",
                                         "CleanUpReaderManager")
         \/ Pace!UpdateRetryCounterDone("UpdateRetryCounterFinal",
                                        "CleanUpReaderManager",
                                        "CleanUpReaderManager")
         \/ Pace!StateCleanUpReaderManager("FinalState")
         \/ StateFinal
  PROVE  P!TryInv'
<1>1. /\ P!PaceInv /\ P!PaceInv' /\ P!PasswordInv(StandingStates) /\ P!TryInv
      /\ P!PasswordsFirst
      /\ \A t \in {"DestroyPaceFinal", "ClearPacePasswords",
                   "UpdateRetryCounterFinal", "CleanUpReaderManager",
                   "FinalState", "Done"} : t \notin P!AskingStates
  BY NotAsking DEF TryFits, PinInv, ChangePinInv, OuterStates, P!PasswordInv
<1>2. CASE \/ Pace!StateDestroyPace("DestroyPaceFinal")
           \/ Pace!StateUpdateRetryCounter("UpdateRetryCounterFinal",
                                           "CleanUpReaderManager")
  <2>1. \/ P!StateDestroyPace("DestroyPaceFinal")
        \/ P!StateUpdateRetryCounter("UpdateRetryCounterFinal",
                                     "CleanUpReaderManager")
    BY <1>2, SameComposite
  <2>2. {"DestroyPaceFinal", "UpdateRetryCounterFinal", "CleanUpReaderManager"}
          \cap P!AskingStates = {}
    BY <1>1
  <2>3. QED
    BY <1>1, <2>1, <2>2, P!UpdateTries, ConstantsAssumption, UiAssumption
<1>3. CASE \/ Pace!DestroyPaceDone("DestroyPaceFinal", "ClearPacePasswords")
           \/ Pace!UpdateRetryCounterDone("UpdateRetryCounterFinal",
                                          "CleanUpReaderManager",
                                          "CleanUpReaderManager")
  <2>1. \/ P!DestroyPaceDone("DestroyPaceFinal", "ClearPacePasswords")
        \/ P!UpdateRetryCounterDone("UpdateRetryCounterFinal",
                                    "CleanUpReaderManager",
                                    "CleanUpReaderManager")
    BY <1>3, SameComposite
  <2>2. QED
    BY <1>1, <2>1, P!UpdateDoneTries, ConstantsAssumption, UiAssumption
<1>4. CASE Pace!StateClearPacePasswords("ClearPacePasswords",
                                        "UpdateRetryCounterFinal")
  <2>1. P!StateClearPacePasswords("ClearPacePasswords", "UpdateRetryCounterFinal")
    BY <1>4, SameComposite
  <2>2. QED
    BY <1>1, <2>1, P!ClearTries, ConstantsAssumption, UiAssumption
<1>5. CASE Pace!StateCleanUpReaderManager("FinalState")
  <2>1. P!StateCleanUpReaderManager("FinalState")
    BY <1>5, SameComposite
  <2>2. QED
    BY <1>1, <2>1, P!UnfortunateTries, ConstantsAssumption, UiAssumption
<1>6. CASE StateFinal
  <2>1. P!Go("Done", ctx)
    BY <1>6, SameProtocol DEF StateFinal
  <2>2. P!PinKept(ctx)
    BY <1>1, P!PinStays, ConstantsAssumption, UiAssumption
  <2>3. P!AskedFits("Done", ctx)
    BY <1>1, P!NothingAsked, ConstantsAssumption, UiAssumption
  <2>4. QED
    BY <1>1, <2>1, <2>2, <2>3, P!GoTries, ConstantsAssumption, UiAssumption
<1>7. QED
  BY <1>2, <1>3, <1>4, <1>5, <1>6

LEMMA CancelTriesToo ==
  ASSUME TryFits, ChangePinInv', NEW t, onUserCancelled(t)
  PROVE  P!TryInv'
<1>1. /\ P!PaceInv /\ P!PaceInv' /\ P!PasswordsFirst /\ P!TryInv
      /\ P!onUserCancelled(t) /\ ctx \in P!Contexts
  BY SameProtocol
     DEF TryFits, PinInv, ChangePinInv, P!PaceInv, P!PaceTypeOK, P!PasswordInv
<1>2. P!HasError(ctx')
  BY CancelledFails DEF TryFits
<1>3. QED
  BY <1>1, <1>2, P!CancelTries, ConstantsAssumption, UiAssumption

LEMMA RestTries ==
  ASSUME P!TryInv, UNCHANGED <<state, phase, ctx, jobs, reader, card, spent>>
  PROVE  P!TryInv'
<1>1. P!TypedFits' /\ P!SpentFits' /\ P!OneReader'
  BY DEF P!TryInv, P!TypedFits, P!SpentFits, P!OneReader, P!HasError, P!Alive,
         P!CardIn
<1>2. (phase = "entered" => P!AskedFits(state, ctx))'
  BY DEF P!TryInv, P!AskedFits, P!HasError, P!HasConnection, P!Alive, P!CounterIn,
         P!CardIn
<1>3. (phase = "waiting" => P!WaitedFits)'
  BY DEF P!TryInv, P!WaitedFits, P!HasError, P!HasConnection, P!Alive,
         P!CounterIn, P!CardIn
<1>4. QED
  BY <1>1, <1>2, <1>3 DEF P!TryInv

LEMMA StepTries ==
  ASSUME TryFits, ChangePinInv', P!PinWanted, Step
  PROVE  P!TryInv'
<1>1. /\ P!PaceInv /\ P!PaceInv' /\ P!PasswordInv(StandingStates) /\ P!TryInv
  BY DEF TryFits, PinInv, ChangePinInv
<1>2. CASE StartMachine("MaintainCardConnection")
  <2>1. /\ state' \notin P!AskingStates
        /\ UNCHANGED <<ctx, jobs, reader, card, spent>>
    BY <1>2, NotAsking DEF StartMachine
  <2>2. QED
    BY <1>1, <2>1, P!WaitTries, ConstantsAssumption, UiAssumption
<1>3. CASE Pace!PaceStep
  <2>1. P!PaceStep
    BY <1>3, SameComposite
  <2>2. QED
    BY <1>1, <2>1, Exits, P!PaceStepTries, ConstantsAssumption, UiAssumption
<1>4. CASE DropResult
  <2>1. P!DropResult
    BY <1>4, SameProtocol
  <2>2. QED
    BY <1>1, <2>1, P!DropTries, ConstantsAssumption, UiAssumption
<1>5. CASE CancelKilled(AbortTarget[state])
  BY <1>1, <1>5, CancelTriesToo, RestTries DEF CancelKilled
<1>6. QED
  BY <1>2, <1>3, <1>4, <1>5, PrepareChangeTries, SetEidPinTries,
     ChangePinDoneTries, EndTries DEF Step

LEMMA TriesHold ==
  ASSUME P!PinWanted
  PROVE  TryFits /\ [Next]_vars => TryFits'
<1> SUFFICES ASSUME TryFits, [Next]_vars PROVE TryFits'
  OBVIOUS
<1>1. PinInv' /\ ChangePinInv'
  BY PinHolds DEF TryFits, PinInv
<1>2. /\ P!PaceInv /\ P!PaceInv' /\ P!PasswordInv(StandingStates) /\ P!TryInv
      /\ P!PasswordsFirst
  BY <1>1 DEF TryFits, PinInv, ChangePinInv, P!PasswordInv
<1>3. CASE Step
  BY <1>1, <1>3, StepTries DEF TryFits
<1>4. CASE Pace!ExecuteCommand
  <2>1. P!ExecuteCommand
    BY <1>4, SameCommands
  <2>2. QED
    BY <1>1, <1>2, <2>1, P!CommandsTry, ConstantsAssumption, UiAssumption
       DEF TryFits
<1>5. CASE Pace!Environment
  <2>1. P!Environment
    BY <1>5, SameComposite
  <2>2. QED
    BY <1>1, <1>2, <2>1, P!EnvironmentTries, ConstantsAssumption, UiAssumption
       DEF TryFits
<1>6. CASE fireCancelWorkflow(AbortTarget[state])
  BY <1>1, <1>6, CancelTriesToo DEF fireCancelWorkflow, TryFits
<1>7. CASE killWorkflow
  <2>1. P!killWorkflow /\ UNCHANGED <<jobs, reader, card, spent>>
    BY <1>7, SameProtocol DEF killWorkflow
  <2>2. P!HasError(ctx') /\ ctx'.doubted = ctx.doubted
    BY <1>2, <2>1, P!KillKeeps, ConstantsAssumption, UiAssumption
  <2>3. QED
    BY <1>1, <1>2, <2>1, <2>2, P!KillTries, ConstantsAssumption, UiAssumption
       DEF TryFits
<1>8. CASE Terminated \/ UNCHANGED vars
  BY <1>1, <1>2, <1>8, RestTries DEF Terminated, vars, TryFits
<1>9. QED
  BY <1>3, <1>4, <1>5, <1>6, <1>7, <1>8 DEF Next

(* Only the ReaderManager's commands write to a card.                      *)
LEMMA CardsWritten ==
  ASSUME ChangePinInv, [Next]_vars, ~Pace!ExecuteCommand
  PROVE  UNCHANGED card
<1>1. P!PaceInv
  BY DEF ChangePinInv
<1>2. CASE Pace!PaceStep
  <2>1. P!PaceStep
    BY <1>2, SameComposite
  <2>2. QED
    BY <1>1, <2>1, P!PaceStepMoves, ConstantsAssumption, UiAssumption DEF P!Moves
<1>3. CASE Pace!Environment
  <2>1. P!Environment
    BY <1>3, SameComposite
  <2>2. QED
    BY <1>1, <2>1, P!EnvironmentsMove, ConstantsAssumption, UiAssumption
       DEF P!EnvironmentMoves
<1>4. CASE \/ Pace!StateDestroyPace("DestroyPaceFinal")
           \/ Pace!DestroyPaceDone("DestroyPaceFinal", "ClearPacePasswords")
           \/ Pace!StateClearPacePasswords("ClearPacePasswords",
                                           "UpdateRetryCounterFinal")
           \/ Pace!StateUpdateRetryCounter("UpdateRetryCounterFinal",
                                           "CleanUpReaderManager")
           \/ Pace!UpdateRetryCounterDone("UpdateRetryCounterFinal",
                                          "CleanUpReaderManager",
                                          "CleanUpReaderManager")
           \/ Pace!StateCleanUpReaderManager("FinalState")
  BY <1>4
     DEF Pace!StateDestroyPace, Pace!DestroyPaceDone, Pace!StateClearPacePasswords,
         Pace!StateUpdateRetryCounter, Pace!UpdateRetryCounterDone,
         Pace!StateCleanUpReaderManager, Pace!Go, Pace!Return, Pace!Call, Pace!Main
<1>5. CASE \/ StatePrepareChangePin \/ StateEnterNewPacePin \/ StateChangePin
           \/ ChangePinDone \/ StateFinal \/ DropResult
  BY <1>5
     DEF StatePrepareChangePin, StateEnterNewPacePin, StateChangePin,
         ChangePinDone, StateFinal, DropResult, Go, Return, Call, Main
<1>6. CASE \/ StartMachine("MaintainCardConnection") \/ CancelKilled(AbortTarget[state])
           \/ fireCancelWorkflow(AbortTarget[state]) \/ killWorkflow
           \/ Terminated \/ UNCHANGED vars
  BY <1>6
     DEF StartMachine, CancelKilled, fireCancelWorkflow, onUserCancelled, Main,
         killWorkflow, Terminated, vars
<1>7. QED
  BY <1>2, <1>3, <1>4, <1>5, <1>6 DEF Next, Step

(***************************************************************************)
(* A PIN that was typed once costs a card at most one of its tries: the    *)
(* PIN that a broken connection or a lost answer leaves in the context is  *)
(* dropped before it reaches the card again.  Left out are the tries lost  *)
(* in a connection whose card's counter could not be read, or whose PIN is *)
(* switched off (doubted); they do not weaken what is said of the others.  *)
(***************************************************************************)
THEOREM OneTry == Spec => OneTryPerTypedPin
<1>1. P!PinWanted
  BY DEF P!PinWanted
<1>2. Init => TryFits
  BY InitHolds, InitFits, InitTries DEF TryFits, PinInv
<1>3. TryFits /\ [Next]_vars => TryFits'
  BY <1>1, TriesHold
<1>4. ASSUME TryFits, [Next]_vars, NEW c \in Cards,
             card'[c].counter < card[c].counter,
             NEW r \in Readers, Pace!CardIn(r) = c, IsBasic(r)
      PROVE  c \notin spent \/ ctx.doubted
  <2>1. P!PaceInv /\ P!TryInv /\ ChangePinInv
    BY <1>4 DEF TryFits, PinInv, ChangePinInv
  <2>2. CASE Pace!ExecuteCommand
    <3>1. P!ExecuteCommand /\ P!CardIn(r) = c /\ P!IsBasic(r)
      BY <1>4, <2>2, SameCommands DEF Pace!CardIn, P!CardIn, IsBasic, P!IsBasic
    <3>2. QED
      BY <1>4, <2>1, <3>1, P!TriesLost, ConstantsAssumption, UiAssumption
  <2>3. CASE ~Pace!ExecuteCommand
    <3>1. card'[c] = card[c] /\ card[c].counter \in 0 .. 3
      BY <1>4, <2>1, <2>3, CardsWritten DEF P!PaceInv, P!PaceTypeOK, P!CardRecords
    <3>2. QED
      BY <1>4, <3>1
  <2>4. QED
    BY <2>2, <2>3
<1>5. TryFits /\ [Next]_vars =>
        [\A c \in Cards :
           (/\ card'[c].counter < card[c].counter
            /\ \E r \in Readers : Pace!CardIn(r) = c /\ IsBasic(r))
             => c \notin spent \/ ctx.doubted]_vars
  BY <1>4
<1>6. QED
  BY <1>2, <1>3, <1>5, PTL DEF Spec, OneTryPerTypedPin

-----------------------------------------------------------------------------
(***************************************************************************)
(* The refinement: every step of the controller is a step of Workflow, or  *)
(* leaves its life as it is.                                               *)
(***************************************************************************)
LifecycleStep == [Lifecycle!Next]_<<LifecycleStage, ctx.killed>>

(* Between its first state and FinalState.                                 *)
Runs(s, p) == /\ s \notin {"Initial", "FinalState", "Done"}
              /\ ~(s = "MaintainCardConnection" /\ p = "waiting")

LEMMA KeepsRunning ==
  ASSUME ctx'.killed = ctx.killed, Runs(state, phase), Runs(state', phase')
  PROVE  LifecycleStep
<1>1. LifecycleStage = "running" /\ LifecycleStage' = "running"
  BY DEF Runs, LifecycleStage
<1>2. QED
  BY <1>1 DEF LifecycleStep

LEMMA StaysThere ==
  ASSUME ctx'.killed = ctx.killed, UNCHANGED <<state, phase>>
  PROVE  LifecycleStep
  BY DEF LifecycleStep, LifecycleStage

LEMMA Finishes ==
  ASSUME ctx'.killed = ctx.killed, ctx.killed \in BOOLEAN, Runs(state, phase),
         state' = "FinalState"
  PROVE  LifecycleStep
<1>1. /\ LifecycleStage = "running"
      /\ LifecycleStage' = IF ctx.killed THEN "done" ELSE "final"
  BY DEF Runs, LifecycleStage
<1>2. QED
  BY <1>1 DEF LifecycleStep, Lifecycle!Next, Lifecycle!Finish

LEMMA StartRefines ==
  ASSUME StartMachine("MaintainCardConnection")
  PROVE  LifecycleStep
<1>1. /\ state = "Initial" /\ state' = "MaintainCardConnection"
      /\ phase' = (IF ctx.killed THEN "waiting" ELSE "entered") /\ ctx' = ctx
  BY DEF StartMachine
<1>2. /\ LifecycleStage = "initial"
      /\ LifecycleStage' = IF ctx.killed THEN "deaf" ELSE "running"
  BY <1>1 DEF LifecycleStage
<1>3. QED
  BY <1>1, <1>2 DEF LifecycleStep, Lifecycle!Next, Lifecycle!Start

LEMMA PaceRefines ==
  ASSUME ChangePinInv, Pace!PaceStep
  PROVE  LifecycleStep
<1>1. P!Moves
  BY SameComposite, P!PaceStepMoves, ConstantsAssumption, UiAssumption
     DEF ChangePinInv
<1>2. Runs(state, phase) /\ Runs(state', phase')
  BY <1>1, StateNames DEF P!Moves, P!Leaves, Runs, P!PaceStates
<1>3. QED
  BY <1>1, <1>2, KeepsRunning DEF P!Moves

(* The controller's own states, up to FinalState.                          *)
LEMMA ControllerRefines ==
  ASSUME ChangePinInv,
         \/ StatePrepareChangePin \/ StateEnterNewPacePin
         \/ StateChangePin \/ ChangePinDone
         \/ Pace!StateDestroyPace("DestroyPaceFinal")
         \/ Pace!DestroyPaceDone("DestroyPaceFinal", "ClearPacePasswords")
         \/ Pace!StateClearPacePasswords("ClearPacePasswords",
                                         "UpdateRetryCounterFinal")
         \/ Pace!StateUpdateRetryCounter("UpdateRetryCounterFinal",
                                         "CleanUpReaderManager")
         \/ Pace!UpdateRetryCounterDone("UpdateRetryCounterFinal",
                                        "CleanUpReaderManager",
                                        "CleanUpReaderManager")
  PROVE  LifecycleStep
<1> DEFINE outer == {"PrepareChangePin", "EnterNewPacePin", "ChangePin",
                     "DestroyPaceFinal", "ClearPacePasswords",
                     "UpdateRetryCounterFinal", "CleanUpReaderManager"}
<1>1. ctx \in P!Contexts
  BY DEF ChangePinInv, P!PaceInv, P!PaceTypeOK
<1>2. CASE StatePrepareChangePin
  <2>1. state \in outer /\ state' \in outer /\ ctx' = ctx
    BY <1>2 DEF StatePrepareChangePin, Run, Go, Enter, Main
  <2>2. QED
    BY <2>1, KeepsRunning DEF Runs
<1>3. CASE StateEnterNewPacePin
  <2>1. PICK p : Go("ChangePin", [ctx EXCEPT !.pw["newPin"] = p])
    BY <1>3 DEF StateEnterNewPacePin
  <2>2. /\ state \in outer /\ state' \in outer
        /\ ctx' = [ctx EXCEPT !.pw["newPin"] = p]
    BY <1>3, <2>1 DEF StateEnterNewPacePin, Run, Go, Enter, Main
  <2>3. ctx'.killed = ctx.killed
    BY <1>1, <2>2 DEF P!Contexts
  <2>4. QED
    BY <2>2, <2>3, KeepsRunning DEF Runs
<1>4. CASE StateChangePin
  <2>1. state \in outer /\ state' \in outer /\ ctx' = ctx
    BY <1>4 DEF StateChangePin, Run, Call, Main
  <2>2. QED
    BY <2>1, KeepsRunning DEF Runs
<1>5. CASE ChangePinDone
  <2> DEFINE c == [ctx EXCEPT !.last = Result]
             failed == updateStatus(c, toGlobalStatus[Result])
  <2>1. /\ state \in outer /\ phase' = "entered"
        /\ state' \in outer \cup {"MaintainCardConnection"}
        /\ ctx' \in {c, failed}
    BY <1>5 DEF ChangePinDone, Heard, Return, Enter, Main
  <2>2. c.killed = ctx.killed /\ failed.killed = ctx.killed
                              /\ c.doubted = ctx.doubted
    BY <1>1 DEF P!Contexts, updateStatus
  <2>3. ctx'.killed = ctx.killed
    BY <2>1, <2>2
  <2>4. QED
    BY <2>1, <2>3, KeepsRunning DEF Runs
<1>6. CASE \/ Pace!StateDestroyPace("DestroyPaceFinal")
           \/ Pace!DestroyPaceDone("DestroyPaceFinal", "ClearPacePasswords")
  <2>1. state \in outer /\ state' \in outer /\ ctx' = ctx
    BY <1>6, SameComposite
       DEF P!StateDestroyPace, P!DestroyPaceDone, P!Run, P!Heard, P!Call, P!Return,
           P!Enter, P!Main
  <2>2. QED
    BY <2>1, KeepsRunning DEF Runs
<1>7. CASE Pace!StateClearPacePasswords("ClearPacePasswords",
                                        "UpdateRetryCounterFinal")
  <2>1. /\ state \in outer /\ state' \in outer
        /\ ctx' = P!resetPacePasswords(ctx)
    BY <1>7, SameComposite
       DEF P!StateClearPacePasswords, P!Run, P!Go, P!Enter, P!Main
  <2>2. ctx'.killed = ctx.killed
    BY <1>1, <2>1 DEF P!resetPacePasswords, P!Contexts
  <2>3. QED
    BY <2>1, <2>2, KeepsRunning DEF Runs
<1>8. CASE \/ Pace!StateUpdateRetryCounter("UpdateRetryCounterFinal",
                                           "CleanUpReaderManager")
           \/ Pace!UpdateRetryCounterDone("UpdateRetryCounterFinal",
                                          "CleanUpReaderManager",
                                          "CleanUpReaderManager")
  <2>1. /\ state \in outer /\ state' \in outer
        /\ ctx' = ctx \/ ctx' = [ctx EXCEPT !.conn = P!NoConnection]
    BY <1>8, SameComposite
       DEF P!StateUpdateRetryCounter, P!UpdateRetryCounterDone, P!Run, P!Heard,
           P!Go, P!Call, P!Return, P!Enter, P!Main
  <2>2. ctx'.killed = ctx.killed
    BY <1>1, <2>1 DEF P!Contexts
  <2>3. QED
    BY <2>1, <2>2, KeepsRunning DEF Runs
<1>9. QED
  BY <1>2, <1>3, <1>4, <1>5, <1>6, <1>7, <1>8

(* FinalState is entered, and left.                                        *)
LEMMA FinalRefines ==
  ASSUME ChangePinInv,
         Pace!StateCleanUpReaderManager("FinalState") \/ StateFinal
  PROVE  LifecycleStep
<1>1. ctx \in P!Contexts /\ ctx.killed \in BOOLEAN
  BY DEF ChangePinInv, P!PaceInv, P!PaceTypeOK, P!Contexts
<1>2. CASE Pace!StateCleanUpReaderManager("FinalState")
  <2>1. /\ state = "CleanUpReaderManager" /\ state' = "FinalState"
        /\ ctx' = [ctx EXCEPT !.conn = P!NoConnection]
    BY <1>2, SameComposite
       DEF P!StateCleanUpReaderManager, P!Run, P!Go, P!Enter, P!Main
  <2>2. ctx'.killed = ctx.killed
    BY <1>1, <2>1 DEF P!Contexts
  <2>3. QED
    BY <1>1, <2>1, <2>2, Finishes DEF Runs
<1>3. CASE StateFinal
  <2>1. state = "FinalState" /\ state' = "Done" /\ ctx' = ctx
    BY <1>3 DEF StateFinal, Run, Go, Enter, Main
  <2>2. /\ LifecycleStage = IF ctx.killed THEN "done" ELSE "final"
        /\ LifecycleStage' = "done"
    BY <1>1, <2>1 DEF LifecycleStage
  <2>3. QED
    BY <2>1, <2>2 DEF LifecycleStep, Lifecycle!Next, Lifecycle!Leave
<1>4. QED
  BY <1>2, <1>3

(* A cancel frees a deaf machine, and may skip the last clean-up.          *)
LEMMA CancelRefines ==
  ASSUME ChangePinInv, state \notin {"Initial", "Done"},
         onUserCancelled(AbortTarget[state])
  PROVE  LifecycleStep
<1> DEFINE t == AbortTarget[state]
<1>1. P!PaceInv /\ P!onUserCancelled(t) /\ state \in States
  BY SameProtocol DEF ChangePinInv, OuterFits
<1>2. ctx'.killed = ctx.killed /\ ctx.killed \in BOOLEAN
                              
  BY <1>1, P!CancelsMove, ConstantsAssumption, UiAssumption
     DEF P!CancelMoves, P!PaceInv, P!PaceTypeOK, P!Contexts
<1>3. IF t = state THEN UNCHANGED <<state, phase>>
                   ELSE state' = t /\ phase' = "entered"
  BY <1>1, P!CancelsMove, ConstantsAssumption, UiAssumption DEF P!CancelMoves
<1>4. /\ t \notin {"Initial", "Done"}
      /\ t = state => state \in {"FinalState", "Unreachable"}
      /\ t = "FinalState" => state \in {"CleanUpReaderManager", "FinalState"}
      /\ state = "FinalState" => t = state
  BY <1>1 DEF AbortTarget, Pace!PaceAbortTarget, Pace!PaceStates, States,
              OuterStates
<1> HIDE DEF t
<1>5. CASE t = state
  BY <1>2, <1>3, <1>5, StaysThere
<1>6. CASE t # state /\ state = "CleanUpReaderManager" /\ t = "FinalState"
  BY <1>2, <1>3, <1>6, Finishes DEF Runs
<1>7. CASE t # state /\ t # "FinalState" /\ Runs(state, phase)
  BY <1>2, <1>3, <1>4, <1>7, KeepsRunning DEF Runs
<1>8. CASE /\ t # state /\ t # "FinalState"
           /\ state = "MaintainCardConnection" /\ phase = "waiting"
  <2>1. LifecycleStage = "deaf" /\ LifecycleStage' = "running"
    BY <1>3, <1>4, <1>8 DEF LifecycleStage
  <2>2. QED
    BY <1>2, <2>1 DEF LifecycleStep, Lifecycle!Next, Lifecycle!Cancel
<1>9. QED
  BY <1>4, <1>5, <1>6, <1>7, <1>8 DEF Runs

LEMMA KillRefines ==
  ASSUME ChangePinInv, killWorkflow
  PROVE  LifecycleStep
<1>1. /\ UNCHANGED <<state, phase>> /\ ~ctx.killed /\ state # "Done"
      /\ state = "Initial" => EarlyKill
      /\ ctx' = [ctx EXCEPT !.killed = TRUE,
                            !.status = "Card_Cancellation_By_User"]
  BY DEF killWorkflow
<1>2. ctx'.killed = TRUE
  BY <1>1 DEF ChangePinInv, P!PaceInv, P!PaceTypeOK, P!Contexts
<1>3. ~(state = "MaintainCardConnection" /\ phase = "waiting")
  BY <1>1 DEF ChangePinInv, P!PaceInv, P!WaitFits, P!PaceStates, P!PaceWaits
<1>4. LifecycleStage = (CASE state = "Initial" -> "initial"
                          [] state = "FinalState" -> "final"
                          [] OTHER -> "running")
  BY <1>1, <1>3 DEF LifecycleStage
<1>5. LifecycleStage' = (CASE state = "Initial" -> "initial"
                           [] state = "FinalState" -> "done"
                           [] OTHER -> "running")
  BY <1>1, <1>2, <1>3 DEF LifecycleStage
<1>6. QED
  BY <1>1, <1>2, <1>4, <1>5
     DEF LifecycleStep, Lifecycle!Next, Lifecycle!Kill, Lifecycle!AfterKill

(* The thread, the readers and the commands no state listens to.           *)
LEMMA AroundRefines ==
  ASSUME ChangePinInv,
         Pace!ExecuteCommand \/ Pace!Environment \/ DropResult
  PROVE  LifecycleStep
<1>1. P!PaceInv
  BY DEF ChangePinInv
<1>2. CASE Pace!ExecuteCommand
  <2>1. P!ExecuteCommand
    BY <1>2, SameCommands
  <2>2. P!CommandMoves
    BY <1>1, <2>1, P!CommandsMove, ConstantsAssumption, UiAssumption
  <2>3. QED
    BY <2>2, StaysThere DEF P!CommandMoves, P!ContextStays
<1>3. CASE Pace!Environment
  <2>1. P!Environment
    BY <1>3, SameComposite
  <2>2. P!EnvironmentMoves
    BY <1>1, <2>1, P!EnvironmentsMove, ConstantsAssumption, UiAssumption
  <2>3. CASE UNCHANGED <<state, phase>>
    BY <2>2, <2>3, StaysThere DEF P!EnvironmentMoves
  <2>4. CASE ~UNCHANGED <<state, phase>>
    <3>1. /\ state \in {"SelectReader", "ConnectCard"} /\ phase' = "entered"
          /\ state' \in {"SelectReader", "ConnectCard", "MaintainCardConnection"}
          /\ ctx'.killed = ctx.killed
         
      BY <2>2, <2>4 DEF P!EnvironmentMoves
    <3>2. QED
      BY <3>1, KeepsRunning DEF Runs
  <2>5. QED
    BY <2>3, <2>4
<1>4. CASE DropResult
  <2>1. P!DropResult
    BY <1>4, SameProtocol
  <2>2. P!DropMoves
    BY <1>1, <2>1, P!DropsMove, ConstantsAssumption, UiAssumption
  <2>3. QED
    BY <2>2, StaysThere DEF P!DropMoves, P!ContextStays
<1>5. QED
  BY <1>2, <1>3, <1>4

(* The cancel that follows a kill.                                         *)
LEMMA CancelKilledRefines ==
  ASSUME ChangePinInv, CancelKilled(AbortTarget[state])
  PROVE  LifecycleStep
<1>1. /\ cancelDue /\ (phase = "waiting" \/ state = "Done")
      /\ IF state = "Done"
           THEN UNCHANGED <<state, phase, ctx, jobs, reader, card, spent>>
           ELSE onUserCancelled(AbortTarget[state])
  BY DEF CancelKilled
<1>2. CASE state = "Done"
  BY <1>1, <1>2, StaysThere
<1>3. CASE state # "Done"
  <2>1. state # "Initial"
    BY <1>1, <1>3 DEF ChangePinInv, OuterFits
  <2>2. QED
    BY <1>1, <1>3, <2>1, CancelRefines
<1>4. QED
  BY <1>2, <1>3

LEMMA StepRefines == ChangePinInv /\ [Next]_vars => LifecycleStep
<1> SUFFICES ASSUME ChangePinInv, [Next]_vars PROVE LifecycleStep
  OBVIOUS
<1>1. CASE Step
  BY <1>1, StartRefines, PaceRefines, ControllerRefines, FinalRefines,
     AroundRefines, CancelKilledRefines DEF Step
<1>2. CASE Pace!ExecuteCommand \/ Pace!Environment
  BY <1>2, AroundRefines
<1>3. CASE fireCancelWorkflow(AbortTarget[state])
  BY <1>3, CancelRefines DEF fireCancelWorkflow
<1>4. CASE killWorkflow
  BY <1>4, KillRefines
<1>5. CASE Terminated \/ UNCHANGED vars
  BY <1>5, StaysThere DEF Terminated, vars
<1>6. QED
  BY <1>1, <1>2, <1>3, <1>4, <1>5 DEF Next

(***************************************************************************)
(* The PIN change implements the life of a workflow the AppController is   *)
(* built on: it starts once, shows its result once, is done only after     *)
(* that, and a kill or a cancel never moves it backwards.                  *)
(***************************************************************************)
THEOREM Implements == Spec => ImplementsWorkflow
<1>1. Init => Lifecycle!Init
  BY DEF Init, InitialContext, Lifecycle!Init, LifecycleStage
<1>2. ChangePinInv /\ [Next]_vars => [Lifecycle!Next]_<<LifecycleStage, ctx.killed>>
  BY StepRefines DEF LifecycleStep
<1>3. QED
  BY <1>1, <1>2, Invariant, PTL DEF Spec, ImplementsWorkflow, Lifecycle!Spec
=============================================================================
