----------------------------- MODULE AuthProofs ------------------------------
(***************************************************************************)
(* Proofs about the authentication, for any cards, readers, server and     *)
(* limits: what it keeps secret, what it tells the browser and the         *)
(* history, that it implements the life of a workflow, and that it speaks  *)
(* to the card inside the channel of PACE only.                            *)
(*                                                                         *)
(* P is CompositeStatePaceProofs as the trusted channel uses it; the first *)
(* part says that its operators are those of the controller.               *)
(***************************************************************************)
EXTENDS AuthController, TLAPS

P == INSTANCE CompositeStatePaceProofs
       WITH OnEstablished <- "ClearPacePasswords",
            OnAbort <- "SendDIDAuthenticateResponseEAC1",
            canAllowedMode <- auth.canAllowed

-----------------------------------------------------------------------------
(* The AbstractState protocol.                                             *)
LEMMA SameProtocol ==
  /\ \A s : Run(s) <=> P!Run(s)
  /\ \A s : Heard(s) <=> P!Heard(s)
  /\ \A s, c : Go(s, c) <=> P!Go(s, c)
  /\ \A s, c : Return(s, c) <=> P!Return(s, c)
  /\ \A op, r, type, pw : Call(op, r, type, pw) <=> P!Call(op, r, type, pw)
  /\ \A t : onUserCancelled(t) <=> P!onUserCancelled(t)
  /\ \A s : StartMachine(s) <=> P!StartMachine(s)
  /\ DropResult <=> P!DropResult
  /\ killWorkflow <=> P!killWorkflow
  /\ Quiet <=> P!Quiet
<1>1. \A s : Run(s) <=> P!Run(s)
  BY DEF Run, P!Run
<1>2. \A s : Heard(s) <=> P!Heard(s)
  BY DEF Answered, P!Answered, Heard, P!Heard, Quiet, P!Quiet, Result, P!Result
<1>3. \A s, c : Go(s, c) <=> P!Go(s, c)
  BY DEF Enter, P!Enter, Go, P!Go, Holds, P!Holds, Main, P!Main, SessionsAfter,
         P!SessionsAfter, Unheard, P!Unheard
<1>4. \A s, c : Return(s, c) <=> P!Return(s, c)
  BY DEF Enter, P!Enter, Holds, P!Holds, Main, P!Main, Return, P!Return,
         SessionsAfter, P!SessionsAfter, Unheard, P!Unheard
<1>5. \A op, r, type, pw : Call(op, r, type, pw) <=> P!Call(op, r, type, pw)
  BY DEF Call, P!Call, Holds, P!Holds, Main, P!Main, SessionsAfter,
         P!SessionsAfter
<1>6. \A t : onUserCancelled(t) <=> P!onUserCancelled(t)
  BY DEF CancelledContext, P!CancelledContext, Enter, P!Enter, Holds, P!Holds,
         Main, P!Main, SessionsAfter, P!SessionsAfter, Unheard, P!Unheard,
         onUserCancelled, P!onUserCancelled, updateStatus, P!updateStatus
<1>7. \A s : StartMachine(s) <=> P!StartMachine(s)
  BY DEF StartMachine, P!StartMachine
<1>8. DropResult <=> P!DropResult
  BY DEF Answered, P!Answered, DropResult, P!DropResult, Holds, P!Holds, Main,
         P!Main, PaceFlags, P!PaceFlags, Quiet, P!Quiet, Result, P!Result,
         SessionsAfter, P!SessionsAfter
<1>9. killWorkflow <=> P!killWorkflow
  BY DEF Quiet, P!Quiet, killWorkflow, P!killWorkflow
<1>10. Quiet <=> P!Quiet
  BY DEF Quiet, P!Quiet
<1>11. QED
  BY <1>1, <1>2, <1>3, <1>4, <1>5, <1>6, <1>7, <1>8, <1>9, <1>10

(* The composite, and its states that the channel reuses. *)
LEMMA SameComposite ==
  /\ Pace!PaceStep <=> P!PaceStep
  /\ \A s, t : Pace!StateClearPacePasswords(s, t)
               <=> P!StateClearPacePasswords(s, t)
  /\ \A s, a : Pace!StateUpdateRetryCounter(s, a)
               <=> P!StateUpdateRetryCounter(s, a)
  /\ \A s, t, a : Pace!UpdateRetryCounterDone(s, t, a)
                  <=> P!UpdateRetryCounterDone(s, t, a)
  /\ \A t : Pace!StateCleanUpReaderManager(t)
            <=> P!StateCleanUpReaderManager(t)
<1>1. Pace!PaceStep <=> P!PaceStep
  BY DEF Pace!AfterPace, P!AfterPace, Pace!Answered, P!Answered, Pace!Call,
         P!Call, Pace!CanStillRequired, P!CanStillRequired, Pace!CardIn,
         P!CardIn, Pace!CardVanished, P!CardVanished, Pace!ConnectCardDone,
         P!ConnectCardDone, Pace!DestroyPaceDone, P!DestroyPaceDone,
         Pace!Enter, P!Enter, Pace!EstablishPaceChannelDone,
         P!EstablishPaceChannelDone, Pace!Established, P!Established, Pace!Go,
         P!Go, Pace!HasConnection, P!HasConnection, Pace!HasError, P!HasError,
         Pace!Heard, P!Heard, Pace!Holds, P!Holds, Pace!IsBasic, P!IsBasic,
         Pace!KindOf, P!KindOf, Pace!Main, P!Main, Pace!MaintainAborts,
         P!MaintainAborts, Pace!NoConnection, P!NoConnection, Pace!PaceFlags,
         P!PaceFlags, Pace!PaceStep, P!PaceStep, Pace!PasswordKinds,
         P!PasswordKinds, Pace!Prepare, P!Prepare,
         Pace!PreparePaceInCanAllowedMode, P!PreparePaceInCanAllowedMode,
         Pace!Quiet, P!Quiet, Pace!RefinedInvalidPin, P!RefinedInvalidPin,
         Pace!Result, P!Result, Pace!Return, P!Return, Pace!Run, P!Run,
         Pace!Select, P!Select, Pace!SessionsAfter, P!SessionsAfter,
         Pace!StateClearPacePasswords, P!StateClearPacePasswords,
         Pace!StateConnectCard, P!StateConnectCard, Pace!StateDestroyPace,
         P!StateDestroyPace, Pace!StateEnterPacePassword,
         P!StateEnterPacePassword, Pace!StateEstablishPaceChannel,
         P!StateEstablishPaceChannel, Pace!StateMaintainCardConnection,
         P!StateMaintainCardConnection, Pace!StatePreparePace,
         P!StatePreparePace, Pace!StateSelectReader, P!StateSelectReader,
         Pace!StateUnfortunateCardPosition, P!StateUnfortunateCardPosition,
         Pace!StateUpdateRetryCounter, P!StateUpdateRetryCounter,
         Pace!StateVerifyRetryCounter, P!StateVerifyRetryCounter,
         Pace!TypePassword, P!TypePassword, Pace!TypesAtScreen,
         P!TypesAtScreen, Pace!Unheard, P!Unheard, Pace!Unrecoverable,
         P!Unrecoverable, Pace!UpdateRetryCounterDone,
         P!UpdateRetryCounterDone, Pace!Verified, P!Verified,
         Pace!equalsWrongPacePassword, P!equalsWrongPacePassword,
         Pace!handleWrongNpaPosition, P!handleWrongNpaPosition,
         Pace!isNpaRepositioningRequired, P!isNpaRepositioningRequired,
         Pace!resetPacePasswords, P!resetPacePasswords,
         Pace!setNpaPositionVerified, P!setNpaPositionVerified,
         Pace!toGlobalStatus, P!toGlobalStatus, Pace!updateStatus,
         P!updateStatus, Pace!Doubtful, P!Doubtful, Pace!CounterOf, P!CounterOf,
         Pace!Readings, P!Readings, Pace!IsPinDeactivated, P!IsPinDeactivated
<1>2. \A s, t : Pace!StateClearPacePasswords(s, t)
               <=> P!StateClearPacePasswords(s, t)
  BY DEF Pace!Enter, P!Enter, Pace!Go, P!Go, Pace!Holds, P!Holds, Pace!Main,
         P!Main, Pace!PasswordKinds, P!PasswordKinds, Pace!Run, P!Run,
         Pace!SessionsAfter, P!SessionsAfter, Pace!StateClearPacePasswords,
         P!StateClearPacePasswords, Pace!Unheard, P!Unheard,
         Pace!resetPacePasswords, P!resetPacePasswords
<1>3. \A s, a : Pace!StateUpdateRetryCounter(s, a)
               <=> P!StateUpdateRetryCounter(s, a)
  BY DEF Pace!Call, P!Call, Pace!Enter, P!Enter, Pace!Go, P!Go,
         Pace!HasConnection, P!HasConnection, Pace!Holds, P!Holds, Pace!Main,
         P!Main, Pace!NoConnection, P!NoConnection, Pace!Run, P!Run,
         Pace!SessionsAfter, P!SessionsAfter, Pace!StateUpdateRetryCounter,
         P!StateUpdateRetryCounter, Pace!Unheard, P!Unheard
<1>4. \A s, t, a : Pace!UpdateRetryCounterDone(s, t, a)
                  <=> P!UpdateRetryCounterDone(s, t, a)
  BY DEF Pace!Answered, P!Answered, Pace!Enter, P!Enter, Pace!Heard, P!Heard,
         Pace!Holds, P!Holds, Pace!Main, P!Main, Pace!NoConnection,
         P!NoConnection, Pace!Quiet, P!Quiet, Pace!Result, P!Result,
         Pace!Return, P!Return, Pace!SessionsAfter, P!SessionsAfter,
         Pace!Unheard, P!Unheard, Pace!UpdateRetryCounterDone,
         P!UpdateRetryCounterDone
<1>5. \A t : Pace!StateCleanUpReaderManager(t)
            <=> P!StateCleanUpReaderManager(t)
  BY DEF Pace!Enter, P!Enter, Pace!Go, P!Go, Pace!Holds, P!Holds, Pace!Main,
         P!Main, Pace!NoConnection, P!NoConnection, Pace!Run, P!Run,
         Pace!SessionsAfter, P!SessionsAfter, Pace!StateCleanUpReaderManager,
         P!StateCleanUpReaderManager, Pace!Unheard, P!Unheard
<1>6. QED
  BY <1>1, <1>2, <1>3, <1>4, <1>5

(* The cards and readers. *)
LEMMA SameEnvironment ==
  /\ \A r, c : Pace!InsertCard(r, c) <=> P!InsertCard(r, c)
  /\ \A r, gone : Pace!RemoveCard(r, gone) <=> P!RemoveCard(r, gone)
  /\ Pace!onReaderDeviceError <=> P!onReaderDeviceError
  /\ Pace!setReaderPlugInTypes <=> P!setReaderPlugInTypes
<1>1. \A r, c : Pace!InsertCard(r, c) <=> P!InsertCard(r, c)
  BY DEF Pace!CardIn, P!CardIn, Pace!CounterOf, P!CounterOf, Pace!Enter,
         P!Enter, Pace!InfoChanged, P!InfoChanged, Pace!InsertCard,
         P!InsertCard, Pace!NothingSentBefore, P!NothingSentBefore, Pace!Quiet,
         P!Quiet, Pace!Result, P!Result, Pace!Readings, P!Readings,
         Pace!Doubtful, P!Doubtful
<1>2. \A r, gone : Pace!RemoveCard(r, gone) <=> P!RemoveCard(r, gone)
  BY DEF Pace!CardIn, P!CardIn, Pace!Enter, P!Enter, Pace!InfoChanged,
         P!InfoChanged, Pace!NothingSentBefore, P!NothingSentBefore,
         Pace!Quiet, P!Quiet, Pace!RemoveCard, P!RemoveCard, Pace!Result,
         P!Result, Pace!Unheard, P!Unheard, Pace!Doubtful, P!Doubtful
<1>3. Pace!onReaderDeviceError <=> P!onReaderDeviceError
  BY DEF Pace!Enter, P!Enter, Pace!Go, P!Go, Pace!Holds, P!Holds, Pace!Main,
         P!Main, Pace!Quiet, P!Quiet, Pace!SessionsAfter, P!SessionsAfter,
         Pace!Unheard, P!Unheard, Pace!onReaderDeviceError,
         P!onReaderDeviceError, Pace!updateStatus, P!updateStatus
<1>4. Pace!setReaderPlugInTypes <=> P!setReaderPlugInTypes
  BY DEF Pace!Enter, P!Enter, Pace!Go, P!Go, Pace!Holds, P!Holds, Pace!Main,
         P!Main, Pace!Quiet, P!Quiet, Pace!SessionsAfter, P!SessionsAfter,
         Pace!Unheard, P!Unheard, Pace!setReaderPlugInTypes,
         P!setReaderPlugInTypes
<1>5. QED
  BY <1>1, <1>2, <1>3, <1>4

(* The commands.                                                           *)
LEMMA SameCardinality ==
  \A S : Pace!Cardinality(S) = P!Cardinality(S)
  BY DEF Pace!Cardinality, P!Cardinality, Pace!IsFiniteSet, P!IsFiniteSet

LEMMA SameWorkers ==
  \A code : Pace!WorkerCreated(code) <=> P!WorkerCreated(code)
<1>1. ASSUME NEW code
      PROVE  Pace!WorkerCreated(code) <=> P!WorkerCreated(code)
  BY SameCardinality, Zenon
     DEF Pace!WorkerCreated, P!WorkerCreated, Pace!R, P!R, Pace!Others, P!Others,
         Pace!Waits, P!Waits
<1>2. QED
  BY <1>1

LEMMA SameCommands ==
  Pace!ExecuteCommand <=> P!ExecuteCommand
<1>1. Pace!UpdateRetryCounter <=> P!UpdateRetryCounter
  BY DEF Pace!Alive, P!Alive, Pace!Answer, P!Answer, Pace!CardIn, P!CardIn,
         Pace!CounterOf, P!CounterOf, Pace!Fail, P!Fail, Pace!Pending,
         P!Pending, Pace!R, P!R, Pace!UpdateRetryCounter, P!UpdateRetryCounter,
         Pace!ReadCounter, P!ReadCounter, Pace!CounterRead, P!CounterRead,
         Pace!Readings, P!Readings, Pace!Doubtful, P!Doubtful
<1>2. Pace!EstablishPacePin <=> P!EstablishPacePin
  BY DEF Pace!Alive, P!Alive, Pace!Answer, P!Answer, Pace!BrokenPace,
         P!BrokenPace, Pace!CardIn, P!CardIn, Pace!CounterOf, P!CounterOf,
         Pace!EstablishPacePin, P!EstablishPacePin, Pace!Fail, P!Fail,
         Pace!GivenUp, P!GivenUp, Pace!IsBasic, P!IsBasic, Pace!Pending,
         P!Pending, Pace!R, P!R, Pace!Typed, P!Typed
<1>3. Pace!EstablishPaceCan <=> P!EstablishPaceCan
  BY DEF Pace!Alive, P!Alive, Pace!Answer, P!Answer, Pace!BrokenPace,
         P!BrokenPace, Pace!CardIn, P!CardIn, Pace!EstablishPaceCan,
         P!EstablishPaceCan, Pace!Fail, P!Fail, Pace!GivenUp, P!GivenUp,
         Pace!IsBasic, P!IsBasic, Pace!Pending, P!Pending, Pace!R, P!R,
         Pace!Typed, P!Typed
<1>4. Pace!UnblockPin <=> P!UnblockPin
  BY DEF Pace!Alive, P!Alive, Pace!Answer, P!Answer, Pace!BrokenPace,
         P!BrokenPace, Pace!CardIn, P!CardIn, Pace!Fail, P!Fail, Pace!GivenUp,
         P!GivenUp, Pace!IsBasic, P!IsBasic, Pace!Pending, P!Pending, Pace!R,
         P!R, Pace!Typed, P!Typed, Pace!UnblockPin, P!UnblockPin,
         Pace!IsPinDeactivated, P!IsPinDeactivated
<1>5. Pace!SetEidPin <=> P!SetEidPin
  BY DEF Pace!Alive, P!Alive, Pace!Answer, P!Answer, Pace!CardIn, P!CardIn,
         Pace!Fail, P!Fail, Pace!GivenUp, P!GivenUp, Pace!IsBasic, P!IsBasic,
         Pace!Pending, P!Pending, Pace!R, P!R, Pace!SetEidPin, P!SetEidPin
<1>6. Pace!DestroyPaceChannel <=> P!DestroyPaceChannel
  BY DEF Pace!Answer, P!Answer, Pace!DestroyPaceChannel, P!DestroyPaceChannel,
         Pace!Pending, P!Pending, Pace!R, P!R
<1>7. \A op, f : Pace!AuthenticationCommand(op, f)
                <=> P!AuthenticationCommand(op, f)
  BY DEF Pace!Alive, P!Alive, Pace!Answer, P!Answer,
         Pace!AuthenticationCommand, P!AuthenticationCommand, Pace!CardIn,
         P!CardIn, Pace!Fail, P!Fail, Pace!Pending, P!Pending, Pace!R, P!R
<1>8. Pace!CreateCardConnection <=> P!CreateCardConnection
  BY SameWorkers DEF Pace!CreateCardConnection, P!CreateCardConnection, Pace!R,
         P!R, Pace!CardIn, P!CardIn, Pace!Pending, P!Pending
<1>9. QED
  BY <1>1, <1>2, <1>3, <1>4, <1>5, <1>6, <1>7, <1>8
     DEF Pace!ExecuteCommand, P!ExecuteCommand

-----------------------------------------------------------------------------

(* The context.                                                            *)
LEMMA SameContext ==
  /\ \A c : HasError(c) <=> P!HasError(c)
  /\ \A c : HasConnection(c) <=> P!HasConnection(c)
  /\ \A c, s : updateStatus(c, s) = P!updateStatus(c, s)
  /\ toGlobalStatus = P!toGlobalStatus
  /\ \A r, c, n : Pace!InfoChanged(r, c, n) = P!InfoChanged(r, c, n)
  /\ \A js : Unheard(js) = P!Unheard(js)
  /\ Result = P!Result /\ Pace!PaceStates = P!PaceStates
<1>1. toGlobalStatus = P!toGlobalStatus
  BY DEF toGlobalStatus, P!toGlobalStatus
<1>2. QED
  BY <1>1 DEF HasError, P!HasError, HasConnection, P!HasConnection,
         NoConnection, P!NoConnection, updateStatus, P!updateStatus,
         Pace!InfoChanged, P!InfoChanged, Unheard, P!Unheard, Result, P!Result,
         Pace!PaceStates, P!PaceStates, Pace!Doubtful, P!Doubtful

-----------------------------------------------------------------------------
(***************************************************************************)
(* The invariant.                                                          *)
(***************************************************************************)
(* Before the trusted channel has a TC token; up to the connection.        *)
Beginning == {"Initial", "Processing", "ParseTcTokenUrl", "LoadTcTokenUrl",
              "GetTcToken"}

RightsStates == {"ExtractCvcsFromEac1InputType", "PreVerification",
                 "CertificateDescriptionCheck", "CheckCertificates",
                 "EditAccessRights"}

Unconnected ==
  Beginning \cup RightsStates
    \cup {"StartPaos", "SendStartPaos", "InitializeFramework",
          "SendInitializeFrameworkResponse", "DidList", "SendDIDListResponse"}

(* After the dialogue with the server; after the refresh address is        *)
(* checked; after the history is written.                                  *)
AfterHistory == {"GetSelfAuthenticationData", "ShowSelfInfo",
                 "SendWhitelistSurvey", "RedirectBrowser", "FinalState", "Done"}

AfterRefresh ==
  AfterHistory \cup {"ActivateStoreFeedbackDialog", "WriteHistory"}

AfterDialogue ==
  AfterRefresh \cup {"UpdateRetryCounterFinal", "CleanUpReaderManager",
                     "CheckError", "CheckRefreshAddress"}

(* The states that a run() may leave waiting.                              *)
Waits ==
  SendStates
    \cup {"GetTcToken", "CheckRefreshAddress", "GetSelfAuthenticationData",
          "DidAuthenticateEac1", "DidAuthenticateEac2", "Transmit",
          "UpdateRetryCounterFinal"}

OuterFits ==
  /\ state \in States /\ auth \in Auths
  /\ state = "Initial" => jobs = <<>> /\ ~cancelDue
  /\ (phase = "waiting" /\ state \notin P!PaceStates) =>
       state \in Waits \/ (state = First /\ ctx.killed)

(* Nothing is connected before the card is needed, and a typed password is *)
(* kept in the composite only.                                             *)
SecretsFit(s, c) ==
  /\ s \in Unconnected => ~P!HasConnection(c)
  /\ s \notin P!PaceStates \cup {"ClearPacePasswords", "Unreachable"} =>
       \A k \in PasswordKinds : c.pw[k] = NoPassword

(* What a workflow without an error has achieved so far.                   *)
Achieved(s, a) ==
  /\ s \notin Beginning => a.token = "valid" /\ ~a.notFound
  /\ s \in AfterDialogue => a.serverSaid = "ok"
  /\ s \in AfterRefresh => a.refreshUrl
  /\ a.eac1 /\ s \notin RightsStates => a.consent

StoryFits(s, c, a) ==
  /\ ~P!HasError(c) => Achieved(s, a)
  /\ s = "StartPaosResponse" => a.serverSaid # "nothing"
  /\ a.history => s \in AfterHistory /\ a.consent /\ a.serverSaid = "ok"
  /\ s \in {"FinalState", "Done"} /\ ~a.self => a.answer # "none"

AuthInv == /\ P!PaceInv /\ OuterFits
           /\ SecretsFit(state, ctx) /\ StoryFits(state, ctx, auth)

-----------------------------------------------------------------------------
(* The names of the states.                                                *)
OwnStates == States \ (P!PaceStates \cup {"Initial", "Unreachable"})

LEMMA ChannelNames ==
  /\ SendStates =
       {"SendStartPaos", "SendInitializeFrameworkResponse", "SendDIDListResponse",
        "SendDIDAuthenticateResponseEAC1",
        "SendDIDAuthenticateResponseEACAdditionalInputType",
        "SendDIDAuthenticateResponseEAC2", "SendTransmitResponse",
        "SendDisconnectResponse"}
  /\ ChannelStates = SendStates \cup
       {"GetTcToken", "StartPaos", "InitializeFramework", "DidList",
        "ExtractCvcsFromEac1InputType", "PreVerification",
        "CertificateDescriptionCheck", "CheckCertificates", "EditAccessRights",
        "ClearPacePasswords", "DidAuthenticateEac1", "EACAdditionalInputType",
        "ProcessCertificatesFromEac2", "DidAuthenticateEac2", "Transmit",
        "StartPaosResponse", "UpdateRetryCounterFinal", "CleanUpReaderManager"}
<1>1. SendStates =
        {"SendStartPaos", "SendInitializeFrameworkResponse", "SendDIDListResponse",
         "SendDIDAuthenticateResponseEAC1",
         "SendDIDAuthenticateResponseEACAdditionalInputType",
         "SendDIDAuthenticateResponseEAC2", "SendTransmitResponse",
         "SendDisconnectResponse"}
  BY DEF SendStates, Received
<1>2. DOMAIN ChannelContinueTo =
       {"GetTcToken", "StartPaos", "InitializeFramework", "DidList",
        "ExtractCvcsFromEac1InputType", "PreVerification",
        "CertificateDescriptionCheck", "CheckCertificates", "EditAccessRights",
        "ClearPacePasswords", "DidAuthenticateEac1", "EACAdditionalInputType",
        "ProcessCertificatesFromEac2", "DidAuthenticateEac2", "Transmit",
        "StartPaosResponse", "UpdateRetryCounterFinal", "CleanUpReaderManager"}
  BY DEF ChannelContinueTo
<1>3. QED
  BY <1>1, <1>2 DEF ChannelStates

LEMMA EndNames ==
  DOMAIN ContinueTo =
    {"Processing", "ParseTcTokenUrl", "LoadTcTokenUrl", "CheckError",
     "CheckRefreshAddress", "ActivateStoreFeedbackDialog", "WriteHistory",
     "GetSelfAuthenticationData", "ShowSelfInfo", "SendWhitelistSurvey",
     "RedirectBrowser"}
  BY DEF ContinueTo

LEMMA StateNames ==
  /\ OwnStates = ChannelStates \cup DOMAIN ContinueTo \cup {"FinalState", "Done"}
  /\ States = OwnStates \cup P!PaceStates \cup {"Initial", "Unreachable"}
  /\ (OwnStates \cup {"Initial", "Unreachable"}) \cap P!PaceStates = {}
<1>1. P!PaceStates = Pace!PaceStates
  BY SameContext
<1>2. (ChannelStates \cup DOMAIN ContinueTo
         \cup {"Initial", "FinalState", "Done", "Unreachable"})
       \cap P!PaceStates = {}
  BY ChannelNames, EndNames DEF P!PaceStates
<1>3. {"Initial", "Unreachable"}
        \cap (ChannelStates \cup DOMAIN ContinueTo) = {}
  BY ChannelNames, EndNames
<1>4. QED
  BY <1>1, <1>2, <1>3 DEF OwnStates, States

(* They are the same whoever asks for the authentication.                  *)
LEMMA StatesStay == States' = States
<1>1. DOMAIN ContinueTo' = DOMAIN ContinueTo
  BY DEF ContinueTo
<1>2. DOMAIN ChannelContinueTo' = DOMAIN ChannelContinueTo
  BY DEF ChannelContinueTo
<1>3. QED
  BY <1>1, <1>2 DEF States, ChannelStates

LEMMA WaitNames ==
  /\ Waits \subseteq OwnStates \ {"FinalState", "Done", "Processing", "LoadTcTokenUrl"}
  /\ Waits \cap (P!PaceStates \cup {"Initial", "Unreachable"}) = {}
<1>1. /\ Waits \subseteq ChannelStates \cup DOMAIN ContinueTo
      /\ Waits \cap {"FinalState", "Done", "Processing", "LoadTcTokenUrl",
                     "Initial", "Unreachable"} = {}
  BY ChannelNames, EndNames DEF Waits
<1>2. QED
  BY <1>1, StateNames

LEMMA Exits == P!ExitsOutside
  BY DEF P!ExitsOutside, P!PaceStates

(* Where the states of the epilogue lead.                                  *)
LEMMA EndTransitions ==
  /\ ContinueTo["Processing"] = "ParseTcTokenUrl"
  /\ ContinueTo["ParseTcTokenUrl"] = "GetTcToken"
  /\ ContinueTo["LoadTcTokenUrl"] = "GetTcToken"
  /\ ContinueTo["CheckError"] = "CheckRefreshAddress"
  /\ ContinueTo["CheckRefreshAddress"] = "ActivateStoreFeedbackDialog"
  /\ ContinueTo["ActivateStoreFeedbackDialog"] = "WriteHistory"
  /\ ContinueTo["WriteHistory"] = IF auth.self THEN "GetSelfAuthenticationData"
                                               ELSE "SendWhitelistSurvey"
  /\ ContinueTo["GetSelfAuthenticationData"] = "ShowSelfInfo"
  /\ ContinueTo["ShowSelfInfo"] = "SendWhitelistSurvey"
  /\ ContinueTo["SendWhitelistSurvey"] =
       IF auth.self THEN "FinalState" ELSE "RedirectBrowser"
  /\ ContinueTo["RedirectBrowser"] = "FinalState"
  BY DEF ContinueTo

LEMMA EndAborts ==
  /\ \A s \in {"Processing", "ParseTcTokenUrl", "LoadTcTokenUrl"} :
       AbortTo[s] = "CheckRefreshAddress"
  /\ AbortTo["ActivateStoreFeedbackDialog"] = "WriteHistory"
  /\ AbortTo["RedirectBrowser"] = "FinalState"
  /\ AbortTo["WriteHistory"] = IF auth.self THEN "GetSelfAuthenticationData"
                                            ELSE "RedirectBrowser"
  /\ \A s \in {"CheckError", "CheckRefreshAddress", "GetSelfAuthenticationData",
               "ShowSelfInfo", "SendWhitelistSurvey"} :
       AbortTo[s] = IF auth.self THEN "FinalState" ELSE "RedirectBrowser"
  BY EndNames, EndTransitions DEF AbortTo

(* And those of the trusted channel.                                       *)
LEMMA ChannelTransitions ==
  /\ ChannelContinueTo["StartPaos"] = "SendStartPaos"
  /\ ChannelContinueTo["InitializeFramework"] = "SendInitializeFrameworkResponse"
  /\ ChannelContinueTo["DidList"] = "SendDIDListResponse"
  /\ ChannelContinueTo["PreVerification"] = "CertificateDescriptionCheck"
  /\ ChannelContinueTo["CertificateDescriptionCheck"] = "CheckCertificates"
  /\ ChannelContinueTo["CheckCertificates"] = "EditAccessRights"
  /\ ChannelContinueTo["ProcessCertificatesFromEac2"] = "DidAuthenticateEac2"
  /\ ChannelContinueTo["ClearPacePasswords"] = "DidAuthenticateEac1"
  /\ ChannelContinueTo["DidAuthenticateEac1"] = "SendDIDAuthenticateResponseEAC1"
  /\ ChannelContinueTo["DidAuthenticateEac2"] = "SendDIDAuthenticateResponseEAC2"
  /\ ChannelContinueTo["Transmit"] = "SendTransmitResponse"
  /\ ChannelContinueTo["StartPaosResponse"] = "UpdateRetryCounterFinal"
  /\ ChannelContinueTo["UpdateRetryCounterFinal"] = "CleanUpReaderManager"
  /\ ChannelContinueTo["CleanUpReaderManager"] = AfterTrustedChannel
  BY DEF ChannelContinueTo

LEMMA ChannelAborts ==
  /\ \A s \in {"GetTcToken", "StartPaos", "SendStartPaos",
               "SendInitializeFrameworkResponse", "SendDIDListResponse"} :
       ChannelAbortTo[s] = "CleanUpReaderManager"
  /\ \A s \in RightsStates : ChannelAbortTo[s] = "SendDIDAuthenticateResponseEAC1"
  /\ ChannelAbortTo["EACAdditionalInputType"] =
       "SendDIDAuthenticateResponseEACAdditionalInputType"
  /\ ChannelAbortTo["ProcessCertificatesFromEac2"] = "SendDIDAuthenticateResponseEAC2"
  /\ \A s \in {"SendDIDAuthenticateResponseEAC1",
               "SendDIDAuthenticateResponseEACAdditionalInputType",
               "SendDIDAuthenticateResponseEAC2", "SendTransmitResponse",
               "SendDisconnectResponse"} :
       ChannelAbortTo[s] = "UpdateRetryCounterFinal"
  /\ \A s \in {"InitializeFramework", "DidList", "ClearPacePasswords",
               "DidAuthenticateEac1", "DidAuthenticateEac2", "Transmit",
               "StartPaosResponse", "UpdateRetryCounterFinal",
               "CleanUpReaderManager"} :
       ChannelAbortTo[s] = ChannelContinueTo[s]
  BY ChannelNames DEF ChannelAbortTo, RightsStates

(* A new workflow.                                                         *)
LEMMA InitHolds == Init => AuthInv
<1> SUFFICES ASSUME Init PROVE AuthInv
  OBVIOUS
<1>1. /\ InitialContext \in P!Contexts
      /\ InitialContext.conn = P!NoConnection /\ ~InitialContext.killed
      /\ InitialContext.vanished = 0
      /\ \A k \in PasswordKinds : InitialContext.pw[k] = NoPassword
  <2>1. "OK" \in P!Codes /\ P!toGlobalStatus["OK"] = "No_Error"
    BY DEF P!Codes, P!toGlobalStatus
  <2>2. "No_Error" \in P!Statuses
    BY <2>1 DEF P!Statuses
  <2>3. NoConnection \in P!Connections /\ NoConnection = P!NoConnection
    BY DEF P!Connections, P!Counters, NoConnection, P!NoConnection
  <2>4. [k \in PasswordKinds |-> NoPassword]
          \in [P!PasswordKinds -> P!Passwords]
    BY DEF PasswordKinds, P!PasswordKinds, P!Passwords
  <2>5. QED
    BY <2>1, <2>2, <2>3, <2>4, ConstantsAssumption
       DEF InitialContext, P!Contexts, P!PaceTypes, P!Counters
<1>2. /\ state = "Initial" /\ phase = "entered" /\ cancelDue = FALSE
      /\ ctx = InitialContext /\ jobs = <<>> /\ spent = {}
  BY DEF Init
<1>3. P!PaceTypeOK
  <2>1. reader \in [Readers -> P!ReaderStates]
    BY DEF Init, P!ReaderStates, P!Counters, P!Sessions
  <2>2. PukUses \in 0 .. PukUses
    BY ConstantsAssumption
  <2>3. card \in P!CardRecords
    <3>1. ASSUME NEW c \in Cards
          PROVE  card[c] \in [counter : 0 .. 3, puk : 0 .. PukUses,
                              changed : BOOLEAN]
      <4>1. card[c] \in [counter : {1, 3}, puk : {PukUses}, changed : {FALSE}]
        BY <3>1 DEF Init
      <4>2. {1, 3} \subseteq 0 .. 3 /\ {PukUses} \subseteq 0 .. PukUses
            /\ {FALSE} \subseteq BOOLEAN
        BY <2>2
      <4>3. QED
        BY <4>1, <4>2, Zenon
    <3>2. card \in [Cards -> [counter : {1, 3}, puk : {PukUses}, changed : {FALSE}]]
      BY DEF Init
    <3>3. QED
      BY <3>1, <3>2 DEF P!CardRecords
  <2>4. jobs \in Seq(P!Jobs) /\ spent \subseteq Cards
    BY <1>2
  <2>5. QED
    BY <1>1, <1>2, <2>1, <2>3, <2>4 DEF P!PaceTypeOK
<1>4. P!ContextFits(state, ctx)
  BY <1>1, <1>2, ConstantsAssumption
     DEF P!ContextFits, P!ConnectionFits, P!ErrorFits, P!InfoFits, P!CardFits,
         P!HasConnection
<1>5. P!JobsFit /\ P!ResultsTrue /\ P!WaitFits
  BY DEF Init, P!JobsFit, P!ResultsTrue, P!WaitFits
<1>6. \E self \in BOOLEAN : auth = InitialAuth(self)
  BY AuthAssumption DEF Init
<1>7. auth \in Auths /\ ~auth.eac1 /\ ~auth.history
  BY <1>6, ServerAssumption DEF InitialAuth, Auths
<1>8. OuterFits /\ SecretsFit(state, ctx) /\ StoryFits(state, ctx, auth)
  BY <1>1, <1>2, <1>7, StateNames
     DEF OuterFits, SecretsFit, StoryFits, Achieved, Beginning, Unconnected,
         RightsStates, AfterDialogue, AfterRefresh, AfterHistory, P!HasConnection
<1>9. QED
  BY <1>3, <1>4, <1>5, <1>8 DEF AuthInv, P!PaceInv

-----------------------------------------------------------------------------
(***************************************************************************)
(* The ways in which a state of the controller's own moves on.             *)
(***************************************************************************)
(* A later context of the same workflow: an error may have been added, the *)
(* connection dropped.                                                     *)
Follows(c) ==
  /\ c \in P!Contexts /\ c.pw = ctx.pw /\ c.vanished = ctx.vanished
  /\ c.conn \in {ctx.conn, P!NoConnection} /\ c.killed = ctx.killed
  /\ c.doubted = ctx.doubted
  /\ P!HasError(ctx) => P!HasError(c)

LEMMA ContextFollows ==
  ASSUME AuthInv
  PROVE  Follows(ctx) /\ Follows([ctx EXCEPT !.conn = NoConnection])
<1>1. ctx \in P!Contexts
  BY DEF AuthInv, P!PaceInv, P!PaceTypeOK
<1>2. NoConnection \in P!Connections /\ NoConnection = P!NoConnection
  BY P!NoConnectionTypes, ConstantsAssumption, UiAssumption
     DEF NoConnection, P!NoConnection
<1>3. QED
  BY <1>1, <1>2 DEF Follows, P!Contexts, P!HasError

LEMMA StatusFollows ==
  ASSUME AuthInv, NEW s \in P!Statuses
  PROVE  /\ Follows(updateStatus(ctx, s))
         /\ P!HasError(updateStatus(ctx, s)) <=> (P!HasError(ctx) \/ s # "No_Error")
<1>1. ctx \in P!Contexts
  BY DEF AuthInv, P!PaceInv, P!PaceTypeOK
<1>2. updateStatus(ctx, s) = P!updateStatus(ctx, s)
  BY SameContext
<1>3. QED
  BY <1>1, <1>2, P!UpdateStatusKeeps, ConstantsAssumption, UiAssumption DEF Follows

LEMMA BlamedFollows ==
  ASSUME AuthInv
  PROVE  Follows(Blamed(ctx)) /\ P!HasError(Blamed(ctx))
<1>1. "Workflow_Communication_Error" \in P!Statuses
  BY DEF P!Statuses
<1>2. QED
  BY <1>1, StatusFollows DEF Blamed

(* run() or a callback takes the machine to s.                             *)
Reaches(s, c) == Go(s, c) \/ (jobs # <<>> /\ Return(s, c))

LEMMA ReachesFacts ==
  ASSUME NEW s, NEW c, Reaches(s, c)
  PROVE  /\ P!Go(s, c) \/ (jobs # <<>> /\ P!Return(s, c))
         /\ state' = s /\ phase' = "entered" /\ ctx' = c /\ UNCHANGED cancelDue
<1>1. P!Go(s, c) \/ (jobs # <<>> /\ P!Return(s, c))
  BY SameProtocol DEF Reaches
<1>2. QED
  BY <1>1 DEF P!Go, P!Return, P!Enter, P!Main

(* What such a step means for the life of the workflow.                    *)
OwnMoves ==
  /\ ctx'.killed = ctx.killed /\ auth'.self = auth.self
 
  /\ state \in OwnStates \ {"Done"} /\ (phase = "entered" \/ state \in Waits)
  /\ state' \in OwnStates \cup {"MaintainCardConnection"}
  /\ phase' = "entered" \/ state' \in Waits
  /\ state' = "Done" <=> state = "FinalState"

(* The machine leaves one of its own states for another.                   *)
LEMMA OwnStep ==
  ASSUME AuthInv, state \in OwnStates \ {"ClearPacePasswords", "Done"},
         phase = "entered" \/ state \in Waits,
         NEW s \in OwnStates, s \in Unconnected => state \in Unconnected,
         s = "Done" <=> state = "FinalState",
         NEW c, Follows(c), Reaches(s, c),
         auth' \in Auths, auth'.self = auth.self, StoryFits(s, c, auth')
  PROVE  AuthInv' /\ OwnMoves
<1>1. P!PaceInv /\ state \notin P!PaceStates /\ s \notin P!PaceStates
  BY StateNames DEF AuthInv
<1>2. P!ContextFits(s, c) /\ c \in P!Contexts
  BY <1>1, P!OutsideFits, ConstantsAssumption, UiAssumption DEF Follows
<1>3. s \notin {"EnterPacePassword", "EstablishPaceChannel"}
  BY <1>1 DEF P!PaceStates
<1>4. P!PaceInv'
  BY <1>1, <1>2, <1>3, ReachesFacts, P!GoKeeps, P!ReturnKeeps,
     ConstantsAssumption, UiAssumption
<1>5. state' = s /\ phase' = "entered" /\ ctx' = c
  BY ReachesFacts
<1>6. OuterFits'
  <2>1. state' \in States' /\ state' # "Initial"
    BY <1>5, StatesStay DEF OwnStates
  <2>2. QED
    BY <1>5, <2>1 DEF OuterFits
<1>7. SecretsFit(s, c)
  BY <1>1 DEF AuthInv, SecretsFit, Follows, P!HasConnection, OwnStates
<1>8. SecretsFit(state, ctx)'
  BY <1>5, <1>7 DEF SecretsFit, P!HasConnection
<1>9. StoryFits(state, ctx, auth)'
  BY <1>5 DEF StoryFits, Achieved, P!HasError
<1>10. OwnMoves
  BY <1>5 DEF OwnMoves, Follows
<1>11. QED
  BY <1>4, <1>6, <1>8, <1>9, <1>10 DEF AuthInv

(* What keeps the story true when nothing is added to it.                  *)
Onward(s) ==
  /\ s \in Unconnected => state \in Unconnected
  /\ s # "StartPaosResponse"
  /\ state \in AfterHistory => s \in AfterHistory
  /\ s = "FinalState" => auth.self
  /\ s = "Done" <=> state = "FinalState"

Succeeds(s) ==
  /\ s \notin Beginning => state \notin Beginning
  /\ s \in AfterDialogue => state \in AfterDialogue
  /\ s \in AfterRefresh => state \in AfterRefresh
  /\ state \in RightsStates => s \in RightsStates

LEMMA PlainStep ==
  ASSUME AuthInv, state \in OwnStates \ {"ClearPacePasswords", "Done"},
         phase = "entered" \/ state \in Waits,
         NEW s \in OwnStates, NEW c, Follows(c), Reaches(s, c),
         UNCHANGED auth, Onward(s), P!HasError(c) \/ Succeeds(s)
  PROVE  AuthInv' /\ OwnMoves
<1>1. StoryFits(s, c, auth)
  BY DEF AuthInv, StoryFits, Achieved, Follows, Onward, Succeeds
<1>2. auth \in Auths
  BY DEF AuthInv, OuterFits
<1>3. QED
  BY <1>1, <1>2, OwnStep DEF Onward

(* run() that waits for a reply.                                           *)
LEMMA AwaitStep ==
  ASSUME AuthInv, NEW s \in Waits, Await(s), auth' \in Auths,
         auth'.self = auth.self, UNCHANGED auth.canAllowed,
         StoryFits(state, ctx, auth')
  PROVE  AuthInv' /\ OwnMoves
<1>1. /\ P!PaceInv /\ state = s /\ phase = "entered" /\ phase' = "waiting"
      /\ UNCHANGED <<state, cancelDue, ctx, jobs, reader, card, spent>>
  BY DEF AuthInv, Await, Run
<1>2. P!PaceInv'
  BY <1>1, WaitNames, P!WaitKeeps, ConstantsAssumption, UiAssumption
<1>3. OuterFits'
  BY <1>1, StatesStay DEF AuthInv, OuterFits
<1>4. SecretsFit(state, ctx)'
  BY <1>1 DEF AuthInv, SecretsFit, P!HasConnection
<1>5. StoryFits(state, ctx, auth)'
  BY <1>1 DEF StoryFits, Achieved, P!HasError
<1>6. OwnMoves
  BY <1>1, WaitNames DEF OwnMoves
<1>7. QED
  BY <1>2, <1>3, <1>4, <1>5, <1>6 DEF AuthInv

(* run() that hands over a command.                                        *)
LEMMA CallStep ==
  ASSUME AuthInv, NEW op \in P!Operations, NEW s \in Waits, Run(s),
         P!HasConnection(ctx), Call(op, ctx.conn.reader, "UNKNOWN", NoPassword),
         op \notin {"CreateCardConnection", "EstablishPaceChannel", "UnblockPin"},
         UNCHANGED auth
  PROVE  AuthInv' /\ OwnMoves
<1>1. /\ P!PaceInv /\ state = s /\ phase = "entered" /\ s \notin P!PaceStates
      /\ P!Call(op, ctx.conn.reader, "UNKNOWN", NoPassword)
  BY SameProtocol, WaitNames DEF AuthInv, Run
<1>2. /\ ctx.conn.reader \in Readers /\ "UNKNOWN" \in P!PaceTypes
      /\ NoPassword \in P!Passwords /\ P!CallFits(state, op)
  BY <1>1 DEF P!PaceInv, P!ContextFits, P!ConnectionFits, P!HasConnection,
     P!PaceTypes, P!Passwords, P!CallFits
<1>3. P!PaceInv'
  <2>1. state \notin {"ConnectCard", "EstablishPaceChannel"}
    BY <1>1 DEF P!PaceStates
  <2>2. QED
    BY <1>1, <1>2, <2>1, P!CallKeeps, ConstantsAssumption, UiAssumption
<1>4. state' = s /\ phase' = "waiting" /\ ctx' = ctx /\ cancelDue' = cancelDue
  BY <1>1 DEF P!Call, P!Main
<1>5. OuterFits'
  BY <1>1, <1>4, WaitNames, StatesStay DEF AuthInv, OuterFits
<1>6. SecretsFit(state, ctx)'
  BY <1>1, <1>4 DEF AuthInv, SecretsFit, P!HasConnection
<1>7. StoryFits(state, ctx, auth)'
  BY <1>1, <1>4 DEF AuthInv, StoryFits, Achieved, P!HasError
<1>8. OwnMoves
  BY <1>1, <1>4, WaitNames DEF OwnMoves
<1>9. QED
  BY <1>3, <1>5, <1>6, <1>7, <1>8 DEF AuthInv

-----------------------------------------------------------------------------
(***************************************************************************)
(* One lemma for the steps of each part of the workflow: first what comes  *)
(* before the card.                                                        *)
(***************************************************************************)
LEMMA PrologueHolds ==
  ASSUME AuthInv,
         StateProcessing \/ StateParseTcTokenUrl \/ StateLoadTcTokenUrl
  PROVE  AuthInv' /\ OwnMoves
<1>1. /\ state \in {"Processing", "ParseTcTokenUrl", "LoadTcTokenUrl"}
      /\ phase = "entered" /\ UNCHANGED auth
      /\ \/ Go(ContinueTo[state], ctx)
         \/ Go(AbortTo[state], Blamed(ctx))
  BY DEF StateProcessing, StateParseTcTokenUrl, StateLoadTcTokenUrl, Pass, Fail, Run
<1>2. state \in OwnStates \ {"ClearPacePasswords", "Done"}
  BY <1>1, StateNames, EndNames
<1>3. CASE Go(ContinueTo[state], ctx)
  <2>1. /\ ContinueTo[state] \in OwnStates
        /\ Onward(ContinueTo[state]) /\ Succeeds(ContinueTo[state])
    BY <1>1, EndTransitions, StateNames, EndNames, ChannelNames
       DEF Onward, Succeeds, Unconnected, Beginning, RightsStates, AfterDialogue,
           AfterRefresh, AfterHistory
  <2>2. QED
    BY <1>1, <1>2, <1>3, <2>1, PlainStep, ContextFollows DEF Reaches
<1>4. CASE Go(AbortTo[state], Blamed(ctx))
  <2>1. AbortTo[state] \in OwnStates /\ Onward(AbortTo[state])
    BY <1>1, EndAborts, StateNames, EndNames
       DEF Onward, Unconnected, Beginning, RightsStates, AfterHistory
  <2>2. QED
    BY <1>1, <1>2, <1>4, <2>1, PlainStep, BlamedFollows DEF Reaches
<1>5. QED
  BY <1>1, <1>3, <1>4

(* Without a TC token the channel is left with an error.                   *)
LEMMA NoTokenHolds ==
  ASSUME AuthInv, state = "GetTcToken",
         NEW a \in Auths, auth' = a, a.self = auth.self, a.eac1 = auth.eac1,
         a.history = auth.history, Go("CleanUpReaderManager", Blamed(ctx))
  PROVE  AuthInv' /\ OwnMoves
<1>1. "CleanUpReaderManager" \in OwnStates /\ state \in OwnStates \cap Waits
  BY StateNames, ChannelNames DEF Waits
<1>2. StoryFits("CleanUpReaderManager", Blamed(ctx), a)
  BY BlamedFollows DEF AuthInv, StoryFits, AfterHistory
<1>3. QED
  BY <1>1, <1>2, OwnStep, BlamedFollows DEF Reaches, Unconnected, Beginning,
     RightsStates

LEMMA TokenHolds ==
  ASSUME AuthInv, StateGetTcToken \/ parseTcToken
  PROVE  AuthInv' /\ OwnMoves
<1>1. state = "GetTcToken" /\ auth \in Auths /\ "GetTcToken" \in Waits
  BY DEF AuthInv, OuterFits, StateGetTcToken, parseTcToken, Await, Run, ReplyFor,
         Waits
<1>2. ChannelAbortTo["GetTcToken"] = "CleanUpReaderManager"
  BY ChannelAborts
<1>3. CASE NoTcToken
  <2>1. PICK known \in BOOLEAN : auth' = [auth EXCEPT !.notFound = @ /\ ~known]
    BY <1>3 DEF NoTcToken
  <2>2. /\ auth' \in Auths /\ auth'.self = auth.self /\ auth'.eac1 = auth.eac1
        /\ auth'.history = auth.history
    BY <1>1, <2>1 DEF Auths
  <2>3. QED
    BY <1>1, <1>2, <1>3, <2>2, NoTokenHolds DEF NoTcToken
<1>4. CASE Await("GetTcToken") /\ UNCHANGED auth
  BY <1>1, <1>4, AwaitStep DEF AuthInv
<1>5. CASE /\ \E conform \in BOOLEAN :
                auth' = [auth EXCEPT !.token = "invalid", !.notFound = ~conform]
           /\ Go(ChannelAbortTo["GetTcToken"], Blamed(ctx))
  <2>1. PICK conform \in BOOLEAN :
          auth' = [auth EXCEPT !.token = "invalid", !.notFound = ~conform]
    BY <1>5
  <2>2. /\ auth' \in Auths /\ auth'.self = auth.self /\ auth'.eac1 = auth.eac1
        /\ auth'.history = auth.history
    BY <1>1, <2>1 DEF Auths
  <2>3. QED
    BY <1>1, <1>2, <1>5, <2>2, NoTokenHolds
<1>6. CASE /\ auth' = [auth EXCEPT !.token = "valid", !.notFound = FALSE]
           /\ Go("StartPaos", ctx)
  <2>1. /\ auth' \in Auths /\ auth'.self = auth.self /\ auth'.eac1 = auth.eac1
        /\ auth'.history = auth.history /\ auth'.consent = auth.consent
        /\ auth'.token = "valid" /\ ~auth'.notFound
    BY <1>1, <1>6 DEF Auths
  <2>2. StoryFits("StartPaos", ctx, auth')
    BY <1>1, <2>1
       DEF AuthInv, StoryFits, Achieved, AfterHistory, AfterDialogue, AfterRefresh,
           RightsStates
  <2>3. "StartPaos" \in OwnStates /\ state \in OwnStates
    BY <1>1, StateNames, ChannelNames
  <2>4. QED
    BY <1>1, <1>6, <2>1, <2>2, <2>3, OwnStep, ContextFollows
       DEF Reaches, Unconnected, Beginning
<1>7. QED
  BY <1>3, <1>4, <1>5, <1>6 DEF StateGetTcToken, parseTcToken

(* The states of the channel that only go on, or check a certificate.      *)
LEMMA ContinueHolds ==
  ASSUME AuthInv,
         NEW s \in {"StartPaos", "InitializeFramework", "DidList",
                    "PreVerification", "CertificateDescriptionCheck",
                    "CheckCertificates", "ProcessCertificatesFromEac2"},
         Continue(s)
  PROVE  AuthInv' /\ OwnMoves
<1> DEFINE t == ChannelContinueTo[s]
<1>1. /\ state = s /\ phase = "entered" /\ Reaches(t, ctx) /\ UNCHANGED auth
      /\ state \in OwnStates \ {"ClearPacePasswords", "Done"}
  BY StateNames, ChannelNames DEF Continue, Run, Reaches
<1>2. t \in OwnStates /\ Onward(t) /\ Succeeds(t)
  BY <1>1, ChannelTransitions, StateNames, ChannelNames
     DEF Onward, Succeeds, Unconnected, Beginning, RightsStates, AfterDialogue,
         AfterRefresh, AfterHistory
<1>3. QED
  BY <1>1, <1>2, PlainStep, ContextFollows

LEMMA RefuseHolds ==
  ASSUME AuthInv,
         NEW s \in {"ExtractCvcsFromEac1InputType", "PreVerification",
                    "CertificateDescriptionCheck", "CheckCertificates",
                    "ProcessCertificatesFromEac2"},
         Refuse(s)
  PROVE  AuthInv' /\ OwnMoves
<1> DEFINE t == ChannelAbortTo[s]
<1>1. /\ state = s /\ phase = "entered" /\ Reaches(t, Blamed(ctx))
      /\ UNCHANGED auth /\ state \in OwnStates \ {"ClearPacePasswords", "Done"}
  BY StateNames, ChannelNames DEF Refuse, Run, Reaches
<1>2. t \in OwnStates /\ Onward(t)
  BY <1>1, ChannelAborts, StateNames, ChannelNames
     DEF Onward, Unconnected, Beginning, RightsStates, AfterHistory
<1>3. QED
  BY <1>1, <1>2, PlainStep, BlamedFollows

LEMMA RightsHold ==
  ASSUME AuthInv,
         \/ StateExtractCvcsFromEac1InputType \/ StatePreVerification
         \/ StateCertificateDescriptionCheck \/ StateCheckCertificates
  PROVE  AuthInv' /\ OwnMoves
<1>1. CASE /\ Run("ExtractCvcsFromEac1InputType")
           /\ \E can \in BOOLEAN : auth' = [auth EXCEPT !.canAllowed = can]
           /\ Go("PreVerification", ctx)
  <2>1. PICK can \in BOOLEAN : auth' = [auth EXCEPT !.canAllowed = can]
    BY <1>1
  <2>2. /\ auth \in Auths /\ auth' \in Auths /\ auth'.self = auth.self
        /\ auth'.eac1 = auth.eac1 /\ auth'.token = auth.token
        /\ auth'.notFound = auth.notFound /\ auth'.history = auth.history
    BY <2>1 DEF AuthInv, OuterFits, Auths
  <2>3. state = "ExtractCvcsFromEac1InputType" /\ phase = "entered"
    BY <1>1 DEF Run
  <2>4. StoryFits("PreVerification", ctx, auth')
    BY <2>2, <2>3
       DEF AuthInv, StoryFits, Achieved, Beginning, AfterHistory, AfterDialogue,
           AfterRefresh, RightsStates
  <2>5. "PreVerification" \in OwnStates /\ state \in OwnStates
    BY <2>3, StateNames, ChannelNames
  <2>6. QED
    BY <1>1, <2>2, <2>3, <2>4, <2>5, OwnStep, ContextFollows
       DEF Reaches, Unconnected, RightsStates
<1>2. QED
  BY <1>1, ContinueHolds, RefuseHolds
     DEF StateExtractCvcsFromEac1InputType, StatePreVerification,
         StateCertificateDescriptionCheck, StateCheckCertificates

-----------------------------------------------------------------------------
(***************************************************************************)
(* The dialogue with the server.                                           *)
(***************************************************************************)
(* What each message leads to.                                             *)
LEMMA Replies ==
  ASSUME NEW s \in SendStates, NEW type \in DOMAIN Received[s]
  PROVE  LET t == Received[s][type]
         IN /\ <<type, t>> \in
                 {<<"INITIALIZE_FRAMEWORK", "InitializeFramework">>,
                  <<"DID_LIST", "DidList">>,
                  <<"EAC1", "ExtractCvcsFromEac1InputType">>,
                  <<"EAC2", "EACAdditionalInputType">>,
                  <<"EAC_ADDITIONAL", "ProcessCertificatesFromEac2">>,
                  <<"TRANSMIT", "Transmit">>,
                  <<"DISCONNECT", "SendDisconnectResponse">>,
                  <<"STARTPAOS_RESPONSE", "StartPaosResponse">>}
            /\ t \in Unconnected => s \in Unconnected
<1> USE DEF Unconnected, Beginning, RightsStates
<1>1. CASE s = "SendStartPaos"
  BY <1>1 DEF Received
<1>2. CASE s = "SendInitializeFrameworkResponse"
  BY <1>2 DEF Received
<1>3. CASE s = "SendDIDListResponse"
  BY <1>3 DEF Received
<1>4. CASE s = "SendDIDAuthenticateResponseEAC1"
  BY <1>4 DEF Received
<1>5. CASE s = "SendDIDAuthenticateResponseEACAdditionalInputType"
  BY <1>5 DEF Received
<1>6. CASE s = "SendDIDAuthenticateResponseEAC2"
  BY <1>6 DEF Received
<1>7. CASE s = "SendTransmitResponse"
  BY <1>7 DEF Received
<1>8. CASE s = "SendDisconnectResponse"
  BY <1>8 DEF Received
<1>9. QED
  BY <1>1, <1>2, <1>3, <1>4, <1>5, <1>6, <1>7, <1>8, ChannelNames

LEMMA SendNames ==
  ASSUME NEW s \in SendStates
  PROVE  /\ s \in Waits /\ s \in OwnStates \ {"ClearPacePasswords", "Done"}
         /\ s \notin Beginning \cup RightsStates \cup AfterDialogue
         /\ s \notin {"FinalState", "StartPaosResponse"}
<1>1. s \in ChannelStates /\ s \in Waits
  BY ChannelNames DEF Waits
<1>2. s \notin Beginning \cup RightsStates \cup AfterDialogue
      /\ s \notin {"ClearPacePasswords", "Done", "FinalState", "StartPaosResponse"}
  BY ChannelNames
     DEF Beginning, RightsStates, AfterDialogue, AfterRefresh, AfterHistory
<1>3. QED
  BY <1>1, <1>2, StateNames

LEMMA SendHolds ==
  ASSUME AuthInv, NEW s \in SendStates, StateGenericSendReceive(s)
  PROVE  AuthInv' /\ OwnMoves
<1>1. Await(s) /\ auth \in Auths
  BY DEF StateGenericSendReceive, AuthInv, OuterFits
<1>2. /\ auth' \in Auths /\ auth'.self = auth.self
      /\ auth'.canAllowed = auth.canAllowed /\ auth'.token = auth.token
      /\ auth'.notFound = auth.notFound /\ auth'.serverSaid = auth.serverSaid
      /\ auth'.refreshUrl = auth.refreshUrl /\ auth'.eac1 = auth.eac1
      /\ auth'.consent = auth.consent /\ auth'.history = auth.history
      /\ auth'.answer = auth.answer
  BY <1>1 DEF StateGenericSendReceive, Auths
<1>3. StoryFits(state, ctx, auth')
  BY <1>2 DEF AuthInv, StoryFits, Achieved
<1>4. QED
  BY <1>1, <1>2, <1>3, SendNames, AwaitStep

LEMMA ReplyFailsHolds ==
  ASSUME AuthInv, NEW s \in SendStates, ReplyFails(s)
  PROVE  AuthInv' /\ OwnMoves
<1> DEFINE t == ChannelAbortTo[s]
<1>1. /\ state = s /\ Reaches(t, Blamed(ctx)) /\ UNCHANGED auth
  BY DEF ReplyFails, ReplyFor, Reaches
<1>2. t \in {"CleanUpReaderManager", "UpdateRetryCounterFinal"}
  BY ChannelAborts, ChannelNames
<1>3. /\ t \in OwnStates /\ t \notin Unconnected
      /\ t \notin {"FinalState", "Done", "StartPaosResponse"}
  BY <1>2, StateNames, ChannelNames DEF Unconnected, Beginning, RightsStates
<1> HIDE DEF t
<1>4. Onward(t)
  BY <1>1, <1>3, SendNames DEF Onward, AfterDialogue, AfterRefresh
<1>5. QED
  BY <1>1, <1>3, <1>4, SendNames, PlainStep, BlamedFollows

LEMMA ReceiveHolds ==
  ASSUME AuthInv, NEW s \in SendStates, NEW type \in DOMAIN Received[s],
         ReceiveMessage(s, type)
  PROVE  AuthInv' /\ OwnMoves
<1> DEFINE t == Received[s][type]
<1>1. /\ state = s /\ Reaches(t, ctx) /\ auth' \in WithMessage(type)
      /\ type = "TRANSMIT" => auth.transmits < MaxTransmits
      /\ auth \in Auths
  BY DEF ReceiveMessage, ReplyFor, Reaches, AuthInv, OuterFits
<1>2. /\ t \in OwnStates
      /\ t \in Unconnected => s \in Unconnected
      /\ t \notin Beginning \cup AfterDialogue
      /\ t = "StartPaosResponse" <=> type = "STARTPAOS_RESPONSE"
      /\ t \in RightsStates <=> type = "EAC1"
  BY Replies, StateNames, ChannelNames
     DEF Beginning, AfterDialogue, AfterRefresh, AfterHistory, RightsStates
<1> HIDE DEF t
<1>3. /\ auth' \in Auths /\ auth'.self = auth.self /\ auth'.token = auth.token
      /\ auth'.notFound = auth.notFound /\ auth'.consent = auth.consent
      /\ auth'.history = auth.history
      /\ type # "EAC1" => auth'.eac1 = auth.eac1
      /\ type = "STARTPAOS_RESPONSE" => auth'.serverSaid # "nothing"
  <2>1. CASE type = "STARTPAOS_RESPONSE"
    BY <1>1, <2>1 DEF WithMessage, Auths
  <2>2. CASE type = "EAC1"
    BY <1>1, <2>2 DEF WithMessage, Auths
  <2>3. CASE type = "TRANSMIT"
    <3>1. auth.transmits + 1 \in 0 .. MaxTransmits
      BY <1>1, <2>3, ServerAssumption DEF Auths
    <3>2. auth' = [auth EXCEPT !.transmits = @ + 1]
      BY <1>1, <2>3 DEF WithMessage
    <3>3. QED
      BY <1>1, <2>3, <3>1, <3>2 DEF Auths
  <2>4. CASE type \notin {"STARTPAOS_RESPONSE", "EAC1", "TRANSMIT"}
    BY <1>1, <2>4 DEF WithMessage
  <2>5. QED
    BY <2>1, <2>2, <2>3, <2>4
<1>4. s \notin AfterHistory /\ t \notin AfterRefresh /\ t \notin {"FinalState", "Done"}
  BY <1>2, SendNames DEF AfterDialogue, AfterRefresh, AfterHistory
<1>5. StoryFits(t, ctx, auth')
  BY <1>1, <1>2, <1>3, <1>4, SendNames DEF AuthInv, StoryFits, Achieved
<1>6. /\ state \in OwnStates \ {"ClearPacePasswords", "Done"} /\ state \in Waits
      /\ t \in Unconnected => state \in Unconnected
      /\ t = "Done" <=> state = "FinalState"
  BY <1>1, <1>2, <1>4, SendNames
<1>7. QED
  BY <1>1, <1>2, <1>3, <1>5, <1>6, OwnStep, ContextFollows

-----------------------------------------------------------------------------
(***************************************************************************)
(* The card.                                                               *)
(***************************************************************************)
(* The user, or a kill, lets the workflow go on to the card.               *)
LEMMA EditHolds ==
  ASSUME AuthInv, StateEditAccessRights
  PROVE  AuthInv' /\ OwnMoves
<1> DEFINE s == "MaintainCardConnection"
<1>1. /\ P!PaceInv /\ state = "EditAccessRights" /\ phase = "entered"
      /\ P!Go(s, ctx) /\ ctx \in P!Contexts /\ auth \in Auths
      /\ auth' = [auth EXCEPT !.consent = ~ctx.killed]
  BY SameProtocol
     DEF AuthInv, OuterFits, StateEditAccessRights, Run, P!PaceInv, P!PaceTypeOK
<1>2. /\ s \in P!PaceStates /\ state \in OwnStates \ {"Done"}
      /\ state \notin P!PaceStates
  BY <1>1, StateNames, ChannelNames DEF P!PaceStates
<1>3. ~P!HasConnection(ctx)
  BY <1>1 DEF AuthInv, SecretsFit, Unconnected, RightsStates
<1>4. P!ContextFits(s, ctx)
  BY <1>1, <1>2, <1>3, P!OutsideFits, ConstantsAssumption, UiAssumption
<1>5. P!PaceInv'
  BY <1>1, <1>4, P!GoKeeps, ConstantsAssumption, UiAssumption
<1>6. state' = s /\ phase' = "entered" /\ ctx' = ctx
  BY <1>1 DEF P!Go, P!Enter, P!Main
<1>7. /\ auth' \in Auths /\ auth'.self = auth.self /\ auth'.token = auth.token
      /\ auth'.notFound = auth.notFound /\ auth'.history = auth.history
      /\ auth'.consent = ~ctx.killed
  BY <1>1 DEF Auths, P!Contexts
<1>8. OuterFits'
  BY <1>2, <1>6, <1>7, StateNames, StatesStay DEF OuterFits
<1>9. SecretsFit(state, ctx)'
  BY <1>2, <1>6 DEF SecretsFit, Unconnected, Beginning, RightsStates
<1>10. StoryFits(state, ctx, auth)'
  <2>1. ~P!HasError(ctx) => ~ctx.killed
    BY <1>1 DEF P!PaceInv, P!ContextFits, P!ErrorFits
  <2>2. ~auth.history
    BY <1>1 DEF AuthInv, StoryFits, AfterHistory
  <2>3. ~P!HasError(ctx) => auth.token = "valid" /\ ~auth.notFound
    BY <1>1 DEF AuthInv, StoryFits, Achieved, Beginning
  <2>4. P!HasError(ctx)' <=> P!HasError(ctx)
    BY <1>6 DEF P!HasError
  <2>5. QED
    BY <1>6, <1>7, <2>1, <2>2, <2>3, <2>4
       DEF StoryFits, Achieved, AfterDialogue, AfterRefresh, AfterHistory
<1>11. OwnMoves
  BY <1>1, <1>2, <1>6, <1>7 DEF OwnMoves
<1>12. QED
  BY <1>5, <1>8, <1>9, <1>10, <1>11 DEF AuthInv

(* The composite, and where it is left.                                    *)
LEMMA PaceHolds ==
  ASSUME AuthInv, Pace!PaceStep, UNCHANGED auth
  PROVE  AuthInv'
<1>1. P!PaceInv /\ P!PaceStep /\ auth \in Auths
  BY SameComposite DEF AuthInv, OuterFits
<1>2. P!PaceInv'
  BY <1>1, P!PaceStepKeeps, Exits, ConstantsAssumption, UiAssumption
<1>3. P!Moves
  BY <1>1, P!PaceStepMoves, ConstantsAssumption, UiAssumption
<1>4. /\ state \in P!PaceStates /\ phase' \in {"entered", "waiting"}
      /\ state' \in P!PaceStates
           \cup {"Unreachable", "ClearPacePasswords", "SendDIDAuthenticateResponseEAC1"}
      /\ phase' = "waiting" => state' \in P!PaceStates
      /\ P!HasError(ctx) => P!HasError(ctx')
      /\ state' = "SendDIDAuthenticateResponseEAC1" =>
           \A k \in PasswordKinds : ctx'.pw[k] = NoPassword
  <2>1. phase' \in {"entered", "waiting"}
    BY <1>2 DEF P!PaceInv, P!PaceTypeOK
  <2>2. PasswordKinds = P!PasswordKinds
    BY DEF PasswordKinds, P!PasswordKinds
  <2>3. "SendDIDAuthenticateResponseEAC1" \notin P!PaceStates \cup {"Unreachable"}
    BY DEF P!PaceStates
  <2>4. QED
    BY <1>3, <2>1, <2>2, <2>3 DEF P!Moves, P!Leaves
<1>5. OuterFits'
  BY <1>1, <1>4, StateNames, ChannelNames, StatesStay DEF OuterFits, P!PaceStates
<1>6. SecretsFit(state, ctx)'
  BY <1>4 DEF SecretsFit, Unconnected, Beginning, RightsStates, P!PaceStates
<1>7. /\ state \notin Beginning \cup RightsStates \cup AfterHistory
      /\ state' \notin AfterDialogue
      /\ state' \notin {"StartPaosResponse", "FinalState", "Done"}
  BY <1>4 DEF P!PaceStates, Beginning, RightsStates, AfterDialogue, AfterRefresh,
     AfterHistory
<1>8. state' \notin AfterRefresh
  BY <1>7 DEF AfterDialogue
<1>9. StoryFits(state, ctx, auth)'
  BY <1>4, <1>7, <1>8 DEF AuthInv, StoryFits, Achieved, P!HasError
<1>10. QED
  BY <1>2, <1>5, <1>6, <1>9 DEF AuthInv

LEMMA ClearHolds ==
  ASSUME AuthInv, UNCHANGED auth,
         Pace!StateClearPacePasswords("ClearPacePasswords", "DidAuthenticateEac1")
  PROVE  AuthInv' /\ OwnMoves
<1> DEFINE s == "ClearPacePasswords"
           t == "DidAuthenticateEac1"
<1>1. P!PaceInv /\ P!StateClearPacePasswords(s, t)
  BY SameComposite DEF AuthInv
<1>2. /\ s \in OwnStates /\ t \in OwnStates
      /\ s \notin P!PaceStates /\ t \notin P!PaceStates
  BY StateNames, ChannelNames
<1>3. P!PaceInv'
  BY <1>1, <1>2, P!ClearKeeps, ConstantsAssumption, UiAssumption
<1>4. /\ state = s /\ phase = "entered" /\ state' = t /\ phase' = "entered"
      /\ ctx' = P!resetPacePasswords(ctx) /\ ctx \in P!Contexts
  BY <1>1 DEF P!StateClearPacePasswords, P!Run, P!Go, P!Enter, P!Main, P!PaceInv,
     P!PaceTypeOK
<1>5. /\ \A k \in P!PasswordKinds : ctx'.pw[k] = NoPassword
      /\ ctx'.status = ctx.status /\ ctx'.killed = ctx.killed
     
  BY <1>4, P!ResetKeeps, ConstantsAssumption, UiAssumption
<1>6. OuterFits'
  BY <1>2, <1>4, StatesStay DEF AuthInv, OuterFits, OwnStates
<1>7. SecretsFit(state, ctx)'
  BY <1>4, <1>5 DEF SecretsFit, Unconnected, Beginning, RightsStates, PasswordKinds,
     P!PasswordKinds
<1>8. StoryFits(state, ctx, auth)'
  BY <1>4, <1>5
     DEF AuthInv, StoryFits, Achieved, P!HasError, Beginning, RightsStates,
         AfterDialogue, AfterRefresh, AfterHistory
<1>9. OwnMoves
  BY <1>2, <1>4, <1>5 DEF OwnMoves
<1>10. QED
  BY <1>3, <1>6, <1>7, <1>8, <1>9 DEF AuthInv

(* The terminal authentication commands are handed over ...                *)
LEMMA EacRunHolds ==
  ASSUME AuthInv,
         \/ StateDidAuthenticateEac1 \/ StateDidAuthenticateEac2 \/ StateTransmit
  PROVE  AuthInv' /\ OwnMoves
<1>1. P!HasConnection(ctx)
  BY SameContext
     DEF StateDidAuthenticateEac1, StateDidAuthenticateEac2, StateTransmit
<1>2. {"DidAuthenticateEac1", "DidAuthenticateEac2", "Transmit"} \subseteq Waits
  BY DEF Waits
<1>3. {"DidAuthenticateEAC1", "DidAuthenticateEAC2", "Transmit"}
        \subseteq P!Operations
  BY DEF P!Operations
<1>4. CASE /\ Run("DidAuthenticateEac2") /\ UNCHANGED auth
           /\ Go("SendDIDAuthenticateResponseEAC2",
                 updateStatus(ctx, "Workflow_No_Permission_Error"))
  <2>1. "Workflow_No_Permission_Error" \in P!Statuses
    BY DEF P!Statuses
  <2>2. LET c == updateStatus(ctx, "Workflow_No_Permission_Error")
        IN Follows(c) /\ P!HasError(c)
    BY <2>1, StatusFollows
  <2>3. state = "DidAuthenticateEac2" /\ phase = "entered"
    BY <1>4 DEF Run
  <2>4. /\ state \in OwnStates /\ "SendDIDAuthenticateResponseEAC2" \in OwnStates
        /\ Onward("SendDIDAuthenticateResponseEAC2")
    BY <2>3, StateNames, ChannelNames
       DEF Onward, Unconnected, Beginning, RightsStates, AfterHistory
  <2>5. QED
    BY <1>4, <2>2, <2>3, <2>4, PlainStep DEF Reaches
<1>5. QED
  BY <1>1, <1>2, <1>3, <1>4, CallStep
     DEF StateDidAuthenticateEac1, StateDidAuthenticateEac2, StateTransmit

(* ... and come back with a result.                                        *)
LEMMA HeardResult ==
  ASSUME AuthInv, NEW s, Heard(s)
  PROVE  /\ state = s /\ jobs # <<>> /\ Result \in P!Codes
         /\ toGlobalStatus[Result] \in P!Statuses
<1>1. P!Heard(s) /\ P!PaceInv
  BY SameProtocol DEF AuthInv
<1>2. state = s /\ jobs # <<>> /\ P!Result \in P!Codes
  BY <1>1, P!HeardFacts, ConstantsAssumption, UiAssumption
<1>3. QED
  BY <1>2, SameContext, P!StatusTypes, ConstantsAssumption, UiAssumption

LEMMA EacDoneHolds ==
  ASSUME AuthInv,
         \/ DidAuthenticateEac1Done \/ DidAuthenticateEac2Done \/ TransmitDone
  PROVE  AuthInv' /\ OwnMoves
<1> DEFINE eac == {"DidAuthenticateEac1", "DidAuthenticateEac2", "Transmit"}
           sent == {"SendDIDAuthenticateResponseEAC1",
                    "SendDIDAuthenticateResponseEAC2", "SendTransmitResponse"}
<1>1. /\ {"Workflow_Card_Removed", "Workflow_No_Permission_Error"}
           \subseteq P!Statuses
      /\ "No_Error" \in P!Statuses
  BY P!StatusTypes, ConstantsAssumption, UiAssumption DEF P!Statuses, P!Codes
<1>2. \E s \in eac : Heard(s)
  BY DEF DidAuthenticateEac1Done, DidAuthenticateEac2Done, TransmitDone
<1>3. /\ state \in eac /\ jobs # <<>> /\ UNCHANGED auth
      /\ toGlobalStatus[Result] \in P!Statuses
  BY <1>2, HeardResult
     DEF DidAuthenticateEac1Done, DidAuthenticateEac2Done, TransmitDone
<1>4. \E t \in sent : \E c : Return(t, c) /\ Follows(c)
  BY <1>1, <1>3, StatusFollows, ContextFollows
     DEF DidAuthenticateEac1Done, DidAuthenticateEac2Done, TransmitDone
<1>5. PICK t \in sent : \E c : Return(t, c) /\ Follows(c)
  BY <1>4
<1>6. /\ t \in OwnStates /\ Onward(t) /\ Succeeds(t)
      /\ state \in OwnStates \ {"ClearPacePasswords", "Done"} /\ state \in Waits
  BY <1>3, StateNames, ChannelNames
     DEF Onward, Succeeds, Unconnected, Beginning, RightsStates, AfterDialogue,
         AfterRefresh, AfterHistory, Waits
<1>7. QED
  BY <1>3, <1>5, <1>6, PlainStep DEF Reaches

(* EAC2 may come in two messages.                                          *)
LEMMA AdditionalHolds ==
  ASSUME AuthInv, StateEACAdditionalInputType
  PROVE  AuthInv' /\ OwnMoves
<1>1. PICK s \in {"ProcessCertificatesFromEac2",
                  "SendDIDAuthenticateResponseEACAdditionalInputType"} : Go(s, ctx)
  BY DEF StateEACAdditionalInputType
<1>2. state = "EACAdditionalInputType" /\ phase = "entered" /\ UNCHANGED auth
  BY DEF StateEACAdditionalInputType, Run
<1>3. s \in OwnStates /\ Onward(s) /\ Succeeds(s) /\ state \in OwnStates
  BY <1>2, StateNames, ChannelNames
     DEF Onward, Succeeds, Unconnected, Beginning, RightsStates, AfterDialogue,
         AfterRefresh, AfterHistory
<1>4. QED
  BY <1>1, <1>2, <1>3, PlainStep, ContextFollows DEF Reaches

-----------------------------------------------------------------------------
(***************************************************************************)
(* The end of the dialogue, and the epilogue.                              *)
(***************************************************************************)
(* A server that confirms nothing leaves an error.                         *)
LEMMA VerdictHolds ==
  ASSUME AuthInv, StateStartPaosResponse
  PROVE  AuthInv' /\ OwnMoves
<1> DEFINE s == "UpdateRetryCounterFinal"
           c == IF auth.serverSaid = "error" THEN Blamed(ctx) ELSE ctx
<1>1. /\ state = "StartPaosResponse" /\ phase = "entered" /\ UNCHANGED auth
      /\ Go(s, c) /\ auth \in Auths
  BY DEF StateStartPaosResponse, Run, AuthInv, OuterFits
<1>2. /\ s \in OwnStates /\ s \notin Unconnected /\ s \notin {"FinalState", "Done"}
      /\ state \in OwnStates
  BY <1>1, StateNames, ChannelNames DEF Unconnected, Beginning, RightsStates
<1>3. Follows(c) /\ (auth.serverSaid = "error" => P!HasError(c))
  BY BlamedFollows, ContextFollows
<1>4. auth.serverSaid \in {"ok", "error"}
  BY <1>1 DEF AuthInv, StoryFits, Auths
<1> HIDE DEF c
<1>5. StoryFits(s, c, auth)
  BY <1>1, <1>3, <1>4
     DEF AuthInv, StoryFits, Achieved, Follows, Beginning, RightsStates, AfterRefresh,
         AfterHistory
<1>6. QED
  BY <1>1, <1>2, <1>3, <1>5, OwnStep DEF Reaches

(* The retry counter is read once more.                                    *)
LEMMA UpdateHolds ==
  ASSUME AuthInv, UNCHANGED auth,
         \/ Pace!StateUpdateRetryCounter("UpdateRetryCounterFinal",
                                         "CleanUpReaderManager")
         \/ Pace!UpdateRetryCounterDone("UpdateRetryCounterFinal",
                                        "CleanUpReaderManager",
                                        "CleanUpReaderManager")
  PROVE  AuthInv' /\ OwnMoves
<1> DEFINE s == "UpdateRetryCounterFinal"
           t == "CleanUpReaderManager"
           noConn == [ctx EXCEPT !.conn = NoConnection]
<1>1. \/ P!StateUpdateRetryCounter(s, t) \/ P!UpdateRetryCounterDone(s, t, t)
  BY SameComposite
<1>2. NoConnection = P!NoConnection
  BY DEF NoConnection, P!NoConnection
<1>3. \/ Run(s) /\ Reaches(t, ctx)
      \/ /\ Run(s) /\ P!HasConnection(ctx)
         /\ Call("UpdateRetryCounter", ctx.conn.reader, "UNKNOWN", NoPassword)
      \/ Heard(s) /\ (Reaches(t, ctx) \/ Reaches(t, noConn))
  BY <1>1, <1>2, SameProtocol
     DEF P!StateUpdateRetryCounter, P!UpdateRetryCounterDone, Reaches, Heard, Answered
<1>4. state = s /\ s \in Waits /\ "UpdateRetryCounter" \in P!Operations
  BY <1>3 DEF Run, Heard, Waits, P!Operations
<1>5. /\ t \in OwnStates /\ Onward(t) /\ Succeeds(t)
      /\ state \in OwnStates \ {"ClearPacePasswords", "Done"}
  BY <1>4, StateNames, ChannelNames
     DEF Onward, Succeeds, Unconnected, Beginning, RightsStates, AfterDialogue,
         AfterRefresh, AfterHistory
<1>6. Follows(ctx) /\ Follows(noConn)
  BY ContextFollows
<1>7. CASE Reaches(t, ctx) \/ Reaches(t, noConn)
  BY <1>4, <1>5, <1>6, <1>7, PlainStep
<1>8. CASE /\ Run(s) /\ P!HasConnection(ctx)
           /\ Call("UpdateRetryCounter", ctx.conn.reader, "UNKNOWN", NoPassword)
  BY <1>4, <1>8, CallStep
<1>9. QED
  BY <1>3, <1>7, <1>8

LEMMA CleanUpHolds ==
  ASSUME AuthInv, UNCHANGED auth,
         Pace!StateCleanUpReaderManager(AfterTrustedChannel)
  PROVE  AuthInv' /\ OwnMoves
<1> DEFINE c == [ctx EXCEPT !.conn = NoConnection]
<1>1. P!StateCleanUpReaderManager(AfterTrustedChannel)
  BY SameComposite
<1>2. NoConnection = P!NoConnection
  BY DEF NoConnection, P!NoConnection
<1>3. /\ state = "CleanUpReaderManager" /\ phase = "entered"
      /\ Reaches(AfterTrustedChannel, c)
  BY <1>1, <1>2, SameProtocol DEF P!StateCleanUpReaderManager, P!Run, Reaches
<1>4. AfterTrustedChannel \in {"CheckError", "CheckRefreshAddress"}
  BY DEF AfterTrustedChannel
<1>5. /\ AfterTrustedChannel \in OwnStates
      /\ Onward(AfterTrustedChannel) /\ Succeeds(AfterTrustedChannel)
      /\ state \in OwnStates \ {"ClearPacePasswords", "Done"}
  BY <1>3, <1>4, StateNames, EndNames, ChannelNames
     DEF Onward, Succeeds, Unconnected, Beginning, RightsStates, AfterDialogue,
         AfterRefresh, AfterHistory
<1>6. QED
  BY <1>3, <1>5, ContextFollows, PlainStep

(* The states of the epilogue that only go on, or leave with an error.     *)
LEMMA EndNext ==
  ASSUME AuthInv, phase = "entered" \/ state \in Waits,
         state \in {"CheckError", "CheckRefreshAddress",
                    "ActivateStoreFeedbackDialog", "WriteHistory",
                    "GetSelfAuthenticationData", "ShowSelfInfo",
                    "SendWhitelistSurvey"},
         UNCHANGED auth, NEW c, Follows(c),
         \/ /\ Reaches(ContinueTo[state], c)
            /\ state # "CheckRefreshAddress" \/ P!HasError(c)
         \/ /\ Reaches(AbortTo[state], c)
            /\ state \in {"WriteHistory", "SendWhitelistSurvey"} \/ P!HasError(c)
  PROVE  AuthInv' /\ OwnMoves
<1>1. state \in OwnStates \ {"ClearPacePasswords", "Done"}
  BY StateNames, EndNames
<1>2. ASSUME Reaches(ContinueTo[state], c),
             state # "CheckRefreshAddress" \/ P!HasError(c)
      PROVE  AuthInv' /\ OwnMoves
  <2> DEFINE t == ContinueTo[state]
  <2>1. t \in OwnStates /\ Onward(t)
    BY EndTransitions, StateNames, EndNames
       DEF Onward, Unconnected, Beginning, RightsStates, AfterHistory
  <2>2. state # "CheckRefreshAddress" => Succeeds(t)
    BY EndTransitions
       DEF Succeeds, Beginning, RightsStates, AfterDialogue, AfterRefresh,
           AfterHistory
  <2> HIDE DEF t
  <2>3. QED
    BY <1>1, <1>2, <2>1, <2>2, PlainStep DEF t
<1>3. ASSUME Reaches(AbortTo[state], c),
             state \in {"WriteHistory", "SendWhitelistSurvey"} \/ P!HasError(c)
      PROVE  AuthInv' /\ OwnMoves
  <2> DEFINE t == AbortTo[state]
  <2>1. t \in OwnStates /\ Onward(t)
    BY EndAborts, StateNames, EndNames
       DEF Onward, Unconnected, Beginning, RightsStates, AfterHistory
  <2>2. state \in {"WriteHistory", "SendWhitelistSurvey"} => Succeeds(t)
    BY EndAborts
       DEF Succeeds, Beginning, RightsStates, AfterDialogue, AfterRefresh,
           AfterHistory
  <2> HIDE DEF t
  <2>3. QED
    BY <1>1, <1>3, <2>1, <2>2, PlainStep DEF t
<1>4. QED
  BY <1>2, <1>3

LEMMA EpilogueHolds ==
  ASSUME AuthInv,
         \/ StateActivateStoreFeedbackDialog \/ StateShowSelfInfo
         \/ StateCheckError \/ StateSendWhitelistSurvey
         \/ StateGetSelfAuthenticationData \/ SelfAuthenticationData
  PROVE  AuthInv' /\ OwnMoves
<1>1. Follows(ctx) /\ Follows(Blamed(ctx)) /\ P!HasError(Blamed(ctx))
  BY ContextFollows, BlamedFollows
<1>2. HasError(ctx) <=> P!HasError(ctx)
  BY SameContext
<1>3. CASE StateActivateStoreFeedbackDialog \/ StateShowSelfInfo
  BY <1>1, <1>3, EndNext
     DEF StateActivateStoreFeedbackDialog, StateShowSelfInfo, Pass, Run, Reaches
<1>4. CASE StateCheckError
  <2>1. PICK toldUser \in BOOLEAN :
          Go(IF HasError(ctx) /\ ~toldUser /\ ~ctx.killed
               THEN AbortTo["CheckError"] ELSE ContinueTo["CheckError"], ctx)
    BY <1>4 DEF StateCheckError
  <2>2. \/ Go(AbortTo["CheckError"], ctx) /\ P!HasError(ctx)
        \/ Go(ContinueTo["CheckError"], ctx)
    BY <1>2, <2>1
  <2>3. QED
    BY <1>1, <1>4, <2>2, EndNext DEF StateCheckError, Run, Reaches
<1>5. CASE StateSendWhitelistSurvey
  BY <1>1, <1>5, EndNext DEF StateSendWhitelistSurvey, Run, Reaches
<1>6. CASE StateGetSelfAuthenticationData
  <2>1. "GetSelfAuthenticationData" \in Waits /\ auth \in Auths
    BY DEF Waits, AuthInv, OuterFits
  <2>2. QED
    BY <1>6, <2>1, AwaitStep DEF StateGetSelfAuthenticationData, AuthInv
<1>7. CASE SelfAuthenticationData
  <2>1. /\ state = "GetSelfAuthenticationData" /\ state \in Waits /\ UNCHANGED auth
        /\ \/ Reaches(ContinueTo[state], ctx)
           \/ Reaches(AbortTo[state], Blamed(ctx))
    BY <1>7 DEF SelfAuthenticationData, ReplyFor, Waits, Reaches
  <2>2. QED
    BY <1>1, <2>1, EndNext
<1>8. QED
  BY <1>3, <1>4, <1>5, <1>6, <1>7

(* A success needs the refresh address the token promised.                 *)
LEMMA RefreshHolds ==
  ASSUME AuthInv, StateCheckRefreshAddress \/ RefreshAddressChecked
  PROVE  AuthInv' /\ OwnMoves
<1> DEFINE s == "CheckRefreshAddress"
<1>1. /\ Follows(ctx) /\ Follows(Blamed(ctx)) /\ P!HasError(Blamed(ctx))
      /\ auth \in Auths /\ s \in Waits
  BY ContextFollows, BlamedFollows DEF AuthInv, OuterFits, Waits
<1>2. CASE /\ Run(s) /\ auth.token # "valid" /\ UNCHANGED auth
           /\ Go(ContinueTo[s], ctx)
  <2>1. state = s /\ phase = "entered" /\ s \notin Beginning
    BY <1>2 DEF Run, Beginning
  <2>2. P!HasError(ctx)
    BY <1>2, <2>1 DEF AuthInv, StoryFits, Achieved
  <2>3. QED
    BY <1>1, <1>2, <2>1, <2>2, EndNext DEF Reaches
<1>3. CASE Await(s) /\ UNCHANGED auth
  BY <1>1, <1>3, AwaitStep DEF AuthInv
<1>4. CASE /\ ReplyFor(s) /\ Go(ContinueTo[s], ctx)
           /\ auth' = [auth EXCEPT !.refreshUrl = TRUE]
  <2> DEFINE t == "ActivateStoreFeedbackDialog"
  <2>1. state = s /\ phase = "waiting" /\ ContinueTo[s] = t
    BY <1>4, EndTransitions DEF ReplyFor
  <2>2. /\ auth' \in Auths /\ auth'.self = auth.self /\ auth'.eac1 = auth.eac1
        /\ auth'.token = auth.token /\ auth'.notFound = auth.notFound
        /\ auth'.history = auth.history /\ auth'.consent = auth.consent
        /\ auth'.serverSaid = auth.serverSaid /\ auth'.refreshUrl = TRUE
    BY <1>1, <1>4 DEF Auths
  <2>3. StoryFits(t, ctx, auth')
    BY <2>1, <2>2
       DEF AuthInv, StoryFits, Achieved, Beginning, RightsStates, AfterDialogue,
           AfterRefresh, AfterHistory
  <2>4. t \in OwnStates /\ state \in OwnStates /\ t \notin Unconnected
    BY <2>1, StateNames, EndNames DEF Unconnected, Beginning, RightsStates
  <2>5. QED
    BY <1>1, <1>4, <2>1, <2>2, <2>3, <2>4, OwnStep DEF Reaches
<1>5. CASE ReplyFor(s) /\ Go(AbortTo[s], Blamed(ctx)) /\ UNCHANGED auth
  BY <1>1, <1>5, EndNext DEF ReplyFor, Reaches
<1>6. QED
  BY <1>2, <1>3, <1>4, <1>5 DEF StateCheckRefreshAddress, RefreshAddressChecked

(* Only a success is written to the history.                               *)
LEMMA HistoryHolds ==
  ASSUME AuthInv, StateWriteHistory
  PROVE  AuthInv' /\ OwnMoves
<1>1. /\ state = "WriteHistory" /\ phase = "entered" /\ auth \in Auths
      /\ Follows(ctx)
  BY ContextFollows DEF StateWriteHistory, Run, AuthInv, OuterFits
<1>2. CASE /\ auth.eac1 /\ ~HasError(ctx) /\ Go(ContinueTo["WriteHistory"], ctx)
           /\ auth' = [auth EXCEPT !.history = TRUE]
  <2> DEFINE t == ContinueTo["WriteHistory"]
  <2>1. t \in {"GetSelfAuthenticationData", "SendWhitelistSurvey"}
    BY EndTransitions
  <2>2. /\ t \in OwnStates /\ t \notin Unconnected /\ t \in AfterHistory
        /\ t \notin {"FinalState", "Done", "StartPaosResponse"} \cup RightsStates
        /\ state \in OwnStates
    BY <1>1, <2>1, StateNames, EndNames
       DEF Unconnected, Beginning, RightsStates, AfterHistory
  <2> HIDE DEF t
  <2>3. /\ auth' \in Auths /\ auth'.self = auth.self /\ auth'.eac1 = auth.eac1
        /\ auth'.token = auth.token /\ auth'.notFound = auth.notFound
        /\ auth'.consent = auth.consent /\ auth'.serverSaid = auth.serverSaid
        /\ auth'.refreshUrl = auth.refreshUrl
    BY <1>1, <1>2 DEF Auths
  <2>4. ~P!HasError(ctx)
    BY <1>2, SameContext
  <2>5. /\ auth.consent /\ auth.serverSaid = "ok" /\ auth.refreshUrl
        /\ auth.token = "valid" /\ ~auth.notFound
    BY <1>1, <1>2, <2>4
       DEF AuthInv, StoryFits, Achieved, Beginning, RightsStates, AfterDialogue,
           AfterRefresh
  <2>6. StoryFits(t, ctx, auth')
    BY <2>2, <2>3, <2>5 DEF StoryFits, Achieved
  <2>7. QED
    BY <1>1, <1>2, <2>2, <2>3, <2>6, OwnStep DEF Reaches, t
<1>3. QED
  BY <1>1, <1>2, EndNext DEF StateWriteHistory, Reaches

(* The browser is answered.                                                *)
LEMMA RedirectHolds ==
  ASSUME AuthInv, StateRedirectBrowser
  PROVE  AuthInv' /\ OwnMoves
<1> DEFINE t == "FinalState"
<1>1. PICK sent \in {Answer, "skipped", "lost"} :
        /\ Go(t, IF sent = "lost" THEN Blamed(ctx) ELSE ctx)
        /\ auth' = [auth EXCEPT !.answer = sent]
  BY DEF StateRedirectBrowser
<1> DEFINE c == IF sent = "lost" THEN Blamed(ctx) ELSE ctx
<1>2. /\ state = "RedirectBrowser" /\ phase = "entered" /\ auth \in Auths
      /\ sent \in {"error", "success", "skipped", "lost"}
  BY DEF StateRedirectBrowser, Run, AuthInv, OuterFits, Answer
<1>3. /\ auth' \in Auths /\ auth'.self = auth.self /\ auth'.eac1 = auth.eac1
      /\ auth'.token = auth.token /\ auth'.notFound = auth.notFound
      /\ auth'.consent = auth.consent /\ auth'.serverSaid = auth.serverSaid
      /\ auth'.refreshUrl = auth.refreshUrl /\ auth'.history = auth.history
      /\ auth'.answer # "none"
  BY <1>1, <1>2 DEF Auths
<1>4. Follows(c)
  BY BlamedFollows, ContextFollows
<1>5. Go(t, c)
  BY <1>1
<1> HIDE DEF c
<1>6. StoryFits(t, c, auth')
  BY <1>2, <1>3, <1>4
     DEF AuthInv, StoryFits, Achieved, Follows, Beginning, RightsStates,
         AfterDialogue, AfterRefresh, AfterHistory
<1>7. t \in OwnStates /\ state \in OwnStates /\ t \notin Unconnected
  BY <1>2, StateNames, EndNames DEF Unconnected, Beginning, RightsStates
<1>8. QED
  BY <1>2, <1>3, <1>4, <1>5, <1>6, <1>7, OwnStep DEF Reaches

LEMMA FinalHolds ==
  ASSUME AuthInv, StateFinal
  PROVE  AuthInv' /\ OwnMoves
<1>1. /\ state = "FinalState" /\ phase = "entered" /\ Go("Done", ctx)
      /\ UNCHANGED auth
  BY DEF StateFinal, Run
<1>2. /\ "Done" \in OwnStates /\ state \in OwnStates
      /\ Onward("Done") /\ Succeeds("Done")
  BY <1>1, StateNames
     DEF Onward, Succeeds, Unconnected, Beginning, RightsStates, AfterDialogue,
         AfterRefresh, AfterHistory
<1>3. QED
  BY <1>1, <1>2, PlainStep, ContextFollows DEF Reaches

-----------------------------------------------------------------------------
(***************************************************************************)
(* What happens around the workflow.                                       *)
(***************************************************************************)
LEMMA StartHolds ==
  ASSUME AuthInv, StartMachine(First), UNCHANGED auth
  PROVE  AuthInv'
<1>1. P!StartMachine(First) /\ P!PaceInv /\ auth \in Auths
  BY SameProtocol DEF AuthInv, OuterFits
<1>2. First \in {"Processing", "LoadTcTokenUrl"}
  BY DEF First
<1>3. /\ First \in OwnStates /\ First \in Beginning /\ First \notin Waits
      /\ First \notin P!PaceStates
  BY <1>2, StateNames, EndNames, WaitNames DEF Beginning
<1>4. /\ state = "Initial" /\ state' = First /\ UNCHANGED <<cancelDue, ctx, jobs>>
      /\ phase' = IF ctx.killed THEN "waiting" ELSE "entered"
  BY <1>1 DEF P!StartMachine
<1>5. jobs = <<>> /\ ~P!HasConnection(ctx) /\ First' = First
  BY <1>4 DEF AuthInv, OuterFits, SecretsFit, Unconnected, Beginning, First
<1>6. P!PaceInv'
  BY <1>1, <1>3, <1>5, P!StartKeeps, ConstantsAssumption, UiAssumption
<1>7. OuterFits'
  BY <1>1, <1>3, <1>4, <1>5, StateNames, StatesStay DEF OuterFits, OwnStates
<1>8. SecretsFit(state, ctx)'
  <2>1. "Initial" \notin P!PaceStates
    BY DEF P!PaceStates
  <2>2. QED
    BY <1>3, <1>4, <1>5, <2>1 DEF AuthInv, SecretsFit, P!HasConnection
<1>9. StoryFits(state, ctx, auth)'
  BY <1>2, <1>4
     DEF AuthInv, StoryFits, Achieved, P!HasError, Beginning, RightsStates,
         AfterDialogue, AfterRefresh, AfterHistory
<1>10. QED
  BY <1>6, <1>7, <1>8, <1>9 DEF AuthInv

(* The machine stays where it is.                                          *)
LEMMA StayKeeps ==
  ASSUME AuthInv, P!PaceInv', UNCHANGED <<state, phase, cancelDue, auth>>,
         P!ContextStays, state = "Initial" => UNCHANGED jobs
  PROVE  AuthInv'
<1>1. /\ ctx'.pw = ctx.pw /\ ctx'.killed = ctx.killed
     
      /\ P!HasError(ctx') <=> P!HasError(ctx)
      /\ P!HasConnection(ctx') <=> P!HasConnection(ctx)
  BY DEF P!ContextStays, P!HasError
<1>2. OuterFits'
  BY <1>1, StatesStay DEF AuthInv, OuterFits, First
<1>3. SecretsFit(state, ctx)'
  BY <1>1 DEF AuthInv, SecretsFit
<1>4. StoryFits(state, ctx, auth)'
  BY <1>1 DEF AuthInv, StoryFits, Achieved
<1>5. QED
  BY <1>2, <1>3, <1>4 DEF AuthInv

LEMMA DropHolds ==
  ASSUME AuthInv, DropResult, UNCHANGED auth
  PROVE  AuthInv'
<1>1. P!PaceInv /\ P!DropResult
  BY SameProtocol DEF AuthInv
<1>2. P!PaceInv'
  BY <1>1, P!DropResultKeeps, ConstantsAssumption, UiAssumption
<1>3. P!DropMoves
  BY <1>1, P!DropsMove, ConstantsAssumption, UiAssumption
<1>4. state # "Initial"
  BY <1>1 DEF P!DropResult, P!Answered, AuthInv, OuterFits
<1>5. QED
  BY <1>2, <1>3, <1>4, StayKeeps DEF P!DropMoves

(* The ReaderManager thread.                                               *)
LEMMA CommandHolds ==
  ASSUME AuthInv, Pace!ExecuteCommand, UNCHANGED auth
  PROVE  AuthInv'
<1>1. P!PaceInv /\ P!ExecuteCommand
  BY SameCommands DEF AuthInv
<1>2. P!PaceInv'
  BY <1>1, P!CommandKeeps, ConstantsAssumption, UiAssumption
<1>3. P!CommandMoves
  BY <1>1, P!CommandsMove, ConstantsAssumption, UiAssumption
<1>4. jobs # <<>>
  BY <1>1 DEF P!ExecuteCommand, P!AuthenticationCommand, P!CreateCardConnection,
     P!UpdateRetryCounter, P!EstablishPacePin, P!EstablishPaceCan, P!UnblockPin,
     P!SetEidPin, P!DestroyPaceChannel, P!Pending
<1>5. state # "Initial"
  BY <1>4 DEF AuthInv, OuterFits
<1>6. QED
  BY <1>2, <1>3, <1>5, StayKeeps DEF P!CommandMoves

(* The composite is left for one of its own states.                        *)
LEMMA InsideKeeps ==
  ASSUME AuthInv, P!PaceInv', state \in P!PaceStates, state' \in P!PaceStates,
         P!HasError(ctx) => P!HasError(ctx'), UNCHANGED auth
  PROVE  AuthInv'
<1>1. /\ state' # "Initial" /\ state' \notin Unconnected \cup AfterDialogue
      /\ state \notin Beginning \cup RightsStates \cup AfterHistory
      /\ state' \notin {"StartPaosResponse", "FinalState", "Done"}
  BY DEF P!PaceStates, Unconnected, Beginning, RightsStates, AfterDialogue,
         AfterRefresh, AfterHistory
<1>2. OuterFits'
  BY <1>1, StateNames, StatesStay DEF AuthInv, OuterFits
<1>3. SecretsFit(state, ctx)'
  BY <1>1 DEF SecretsFit
<1>4. StoryFits(state, ctx, auth)'
  BY <1>1 DEF AuthInv, StoryFits, Achieved, AfterDialogue
<1>5. QED
  BY <1>2, <1>3, <1>4 DEF AuthInv

(* The readers, the cards and the user interface.                          *)
LEMMA EnvironmentHolds ==
  ASSUME AuthInv, P!Environment, UNCHANGED auth
  PROVE  AuthInv'
<1>1. P!PaceInv /\ P!PaceInv'
  BY P!EnvironmentKeeps, ConstantsAssumption, UiAssumption DEF AuthInv
<1>2. P!EnvironmentMoves
  BY <1>1, P!EnvironmentsMove, ConstantsAssumption, UiAssumption
<1>3. CASE UNCHANGED <<state, phase>>
  <2>1. state \in {"SelectReader", "ConnectCard"} =>
          state \in P!PaceStates /\ state' \in P!PaceStates
    BY <1>3 DEF P!PaceStates
  <2>2. CASE state \in {"SelectReader", "ConnectCard"}
    BY <1>1, <1>2, <2>1, <2>2, InsideKeeps DEF P!EnvironmentMoves
  <2>3. CASE state \notin {"SelectReader", "ConnectCard"}
    BY <1>1, <1>2, <2>3, StayKeeps DEF P!EnvironmentMoves
  <2>4. QED
    BY <2>2, <2>3
<1>4. CASE ~UNCHANGED <<state, phase>>
  <2>1. /\ state \in P!PaceStates /\ state' \in P!PaceStates
        /\ P!HasError(ctx) => P!HasError(ctx')
    BY <1>2, <1>4 DEF P!EnvironmentMoves, P!PaceStates
  <2>2. QED
    BY <1>1, <2>1, InsideKeeps
<1>5. QED
  BY <1>3, <1>4

(* The card is taken away in front of a state that listens to it.          *)
LEMMA CardRemovedHolds ==
  ASSUME AuthInv, NEW r \in Readers, onCardRemoved(r)
  PROVE  AuthInv' /\ OwnMoves
<1> DEFINE t == ChannelAbortTo[state]
           d == P!InfoChanged(r, NoCard, -1)
           e == updateStatus(d, "Workflow_Card_Removed")
<1>1. /\ P!PaceInv /\ ctx \in P!Contexts /\ auth \in Auths /\ UNCHANGED auth
      /\ state \in HearsCardRemoved /\ phase = "waiting"
      /\ state' = t /\ phase' = "entered"
      /\ UNCHANGED <<cancelDue, card, spent>>
      /\ jobs' = P!Unheard(jobs) /\ ctx' = e
      /\ reader' = [reader EXCEPT ![r] =
                      [card |-> NoCard, counter |-> -1, session |-> "closed"]]
  BY SameContext
     DEF AuthInv, OuterFits, onCardRemoved, Enter, P!PaceInv, P!PaceTypeOK
<1>2. P!NothingSentBefore /\ ~cancelDue
  BY DEF onCardRemoved, Quiet, Pace!NothingSentBefore, P!NothingSentBefore,
         Pace!Result, P!Result
<1>3. -1 \in P!Counters /\ "closed" \in P!Sessions
  BY DEF P!Counters, P!Sessions
<1>4. /\ d \in P!Contexts /\ d.pw = ctx.pw /\ d.vanished = ctx.vanished
      /\ d.status = ctx.status /\ d.killed = ctx.killed
      /\ d.doubted = ctx.doubted
      /\ d.conn.reader = ctx.conn.reader
      /\ d.conn.counter = (IF ctx.conn.reader = r THEN -1 ELSE ctx.conn.counter)
      /\ P!HasConnection(d) <=> P!HasConnection(ctx)
  <2>1. ~P!Doubtful(NoCard, -1)
    BY ConstantsAssumption DEF P!Doubtful
  <2>2. ctx.doubted \in BOOLEAN /\ d.doubted \in BOOLEAN
    BY <1>1, <1>3, P!InfoChangedFacts, ConstantsAssumption, UiAssumption
       DEF P!Contexts
  <2>3. QED
    BY <1>1, <1>3, <2>1, <2>2, P!InfoChangedFacts, ConstantsAssumption, UiAssumption
<1> HIDE DEF d
<1>5. "Workflow_Card_Removed" \in P!Statuses
  BY DEF P!Statuses
<1>6. e = P!updateStatus(d, "Workflow_Card_Removed")
  BY SameContext
<1>7. /\ e \in P!Contexts /\ e.pw = d.pw /\ e.vanished = d.vanished
      /\ e.conn = d.conn /\ e.killed = d.killed /\ P!HasError(e)
      /\ e.doubted = d.doubted
  BY <1>4, <1>5, <1>6, P!UpdateStatusKeeps, ConstantsAssumption, UiAssumption
<1> HIDE DEF e
<1>8. /\ state \in Waits /\ state \notin Unconnected
      /\ state \in OwnStates \ {"ClearPacePasswords", "Done", "FinalState"}
  BY <1>1, StateNames, ChannelNames
     DEF HearsCardRemoved, Waits, Unconnected, Beginning, RightsStates
<1>9. t \in {"SendDIDAuthenticateResponseEAC1", "SendDIDAuthenticateResponseEAC2",
             "SendTransmitResponse", "UpdateRetryCounterFinal"}
  BY <1>1, ChannelNames, ChannelAborts, ChannelTransitions DEF HearsCardRemoved
<1>10. /\ t \in OwnStates /\ t \notin P!PaceStates /\ t \notin Unconnected
       /\ t \notin {"Initial", "FinalState", "Done", "StartPaosResponse"}
  BY <1>9, StateNames, ChannelNames DEF Unconnected, Beginning, RightsStates
<1> HIDE DEF t
<1>11. P!PaceInv'
  <2>1. jobs \in Seq(P!Jobs) /\ reader \in [Readers -> P!ReaderStates]
    BY <1>1 DEF P!PaceInv, P!PaceTypeOK
  <2>2. \A i \in 1 .. Len(jobs) : jobs[i].op # "CreateCardConnection"
                                    => jobs[i].result = "PENDING"
    BY <1>1, <1>2, P!NothingSentFacts, ConstantsAssumption, UiAssumption
  <2>3. jobs' \in Seq(P!Jobs) /\ P!JobsFit' /\ P!ResultsTrue'
    BY <1>1, <2>1, <2>2, P!UnheardFits, ConstantsAssumption, UiAssumption
  <2>4. reader' \in [Readers -> P!ReaderStates]
    BY <1>1, <1>3, <2>1 DEF P!ReaderStates
  <2>5. P!PaceTypeOK'
    BY <1>1, <1>7, <2>3, <2>4 DEF P!PaceInv, P!PaceTypeOK
  <2>6. P!ConnectionFits(t, e) /\ P!ErrorFits(t, e)
    BY <1>1, <1>2, <1>4, <1>7, <1>10
       DEF P!PaceInv, P!ContextFits, P!ConnectionFits, P!ErrorFits, P!PaceStates,
           P!HasConnection
  <2>7. P!ConnectionFits(state, ctx)' /\ P!ErrorFits(state, ctx)'
    BY <1>1, <2>6 DEF P!ConnectionFits, P!ErrorFits, P!HasConnection, P!HasError
  <2>8. P!InfoFits(ctx)'
    <3>1. ASSUME ~e.doubted, P!HasConnection(e)
          PROVE  LET known == reader'[e.conn.reader]
                 IN /\ e.conn.counter = known.counter
                    /\ ~P!Doubtful(known.card, known.counter)
      <4>1. /\ P!HasConnection(ctx) /\ ~ctx.doubted
            /\ ctx.conn.reader \in Readers /\ e.conn.reader = ctx.conn.reader
        BY <1>1, <1>4, <1>7, <3>1
           DEF P!HasConnection, P!PaceInv, P!ContextFits, P!ConnectionFits
      <4>2. LET known == reader[ctx.conn.reader]
            IN /\ ctx.conn.counter = known.counter
               /\ ~P!Doubtful(known.card, known.counter)
        BY <1>1, <4>1 DEF P!PaceInv, P!ContextFits, P!InfoFits
      <4>3. ~P!Doubtful(NoCard, -1)
        BY ConstantsAssumption DEF P!Doubtful
      <4>4. QED
        BY <1>1, <1>4, <1>7, <2>1, <4>1, <4>2, <4>3
    <3>2. QED
      BY <1>1, <3>1 DEF P!InfoFits, P!HasConnection
  <2>9. P!CardFits(state, ctx)' /\ P!WaitFits'
    BY <1>1, <1>10 DEF P!CardFits, P!WaitFits, P!PaceStates
  <2>10. QED
    BY <2>3, <2>5, <2>7, <2>8, <2>9 DEF P!PaceInv, P!ContextFits
<1>12. OuterFits'
  BY <1>1, <1>10, StatesStay DEF OuterFits, OwnStates
<1>13. SecretsFit(state, ctx)'
  <2>1. state \notin P!PaceStates \cup {"ClearPacePasswords", "Unreachable"}
    BY <1>8 DEF OwnStates
  <2>2. QED
    BY <1>1, <1>4, <1>7, <1>10, <2>1 DEF AuthInv, SecretsFit
<1>14. StoryFits(state, ctx, auth)'
  <2>1. state \notin AfterHistory
    BY <1>1, ChannelNames DEF HearsCardRemoved, AfterHistory
  <2>2. P!HasError(ctx)'
    BY <1>1, <1>7 DEF P!HasError
  <2>3. QED
    BY <1>1, <1>10, <2>1, <2>2 DEF AuthInv, StoryFits
<1>15. OwnMoves
  BY <1>1, <1>4, <1>7, <1>8, <1>10 DEF OwnMoves
<1>16. QED
  BY <1>11, <1>12, <1>13, <1>14, <1>15 DEF AuthInv

(* fireAbort of each state, as far as a cancel can meet it.                *)
LEMMA Aborts ==
  ASSUME state \in States \ {"Initial", "Done", "ClearPacePasswords",
                             "ClearPacePasswordsOnError",
                             "ClearPacePasswordsBeforeDestroy", "RedirectBrowser"}
  PROVE  LET t == AbortTarget[state]
         IN /\ t \in States
            /\ t \notin {"Initial", "Done", "ClearPacePasswords", "StartPaosResponse"}
            /\ t = state <=> state \in {"FinalState", "Unreachable"}
            /\ t \in P!PaceStates =>
                 /\ t \in {"MaintainCardConnection", "ClearPacePasswordsOnError"}
                 /\ state \in P!PaceStates
            /\ (state \in P!PaceStates /\ t \notin P!PaceStates)
                 => state = "DestroyPace" /\ t = "SendDIDAuthenticateResponseEAC1"
            /\ t \in Unconnected => state \in Unconnected
            /\ state \in AfterHistory => t \in AfterHistory
            /\ t = "FinalState" => auth.self \/ state = "FinalState"
<1> DEFINE t == AbortTarget[state]
<1>1. Pace!PaceStates = P!PaceStates
  BY SameContext
<1>2. CASE state \in P!PaceStates
  <2>1. /\ t = Pace!PaceAbortTarget[state]
        /\ \/ t \in {"MaintainCardConnection", "ClearPacePasswordsOnError"}
           \/ state = "DestroyPace" /\ t = "SendDIDAuthenticateResponseEAC1"
    BY <1>1, <1>2 DEF AbortTarget, Pace!PaceAbortTarget, P!PaceStates
  <2>2. {"MaintainCardConnection", "ClearPacePasswordsOnError"}
          \subseteq P!PaceStates
    BY DEF P!PaceStates
  <2>3. t = state => FALSE
    BY <1>2, <2>1, <1>1 DEF Pace!PaceAbortTarget, P!PaceStates
  <2>4. state \notin {"FinalState", "Unreachable"}
    BY <1>2 DEF P!PaceStates
  <2>5. "SendDIDAuthenticateResponseEAC1" \in OwnStates
    BY StateNames, ChannelNames
  <2>6. /\ t \in States
        /\ t \notin {"Initial", "Done", "ClearPacePasswords", "StartPaosResponse",
                     "FinalState"} \cup Unconnected
    BY <2>1, <2>2, <2>5, StateNames DEF Unconnected, Beginning, RightsStates
  <2>7. state \notin AfterHistory
    BY <1>2 DEF AfterHistory, P!PaceStates
  <2>8. t \in P!PaceStates =>
          t \in {"MaintainCardConnection", "ClearPacePasswordsOnError"}
    BY <2>1, <2>5, StateNames
  <2>9. QED
    BY <1>2, <2>1, <2>2, <2>3, <2>4, <2>6, <2>7, <2>8
<1>3. CASE state \in ChannelStates
  <2>1. state \notin P!PaceStates /\ t = ChannelAbortTo[state]
    BY <1>1, <1>3, StateNames DEF AbortTarget
  <2>2. CASE state \in {"InitializeFramework", "DidList", "DidAuthenticateEac1",
                        "DidAuthenticateEac2", "Transmit", "StartPaosResponse",
                        "UpdateRetryCounterFinal", "CleanUpReaderManager"}
    <3>1. <<state, t>> \in
            {<<"InitializeFramework", "SendInitializeFrameworkResponse">>,
             <<"DidList", "SendDIDListResponse">>,
             <<"DidAuthenticateEac1", "SendDIDAuthenticateResponseEAC1">>,
             <<"DidAuthenticateEac2", "SendDIDAuthenticateResponseEAC2">>,
             <<"Transmit", "SendTransmitResponse">>,
             <<"StartPaosResponse", "UpdateRetryCounterFinal">>,
             <<"UpdateRetryCounterFinal", "CleanUpReaderManager">>,
             <<"CleanUpReaderManager", "CheckError">>,
             <<"CleanUpReaderManager", "CheckRefreshAddress">>}
      BY <2>1, <2>2, ChannelAborts, ChannelTransitions DEF AfterTrustedChannel
    <3>2. t \in OwnStates /\ t # "FinalState" /\ t # state
      BY <3>1, StateNames, ChannelNames, EndNames
    <3>3. /\ t \notin {"Initial", "Done", "ClearPacePasswords", "StartPaosResponse"}
          /\ t \in Unconnected => state \in Unconnected
          /\ state \notin AfterHistory \cup {"FinalState", "Unreachable"}
      BY <3>1 DEF Unconnected, Beginning, RightsStates, AfterHistory
    <3>4. QED
      BY <2>1, <3>2, <3>3, StateNames
  <2>3. CASE state \in {"GetTcToken", "StartPaos", "EACAdditionalInputType",
                        "ProcessCertificatesFromEac2"} \cup RightsStates \cup SendStates
    <3>1. /\ t \in {"CleanUpReaderManager", "SendDIDAuthenticateResponseEAC1",
                    "SendDIDAuthenticateResponseEACAdditionalInputType",
                    "SendDIDAuthenticateResponseEAC2", "UpdateRetryCounterFinal"}
          /\ t # state
      BY <2>1, <2>3, ChannelAborts, ChannelNames DEF RightsStates
    <3>2. /\ t \in OwnStates
          /\ t \notin {"Initial", "Done", "ClearPacePasswords", "StartPaosResponse",
                       "FinalState"} \cup Unconnected
      BY <3>1, StateNames, ChannelNames DEF Unconnected, Beginning, RightsStates
    <3>3. state \notin AfterHistory \cup {"FinalState", "Unreachable"}
      BY <2>3, ChannelNames DEF RightsStates, AfterHistory
    <3>4. QED
      BY <2>1, <3>1, <3>2, <3>3, StateNames
  <2>4. QED
    BY <1>3, <2>2, <2>3, ChannelNames DEF RightsStates
<1>4. CASE state \in DOMAIN ContinueTo
  <2>1. /\ state \notin P!PaceStates /\ state \notin ChannelStates
        /\ t = AbortTo[state]
    BY <1>1, <1>4, StateNames, ChannelNames, EndNames DEF AbortTarget
  <2>2. t \in OwnStates /\ t # state
    BY <1>4, <2>1, EndAborts, EndNames, StateNames
  <2>3. /\ t \notin {"Initial", "Done", "ClearPacePasswords", "StartPaosResponse"}
        /\ t \notin Unconnected
        /\ state \in AfterHistory => t \in AfterHistory
        /\ t = "FinalState" => auth.self
        /\ state \notin {"FinalState", "Unreachable"}
    BY <1>4, <2>1, EndAborts, EndNames
       DEF Unconnected, Beginning, RightsStates, AfterHistory
  <2>4. QED
    BY <2>1, <2>2, <2>3, StateNames
<1>5. CASE state \in {"FinalState", "Unreachable"}
  <2>1. /\ state \notin P!PaceStates /\ state \notin ChannelStates
        /\ state \notin DOMAIN ContinueTo
    BY <1>5, StateNames, ChannelNames, EndNames
  <2>2. t = state
    BY <1>1, <2>1 DEF AbortTarget
  <2>3. QED
    BY <1>5, <2>1, <2>2
<1>6. QED
  BY <1>2, <1>3, <1>4, <1>5, StateNames

(* Where a cancel is possible.                                             *)
LEMMA CancelPlaces ==
  ASSUME AuthInv, Quiet \/ phase = "waiting", state \notin {"Initial", "Done"}
  PROVE  /\ state \in States \ {"Initial", "Done", "ClearPacePasswords",
                                "ClearPacePasswordsOnError",
                                "ClearPacePasswordsBeforeDestroy", "RedirectBrowser"}
         /\ state \in {"FinalState", "Unreachable"} => phase = "entered"
<1>1. /\ state \in States /\ phase \in {"entered", "waiting"} /\ P!WaitFits
  BY DEF AuthInv, OuterFits, P!PaceInv, P!PaceTypeOK
<1>2. CASE phase = "waiting"
  <2>1. CASE state \in P!PaceStates
    <3>1. state \in P!PaceWaits \cup {"MaintainCardConnection"}
      BY <1>1, <1>2, <2>1 DEF P!WaitFits
    <3>2. QED
      BY <1>1, <3>1 DEF P!PaceWaits
  <2>2. CASE state \notin P!PaceStates
    <3>1. state \in Waits \/ state = First
      BY <1>2, <2>2 DEF AuthInv, OuterFits
    <3>2. state \notin {"ClearPacePasswords", "ClearPacePasswordsOnError",
                        "ClearPacePasswordsBeforeDestroy", "RedirectBrowser",
                        "FinalState", "Unreachable"}
      BY <3>1, ChannelNames DEF Waits, First
    <3>3. QED
      BY <1>1, <3>2
  <2>3. QED
    BY <2>1, <2>2
<1>3. CASE phase = "entered"
  <2>1. state \in UiHolds
    BY <1>3 DEF Quiet
  <2>2. QED
    BY <1>1, <1>3, <2>1, UiAssumption, RedirectAssumption
<1>4. QED
  BY <1>1, <1>2, <1>3

LEMMA CancelHolds ==
  ASSUME AuthInv, Quiet \/ phase = "waiting", state \notin {"Initial", "Done"},
         onUserCancelled(AbortTarget[state]), UNCHANGED auth,
         cancelDue' = cancelDue \/ cancelDue' = FALSE
  PROVE  AuthInv'
<1> DEFINE t == AbortTarget[state]
<1>1. P!PaceInv /\ P!onUserCancelled(t) /\ auth \in Auths
  BY SameProtocol DEF AuthInv, OuterFits
<1>2. /\ t \in States
      /\ t \notin {"Initial", "Done", "ClearPacePasswords", "StartPaosResponse"}
      /\ t = state <=> state \in {"FinalState", "Unreachable"}
      /\ t \in P!PaceStates =>
           /\ t \in {"MaintainCardConnection", "ClearPacePasswordsOnError"}
           /\ state \in P!PaceStates
      /\ (state \in P!PaceStates /\ t \notin P!PaceStates)
           => state = "DestroyPace" /\ t = "SendDIDAuthenticateResponseEAC1"
      /\ t \in Unconnected => state \in Unconnected
      /\ state \in AfterHistory => t \in AfterHistory
      /\ t = "FinalState" => (auth.self \/ state = "FinalState")
  BY CancelPlaces, Aborts
<1> HIDE DEF t
<1>3. t = state => state \notin P!PaceStates
  BY <1>2, StateNames
<1>4. P!PaceInv' /\ P!HasError(ctx')
  BY <1>1, <1>2, <1>3, P!CancelKeeps, ConstantsAssumption, UiAssumption
<1>5. P!CancelMoves(t)
  BY <1>1, P!CancelsMove, ConstantsAssumption, UiAssumption
<1>6. /\ ctx'.pw = ctx.pw /\ ctx'.conn = ctx.conn /\ state' = t
      /\ phase' = "entered"
  BY <1>2, <1>5, CancelPlaces DEF P!CancelMoves
<1>7. OuterFits'
  BY <1>1, <1>2, <1>6, StatesStay DEF OuterFits
<1>8. SecretsFit(state, ctx)'
  <2>1. t \in Unconnected => ~P!HasConnection(ctx')
    BY <1>2, <1>6 DEF AuthInv, SecretsFit, P!HasConnection
  <2>2. ASSUME t \notin P!PaceStates \cup {"ClearPacePasswords", "Unreachable"}
        PROVE  \A k \in PasswordKinds : ctx.pw[k] = NoPassword
    <3>1. CASE state \in P!PaceStates
      BY <1>1, <1>2, <2>2, <3>1
         DEF P!PaceInv, P!ContextFits, P!ConnectionFits, PasswordKinds,
             P!PasswordKinds
    <3>2. CASE state \notin P!PaceStates
      <4>1. state \notin {"ClearPacePasswords", "Unreachable"}
        BY <1>2, <2>2, CancelPlaces
      <4>2. QED
        BY <3>2, <4>1 DEF AuthInv, SecretsFit
    <3>3. QED
      BY <3>1, <3>2
  <2>3. QED
    BY <1>6, <2>1, <2>2 DEF SecretsFit
<1>9. StoryFits(state, ctx, auth)'
  <2>1. t \in {"FinalState", "Done"} => (auth.self \/ state = "FinalState")
    BY <1>2
  <2>2. P!HasError(ctx)'
    BY <1>4 DEF P!HasError
  <2>3. QED
    BY <1>2, <1>6, <2>1, <2>2 DEF AuthInv, StoryFits
<1>10. QED
  BY <1>4, <1>7, <1>8, <1>9 DEF AuthInv

LEMMA KillHolds ==
  ASSUME AuthInv, killWorkflow, UNCHANGED auth
  PROVE  AuthInv'
<1>1. P!PaceInv /\ P!killWorkflow
  BY SameProtocol DEF AuthInv
<1>2. P!PaceInv' /\ P!HasError(ctx')
  BY <1>1, P!KillKeeps, ConstantsAssumption, UiAssumption
<1>3. /\ UNCHANGED <<state, phase, jobs>> /\ cancelDue' = (state # "Initial")
      /\ ctx' = [ctx EXCEPT !.killed = TRUE,
                            !.status = "Card_Cancellation_By_User"]
  BY <1>1 DEF P!killWorkflow
<1>4. ctx'.pw = ctx.pw /\ ctx'.conn = ctx.conn /\ ctx'.killed
  BY <1>1, <1>3 DEF P!PaceInv, P!PaceTypeOK, P!Contexts
<1>5. OuterFits'
  BY <1>3, <1>4, StatesStay DEF AuthInv, OuterFits, First
<1>6. SecretsFit(state, ctx)'
  BY <1>3, <1>4 DEF AuthInv, SecretsFit, P!HasConnection
<1>7. StoryFits(state, ctx, auth)'
  <2>1. P!HasError(ctx)'
    BY <1>2 DEF P!HasError
  <2>2. QED
    BY <1>3, <2>1 DEF AuthInv, StoryFits
<1>8. QED
  BY <1>2, <1>5, <1>6, <1>7 DEF AuthInv

LEMMA CancelKilledHolds ==
  ASSUME AuthInv, CancelKilled(AbortTarget[state]), UNCHANGED auth
  PROVE  AuthInv'
<1>1. /\ cancelDue /\ cancelDue' = FALSE
      /\ phase = "waiting" \/ state = "Done"
      /\ IF state = "Done"
           THEN UNCHANGED <<state, phase, ctx, jobs, reader, card, spent>>
           ELSE onUserCancelled(AbortTarget[state])
  BY DEF CancelKilled
<1>2. state # "Initial"
  BY <1>1 DEF AuthInv, OuterFits
<1>3. CASE state = "Done"
  <2>1. UNCHANGED <<state, phase, ctx, jobs, reader, card, spent>>
    BY <1>1, <1>3
  <2>2. state \notin P!PaceStates
    BY <1>3, StateNames
  <2>3. P!PaceInv'
    BY <1>1, <2>1, <2>2, P!RestKeeps, ConstantsAssumption, UiAssumption DEF AuthInv
  <2>4. OuterFits'
    BY <1>3, <2>1, StatesStay DEF AuthInv, OuterFits, First
  <2>5. SecretsFit(state, ctx)' /\ StoryFits(state, ctx, auth)'
    BY <2>1 DEF AuthInv, SecretsFit, StoryFits, Achieved, P!HasError,
       P!HasConnection
  <2>6. QED
    BY <2>3, <2>4, <2>5 DEF AuthInv
<1>4. CASE state # "Done"
  BY <1>1, <1>2, <1>4, CancelHolds
<1>5. QED
  BY <1>3, <1>4

LEMMA StutterHolds ==
  ASSUME AuthInv, UNCHANGED <<vars, auth>>
  PROVE  AuthInv'
<1>1. UNCHANGED <<state, phase, cancelDue, ctx, jobs, reader, card, spent>>
  BY DEF vars
<1>2. P!PaceInv'
  BY <1>1, P!RestKeeps, ConstantsAssumption, UiAssumption DEF AuthInv
<1>3. OuterFits'
  BY <1>1, StatesStay DEF AuthInv, OuterFits, First
<1>4. SecretsFit(state, ctx)' /\ StoryFits(state, ctx, auth)'
  BY <1>1 DEF AuthInv, SecretsFit, StoryFits, Achieved, P!HasError, P!HasConnection
<1>5. QED
  BY <1>2, <1>3, <1>4 DEF AuthInv

(* Every step of the trusted channel is one of these, or the composite's.  *)
LEMMA ChannelHolds ==
  ASSUME AuthInv, ChannelStep
  PROVE  AuthInv' /\ (OwnMoves \/ (Pace!PaceStep /\ UNCHANGED auth))
<1>1. CASE \/ StateGetTcToken \/ parseTcToken
           \/ StateStartPaos \/ StateInitializeFramework \/ StateDidList
  BY <1>1, TokenHolds, ContinueHolds
     DEF StateStartPaos, StateInitializeFramework, StateDidList
<1>2. CASE \E s \in SendStates : StateGenericSendReceive(s) \/ ReplyFails(s)
  BY <1>2, SendHolds, ReplyFailsHolds
<1>3. CASE \E s \in SendStates : \E type \in DOMAIN Received[s] :
             ReceiveMessage(s, type)
  BY <1>3, ReceiveHolds
<1>4. CASE \/ StateExtractCvcsFromEac1InputType \/ StatePreVerification
           \/ StateCertificateDescriptionCheck \/ StateCheckCertificates
           \/ StateEditAccessRights
  BY <1>4, RightsHold, EditHolds
<1>5. CASE StateProcessCertificatesFromEac2
  BY <1>5, ContinueHolds, RefuseHolds DEF StateProcessCertificatesFromEac2
<1>6. CASE \/ StateDidAuthenticateEac1 \/ DidAuthenticateEac1Done
           \/ StateDidAuthenticateEac2 \/ DidAuthenticateEac2Done
           \/ StateTransmit \/ TransmitDone
           \/ StateEACAdditionalInputType \/ StateStartPaosResponse
  BY <1>6, EacRunHolds, EacDoneHolds, AdditionalHolds, VerdictHolds
<1>7. CASE Pace!PaceStep /\ UNCHANGED auth
  BY <1>7, PaceHolds
<1>8. CASE /\ \/ Pace!StateClearPacePasswords("ClearPacePasswords",
                                              "DidAuthenticateEac1")
              \/ Pace!StateUpdateRetryCounter("UpdateRetryCounterFinal",
                                              "CleanUpReaderManager")
              \/ Pace!UpdateRetryCounterDone("UpdateRetryCounterFinal",
                                             "CleanUpReaderManager",
                                             "CleanUpReaderManager")
              \/ Pace!StateCleanUpReaderManager(AfterTrustedChannel)
           /\ UNCHANGED auth
  BY <1>8, ClearHolds, UpdateHolds, CleanUpHolds
<1>9. QED
  BY <1>1, <1>2, <1>3, <1>4, <1>5, <1>6, <1>7, <1>8 DEF ChannelStep

(* The states around the channel.                                          *)
AroundChannel ==
  \/ StateProcessing \/ StateParseTcTokenUrl \/ StateLoadTcTokenUrl
  \/ StateActivateStoreFeedbackDialog \/ StateShowSelfInfo
  \/ StateCheckError
  \/ StateCheckRefreshAddress \/ RefreshAddressChecked
  \/ StateWriteHistory
  \/ StateGetSelfAuthenticationData \/ SelfAuthenticationData
  \/ StateSendWhitelistSurvey \/ StateRedirectBrowser \/ StateFinal

LEMMA AroundHolds ==
  ASSUME AuthInv, AroundChannel
  PROVE  AuthInv' /\ OwnMoves
  BY PrologueHolds, EpilogueHolds, RefreshHolds, HistoryHolds, RedirectHolds,
     FinalHolds DEF AroundChannel

LEMMA StepHolds ==
  ASSUME AuthInv, Step
  PROVE  AuthInv'
<1>1. CASE \/ StartMachine(First) /\ UNCHANGED auth
           \/ DropResult /\ UNCHANGED auth
           \/ CancelKilled(AbortTarget[state]) /\ UNCHANGED auth
  BY <1>1, StartHolds, DropHolds, CancelKilledHolds
<1>2. CASE ChannelStep
  BY <1>2, ChannelHolds
<1>3. CASE AroundChannel
  BY <1>3, AroundHolds
<1>4. QED
  BY <1>1, <1>2, <1>3 DEF Step, AroundChannel

(* The readers, as the composite's environment sees them.                  *)
LEMMA ReadersMove ==
  ASSUME \/ \E r \in Readers, c \in Cards : Pace!InsertCard(r, c)
         \/ \E r \in Readers, gone \in BOOLEAN : Pace!RemoveCard(r, gone)
         \/ Pace!onReaderDeviceError \/ Pace!setReaderPlugInTypes
  PROVE  P!Environment
  BY SameEnvironment DEF P!Environment

LEMMA AroundCardsHolds ==
  ASSUME AuthInv, Environment
  PROVE  AuthInv'
<1>1. CASE (\E r \in Readers, c \in Cards : Pace!InsertCard(r, c)) /\ UNCHANGED auth
  BY <1>1, ReadersMove, EnvironmentHolds
<1>2. CASE \E r \in Readers, gone \in BOOLEAN : RemoveCard(r, gone)
  BY <1>2, ReadersMove, EnvironmentHolds, CardRemovedHolds DEF RemoveCard
<1>3. CASE (Pace!onReaderDeviceError \/ Pace!setReaderPlugInTypes) /\ UNCHANGED auth
  BY <1>3, ReadersMove, EnvironmentHolds
<1>4. CASE fireCancelWorkflow(AbortTarget[state]) /\ UNCHANGED auth
  BY <1>4, CancelHolds DEF fireCancelWorkflow
<1>5. CASE killWorkflow /\ UNCHANGED auth
  BY <1>5, KillHolds
<1>6. QED
  BY <1>1, <1>2, <1>3, <1>4, <1>5 DEF Environment

LEMMA NextHolds == AuthInv /\ [Next]_<<vars, auth>> => AuthInv'
<1> SUFFICES ASSUME AuthInv, [Next]_<<vars, auth>> PROVE AuthInv'
  OBVIOUS
<1>1. CASE Step
  BY <1>1, StepHolds
<1>2. CASE Pace!ExecuteCommand /\ UNCHANGED auth
  BY <1>2, CommandHolds
<1>3. CASE Environment
  BY <1>3, AroundCardsHolds
<1>4. CASE UNCHANGED <<vars, auth>>
  BY <1>4, StutterHolds
<1>5. QED
  BY <1>1, <1>2, <1>3, <1>4 DEF Next, Terminated

-----------------------------------------------------------------------------
(***************************************************************************)
(* The invariant, of every behaviour.                                      *)
(***************************************************************************)
THEOREM Invariant == Spec => []AuthInv
<1>1. QED
  BY InitHolds, NextHolds, PTL DEF Spec

(***************************************************************************)
(* The members of the AuthContext and of the WorkflowContext keep their    *)
(* types, whichever messages the server sends and in whatever order        *)
(* (the message handlers of paos/ and StateGenericSendReceive).            *)
(***************************************************************************)
THEOREM TypeCorrect == Spec => []TypeOK
<1>1. P!PaceTypeOK /\ state \in States /\ auth \in Auths => TypeOK
  BY DEF P!PaceTypeOK, TypeOK, Contexts, P!Contexts, PasswordKinds,
         P!PasswordKinds, Passwords, P!Passwords, PaceTypes, P!PaceTypes,
         Counters, P!Counters, Connections, P!Connections, Codes, P!Codes,
         equalsWrongPacePassword, P!equalsWrongPacePassword, Unrecoverable,
         P!Unrecoverable, CardVanished, P!CardVanished, Statuses, P!Statuses,
         toGlobalStatus, P!toGlobalStatus, Jobs, P!Jobs, Operations,
         P!Operations, Sessions, P!Sessions, P!ReaderStates, P!CardRecords
<1>2. AuthInv => TypeOK
  BY <1>1 DEF AuthInv, OuterFits, P!PaceInv
<1>3. QED
  BY <1>2, Invariant, PTL

(***************************************************************************)
(* No password that was typed for PACE is kept in a state of the dialogue  *)
(* with the server, whichever card, cancel or kill led there.              *)
(***************************************************************************)
THEOREM NoPasswords == Spec => []NoPasswordInDialogue
<1>1. AuthInv => NoPasswordInDialogue
  BY StateNames, ChannelNames
     DEF AuthInv, SecretsFit, NoPasswordInDialogue, P!PaceStates
<1>2. QED
  BY <1>1, Invariant, PTL

(***************************************************************************)
(* No path of a browser's authentication ends without an answer to it: the *)
(* errors of every state, the cancels and the kills all go through         *)
(* StateRedirectBrowser.                                                   *)
(***************************************************************************)
THEOREM BrowserIsAnswered == Spec => []BrowserAnswered
<1>1. AuthInv => BrowserAnswered
  BY DEF AuthInv, StoryFits, BrowserAnswered
<1>2. QED
  BY <1>1, Invariant, PTL

(***************************************************************************)
(* StateWriteHistory writes only what the user has consented to and the    *)
(* server has completed, although it asks for neither: the workflow has no *)
(* error there only when both were given.                                  *)
(***************************************************************************)
THEOREM HistoryTrue == Spec => []HistoryIsTrue
<1>1. AuthInv => HistoryIsTrue
  BY DEF AuthInv, StoryFits, HistoryIsTrue
<1>2. QED
  BY <1>1, Invariant, PTL

-----------------------------------------------------------------------------
(* Only StateRedirectBrowser answers the browser.                          *)
LEMMA ChannelIsSilent ==
  ASSUME auth \in Auths, ChannelStep
  PROVE  auth'.answer = auth.answer
<1>1. CASE UNCHANGED auth
  BY <1>1
<1>2. CASE StateGetTcToken \/ parseTcToken
  <2>1. \/ UNCHANGED auth
        \/ \E known \in BOOLEAN : auth' = [auth EXCEPT !.notFound = @ /\ ~known]
        \/ \E conform \in BOOLEAN :
             auth' = [auth EXCEPT !.token = "invalid", !.notFound = ~conform]
        \/ auth' = [auth EXCEPT !.token = "valid", !.notFound = FALSE]
    BY <1>2 DEF StateGetTcToken, parseTcToken, NoTcToken
  <2>2. QED
    BY <2>1 DEF Auths
<1>3. CASE \E s \in SendStates : StateGenericSendReceive(s)
  <2>1. PICK b : auth' = [auth EXCEPT !.reported = b]
    BY <1>3 DEF StateGenericSendReceive
  <2>2. QED
    BY <2>1 DEF Auths
<1>4. CASE \E s \in SendStates : \E type \in DOMAIN Received[s] :
             ReceiveMessage(s, type)
  <2>1. PICK type : auth' \in WithMessage(type)
    BY <1>4 DEF ReceiveMessage
  <2>2. \/ \E said \in {"ok", "error"} : auth' = [auth EXCEPT !.serverSaid = said]
        \/ auth' = [auth EXCEPT !.eac1 = TRUE]
        \/ auth' = [auth EXCEPT !.transmits = @ + 1]
        \/ UNCHANGED auth
    BY <2>1 DEF WithMessage
  <2>3. QED
    BY <2>2 DEF Auths
<1>5. CASE StateExtractCvcsFromEac1InputType \/ StateEditAccessRights
  <2>1. \/ UNCHANGED auth
        \/ \E can \in BOOLEAN : auth' = [auth EXCEPT !.canAllowed = can]
        \/ auth' = [auth EXCEPT !.consent = ~ctx.killed]
    BY <1>5 DEF StateExtractCvcsFromEac1InputType, StateEditAccessRights, Refuse
  <2>2. QED
    BY <2>1 DEF Auths
<1>6. QED
  BY <1>1, <1>2, <1>3, <1>4, <1>5
     DEF ChannelStep, Continue, Refuse, ReplyFails, StateStartPaos,
         StateInitializeFramework, StateDidList, StatePreVerification,
         StateCertificateDescriptionCheck, StateCheckCertificates,
         StateDidAuthenticateEac1, DidAuthenticateEac1Done,
         StateEACAdditionalInputType, StateProcessCertificatesFromEac2,
         StateDidAuthenticateEac2, DidAuthenticateEac2Done, StateTransmit,
         TransmitDone, StateStartPaosResponse

LEMMA OnlyRedirectAnswers ==
  ASSUME AuthInv, [Next]_<<vars, auth>>, ~StateRedirectBrowser
  PROVE  auth'.answer = auth.answer
<1>1. auth \in Auths
  BY DEF AuthInv, OuterFits
<1>2. CASE UNCHANGED auth
  BY <1>2
<1>3. CASE ChannelStep
  BY <1>1, <1>3, ChannelIsSilent
<1>4. CASE AroundChannel
  <2>1. \/ UNCHANGED auth
        \/ auth' = [auth EXCEPT !.refreshUrl = TRUE]
        \/ auth' = [auth EXCEPT !.history = TRUE]
    BY <1>4
       DEF AroundChannel, StateProcessing, StateParseTcTokenUrl,
           StateLoadTcTokenUrl, StateActivateStoreFeedbackDialog,
           StateShowSelfInfo, Pass, Fail, StateCheckError,
           StateCheckRefreshAddress, RefreshAddressChecked, StateWriteHistory,
           StateGetSelfAuthenticationData, SelfAuthenticationData,
           StateSendWhitelistSurvey, StateFinal
  <2>2. QED
    BY <1>1, <2>1 DEF Auths
<1>5. QED
  BY <1>2, <1>3, <1>4
     DEF Next, Step, AroundChannel, Environment, RemoveCard, onCardRemoved,
         Terminated

(***************************************************************************)
(* The browser is told of a success only when the server has confirmed it  *)
(* and the workflow has met no error, and of an error only when it has met *)
(* one: a missing token or refresh address always leaves an error.         *)
(***************************************************************************)
THEOREM AnswersTrue == Spec => AnswerIsTrue
<1> DEFINE True == auth.answer = "none" =>
                     /\ auth'.answer = "success" => auth.serverSaid = "ok" /\ ~HasError(ctx)
                     /\ auth'.answer = "error" => HasError(ctx)
<1>1. ASSUME AuthInv, [Next]_<<vars, auth>> PROVE True
  <2>1. CASE StateRedirectBrowser
    <3>1. auth \in Auths /\ state = "RedirectBrowser"
      BY <1>1, <2>1 DEF AuthInv, OuterFits, StateRedirectBrowser, Run
    <3>2. PICK sent \in {Answer, "skipped", "lost"} :
            auth' = [auth EXCEPT !.answer = sent]
      BY <2>1 DEF StateRedirectBrowser
    <3>3. auth'.answer = sent
      BY <3>1, <3>2 DEF Auths
    <3>4. HasError(ctx) \/ (auth.serverSaid = "ok" /\ ~auth.notFound /\ auth.refreshUrl)
      BY <1>1, <3>1, SameContext
         DEF AuthInv, StoryFits, Achieved, AfterDialogue, AfterRefresh,
             AfterHistory, Beginning
    <3>5. QED
      BY <3>2, <3>3, <3>4 DEF Answer
  <2>2. CASE ~StateRedirectBrowser
    BY <1>1, <2>2, OnlyRedirectAnswers
  <2>3. QED
    BY <2>1, <2>2
<1>2. AuthInv /\ [Next]_<<vars, auth>> => [True]_<<vars, auth>>
  BY <1>1
<1>3. QED
  BY <1>2, Invariant, PTL DEF Spec, AnswerIsTrue

-----------------------------------------------------------------------------
(***************************************************************************)
(* The refinement: every step of the controller is a step of Workflow, or  *)
(* leaves its life as it is.                                               *)
(***************************************************************************)
LifecycleStep == [Lifecycle!Next]_<<LifecycleStage, ctx.killed>>

(* Between its first state and FinalState; a killed machine waits in the   *)
(* first one and hears nothing.                                            *)
Runs(s, p) == s \notin {"Initial", "FinalState", "Done"} /\ ~(s = First /\ p = "waiting")

(* Which controller it is never changes.                                   *)
LEMMA FirstNames ==
  First \in {"LoadTcTokenUrl", "Processing"} /\ First' \in {"LoadTcTokenUrl", "Processing"}
  BY DEF First

LEMMA FirstStays ==
  ASSUME auth'.self = auth.self
  PROVE  First' = First
  BY DEF First

LEMMA KeepsRunning ==
  ASSUME ctx'.killed = ctx.killed, auth'.self = auth.self,
         Runs(state, phase), Runs(state', phase')
  PROVE  LifecycleStep
<1>1. LifecycleStage = "running" /\ LifecycleStage' = "running"
  BY FirstStays DEF Runs, LifecycleStage
<1>2. QED
  BY <1>1 DEF LifecycleStep

LEMMA StaysThere ==
  ASSUME ctx'.killed = ctx.killed, auth'.self = auth.self,
         UNCHANGED <<state, phase>>
  PROVE  LifecycleStep
  BY FirstStays DEF LifecycleStep, LifecycleStage

LEMMA Finishes ==
  ASSUME ctx'.killed = ctx.killed, ctx.killed \in BOOLEAN, Runs(state, phase),
         state' = "FinalState"
  PROVE  LifecycleStep
<1>1. /\ LifecycleStage = "running"
      /\ LifecycleStage' = IF ctx.killed THEN "done" ELSE "final"
  BY FirstNames DEF Runs, LifecycleStage
<1>2. QED
  BY <1>1 DEF LifecycleStep, Lifecycle!Next, Lifecycle!Finish

(* A state that waits for a reply or a result is not the first one.        *)
LEMMA WaitsRun ==
  ASSUME NEW s, NEW p, s \in OwnStates \cup P!PaceStates \cup {"Unreachable"},
         s \notin {"FinalState", "Done"},
         p = "waiting" => s \in Waits \cup P!PaceStates
  PROVE  Runs(s, p)
<1>1. First \notin Waits \cup P!PaceStates
  BY FirstNames, WaitNames DEF P!PaceStates
<1>2. s # "Initial"
  BY StateNames DEF P!PaceStates, OwnStates
<1>3. QED
  BY <1>1, <1>2 DEF Runs

(* The controller's own states, up to and including the last.              *)
LEMMA OwnRefines ==
  ASSUME AuthInv, OwnMoves
  PROVE  LifecycleStep
<1>1. ctx.killed \in BOOLEAN
  BY DEF AuthInv, P!PaceInv, P!PaceTypeOK, P!Contexts
<1>2. CASE state = "FinalState"
  <2>1. state' = "Done"
    BY <1>2 DEF OwnMoves
  <2>2. /\ LifecycleStage = IF ctx.killed THEN "done" ELSE "final"
        /\ LifecycleStage' = "done"
    BY <1>1, <1>2, <2>1, FirstNames DEF LifecycleStage, OwnMoves
  <2>3. QED
    BY <2>1, <2>2 DEF LifecycleStep, Lifecycle!Next, Lifecycle!Leave, OwnMoves
<1>3. CASE state # "FinalState"
  <2>1. state' # "Done" /\ Runs(state, phase)
    BY <1>3, WaitsRun DEF OwnMoves
  <2>2. CASE state' = "FinalState"
    BY <1>1, <2>1, <2>2, Finishes DEF OwnMoves
  <2>3. CASE state' # "FinalState"
    <3>1. state' \in OwnStates \cup P!PaceStates
      BY DEF OwnMoves, P!PaceStates
    <3>2. Runs(state', phase')
      BY <2>1, <2>3, <3>1, WaitsRun DEF OwnMoves
    <3>3. QED
      BY <2>1, <3>2, KeepsRunning DEF OwnMoves
  <2>4. QED
    BY <2>2, <2>3
<1>4. QED
  BY <1>2, <1>3

LEMMA StartRefines ==
  ASSUME StartMachine(First), UNCHANGED auth
  PROVE  LifecycleStep
<1>1. /\ state = "Initial" /\ state' = First /\ First' = First
      /\ phase' = (IF ctx.killed THEN "waiting" ELSE "entered") /\ ctx' = ctx
      /\ First \notin {"Initial", "FinalState", "Done"}
  BY DEF StartMachine, First
<1>2. /\ LifecycleStage = "initial"
      /\ LifecycleStage' = IF ctx.killed THEN "deaf" ELSE "running"
  BY <1>1 DEF LifecycleStage
<1>3. QED
  BY <1>1, <1>2 DEF LifecycleStep, Lifecycle!Next, Lifecycle!Start

LEMMA PaceRefines ==
  ASSUME AuthInv, Pace!PaceStep, UNCHANGED auth
  PROVE  LifecycleStep
<1>1. P!Moves
  BY SameComposite, P!PaceStepMoves, ConstantsAssumption, UiAssumption
     DEF AuthInv
<1>2. Runs(state, phase)
  BY <1>1, WaitsRun DEF P!Moves, P!PaceStates
<1>3. Runs(state', phase')
  <2>1. /\ state' \in OwnStates \cup P!PaceStates \cup {"Unreachable"}
        /\ state' \notin {"FinalState", "Done"}
    BY <1>1, StateNames, ChannelNames DEF P!Moves, P!Leaves, P!PaceStates
  <2>2. phase' = "waiting" => state' \in P!PaceStates
    BY <1>1 DEF P!Moves
  <2>3. QED
    BY <2>1, <2>2, WaitsRun
<1>4. QED
  BY <1>1, <1>2, <1>3, KeepsRunning DEF P!Moves

(* A cancel frees a deaf machine, and may skip what is left to be done.    *)
LEMMA CancelRefines ==
  ASSUME AuthInv, Quiet \/ phase = "waiting", state \notin {"Initial", "Done"},
         onUserCancelled(AbortTarget[state]), UNCHANGED auth
  PROVE  LifecycleStep
<1> DEFINE t == AbortTarget[state]
<1>1. P!PaceInv /\ P!onUserCancelled(t)
  BY SameProtocol DEF AuthInv
<1>2. ctx'.killed = ctx.killed /\ ctx.killed \in BOOLEAN
                              
  BY <1>1, P!CancelsMove, ConstantsAssumption, UiAssumption
     DEF P!CancelMoves, P!PaceInv, P!PaceTypeOK, P!Contexts
<1>3. IF t = state THEN UNCHANGED <<state, phase>>
                   ELSE state' = t /\ phase' = "entered"
  BY <1>1, P!CancelsMove, ConstantsAssumption, UiAssumption DEF P!CancelMoves
<1>4. /\ t \notin {"Initial", "Done"}
      /\ t = state <=> state \in {"FinalState", "Unreachable"}
  BY CancelPlaces, Aborts
<1> HIDE DEF t
<1>5. CASE t = state
  BY <1>2, <1>3, <1>5, StaysThere
<1>6. CASE t # state /\ ~(state = First /\ phase = "waiting")
  <2>1. Runs(state, phase)
    BY <1>4, <1>6 DEF Runs
  <2>2. CASE t = "FinalState"
    BY <1>2, <1>3, <1>6, <2>1, <2>2, Finishes
  <2>3. CASE t # "FinalState"
    BY <1>2, <1>3, <1>4, <1>6, <2>1, <2>3, KeepsRunning DEF Runs
  <2>4. QED
    BY <2>2, <2>3
<1>7. CASE t # state /\ state = First /\ phase = "waiting"
  <2>1. First \notin {"Initial", "FinalState", "Done"}
    BY DEF First
  <2>2. LifecycleStage = "deaf"
    BY <1>7, <2>1 DEF LifecycleStage
  <2>3. t # "FinalState"
    BY <1>7, EndAborts, StateNames, EndNames, SameContext, ChannelNames
       DEF t, First, AbortTarget, States, P!PaceStates
  <2>4. LifecycleStage' = "running"
    BY <1>3, <1>4, <1>7, <2>3 DEF LifecycleStage
  <2>5. QED
    BY <1>2, <2>2, <2>4 DEF LifecycleStep, Lifecycle!Next, Lifecycle!Cancel
<1>8. QED
  BY <1>5, <1>6, <1>7

LEMMA KillRefines ==
  ASSUME AuthInv, killWorkflow, UNCHANGED auth
  PROVE  LifecycleStep
<1>1. /\ UNCHANGED <<state, phase>> /\ ~ctx.killed /\ state # "Done"
      /\ state = "Initial" => EarlyKill
      /\ ctx' = [ctx EXCEPT !.killed = TRUE,
                            !.status = "Card_Cancellation_By_User"]
  BY DEF killWorkflow
<1>2. ctx'.killed = TRUE /\ First' = First
  BY <1>1, FirstStays DEF AuthInv, P!PaceInv, P!PaceTypeOK, P!Contexts
<1>3. First \notin Waits \cup P!PaceStates
  <2>1. First \in {"LoadTcTokenUrl", "Processing"}
    BY DEF First
  <2>2. QED
    BY <2>1, WaitNames DEF P!PaceStates
<1>4. ~(state = First /\ phase = "waiting")
  BY <1>1, <1>3 DEF AuthInv, OuterFits
<1>5. LifecycleStage = (CASE state = "Initial" -> "initial"
                          [] state = "FinalState" -> "final"
                          [] OTHER -> "running")
  BY <1>1, <1>4 DEF LifecycleStage
<1>6. LifecycleStage' = (CASE state = "Initial" -> "initial"
                           [] state = "FinalState" -> "done"
                           [] OTHER -> "running")
  BY <1>1, <1>2, <1>4 DEF LifecycleStage
<1>7. QED
  BY <1>1, <1>2, <1>5, <1>6
     DEF LifecycleStep, Lifecycle!Next, Lifecycle!Kill, Lifecycle!AfterKill

(* The thread, the readers and the commands no state listens to.           *)
LEMMA OutsideRefines ==
  ASSUME AuthInv, Pace!ExecuteCommand \/ P!Environment \/ DropResult,
         UNCHANGED auth
  PROVE  LifecycleStep
<1>1. P!PaceInv
  BY DEF AuthInv
<1>2. CASE Pace!ExecuteCommand
  <2>1. P!CommandMoves
    BY <1>1, <1>2, SameCommands, P!CommandsMove, ConstantsAssumption, UiAssumption
  <2>2. QED
    BY <2>1, StaysThere DEF P!CommandMoves, P!ContextStays
<1>3. CASE P!Environment
  <2>1. P!EnvironmentMoves
    BY <1>1, <1>3, P!EnvironmentsMove, ConstantsAssumption, UiAssumption
  <2>2. CASE UNCHANGED <<state, phase>>
    BY <2>1, <2>2, StaysThere DEF P!EnvironmentMoves
  <2>3. CASE ~UNCHANGED <<state, phase>>
    <3>1. /\ state \in P!PaceStates /\ state' \in P!PaceStates
          /\ ctx'.killed = ctx.killed
         
      BY <2>1, <2>3 DEF P!EnvironmentMoves, P!PaceStates
    <3>2. Runs(state, phase) /\ Runs(state', phase')
      BY <3>1, WaitsRun DEF P!PaceStates
    <3>3. QED
      BY <3>1, <3>2, KeepsRunning
  <2>4. QED
    BY <2>2, <2>3
<1>4. CASE DropResult
  <2>1. P!DropMoves
    BY <1>1, <1>4, SameProtocol, P!DropsMove, ConstantsAssumption, UiAssumption
  <2>2. QED
    BY <2>1, StaysThere DEF P!DropMoves, P!ContextStays
<1>5. QED
  BY <1>2, <1>3, <1>4

(* The cancel that follows a kill.                                         *)
LEMMA CancelKilledRefines ==
  ASSUME AuthInv, CancelKilled(AbortTarget[state]), UNCHANGED auth
  PROVE  LifecycleStep
<1>1. /\ cancelDue /\ (phase = "waiting" \/ state = "Done")
      /\ IF state = "Done"
           THEN UNCHANGED <<state, phase, ctx, jobs, reader, card, spent>>
           ELSE onUserCancelled(AbortTarget[state])
  BY DEF CancelKilled
<1>2. CASE state = "Done"
  BY <1>1, <1>2, StaysThere
<1>3. CASE state # "Done"
  <2>1. state # "Initial"
    BY <1>1 DEF AuthInv, OuterFits
  <2>2. QED
    BY <1>1, <1>3, <2>1, CancelRefines
<1>4. QED
  BY <1>2, <1>3

LEMMA EnvironmentRefines ==
  ASSUME AuthInv, Environment
  PROVE  LifecycleStep
<1>1. CASE (\E r \in Readers, c \in Cards : Pace!InsertCard(r, c)) /\ UNCHANGED auth
  BY <1>1, ReadersMove, OutsideRefines
<1>2. CASE \E r \in Readers, gone \in BOOLEAN : RemoveCard(r, gone)
  BY <1>2, ReadersMove, OutsideRefines, CardRemovedHolds, OwnRefines DEF RemoveCard
<1>3. CASE (Pace!onReaderDeviceError \/ Pace!setReaderPlugInTypes) /\ UNCHANGED auth
  BY <1>3, ReadersMove, OutsideRefines
<1>4. CASE fireCancelWorkflow(AbortTarget[state]) /\ UNCHANGED auth
  BY <1>4, CancelRefines DEF fireCancelWorkflow
<1>5. CASE killWorkflow /\ UNCHANGED auth
  BY <1>5, KillRefines
<1>6. QED
  BY <1>1, <1>2, <1>3, <1>4, <1>5 DEF Environment

LEMMA StepRefines == AuthInv /\ [Next]_<<vars, auth>> => LifecycleStep
<1> SUFFICES ASSUME AuthInv, [Next]_<<vars, auth>> PROVE LifecycleStep
  OBVIOUS
<1>1. CASE \/ StartMachine(First) /\ UNCHANGED auth
           \/ DropResult /\ UNCHANGED auth
           \/ CancelKilled(AbortTarget[state]) /\ UNCHANGED auth
  BY <1>1, StartRefines, OutsideRefines, CancelKilledRefines
<1>2. CASE ChannelStep
  BY <1>2, ChannelHolds, OwnRefines, PaceRefines
<1>3. CASE AroundChannel
  BY <1>3, AroundHolds, OwnRefines
<1>4. CASE Pace!ExecuteCommand /\ UNCHANGED auth
  BY <1>4, OutsideRefines
<1>5. CASE Environment
  BY <1>5, EnvironmentRefines
<1>6. CASE UNCHANGED <<vars, auth>>
  BY <1>6, StaysThere DEF vars
<1>7. QED
  BY <1>1, <1>2, <1>3, <1>4, <1>5, <1>6 DEF Next, Step, AroundChannel, Terminated

(***************************************************************************)
(* Both authentications implement the life of a workflow the AppController *)
(* is built on: they start once, show their result once, are done only     *)
(* after that, and a kill or a cancel never moves them backwards.          *)
(***************************************************************************)
THEOREM Implements == Spec => ImplementsWorkflow
<1>1. Init => Lifecycle!Init
  BY DEF Init, InitialContext, Lifecycle!Init, LifecycleStage
<1>2. AuthInv /\ [Next]_<<vars, auth>>
        => [Lifecycle!Next]_<<LifecycleStage, ctx.killed>>
  BY StepRefines DEF LifecycleStep
<1>3. QED
  BY <1>1, <1>2, Invariant, PTL DEF Spec, ImplementsWorkflow, Lifecycle!Spec

-----------------------------------------------------------------------------
(***************************************************************************)
(* The channel of the terminal authentication.  With a server that does    *)
(* not go on with the card when it is told of an error, the states that    *)
(* work on the card are entered only while the channel of PACE stands, and *)
(* nothing that could open another one is queued with their commands.      *)
(***************************************************************************)
EacCommands == {"DidAuthenticateEAC1", "DidAuthenticateEAC2", "Transmit"}

EacStates ==
  {"ClearPacePasswords", "DidAuthenticateEac1", "EACAdditionalInputType",
   "SendDIDAuthenticateResponseEACAdditionalInputType",
   "ProcessCertificatesFromEac2", "DidAuthenticateEac2",
   "SendDIDAuthenticateResponseEAC2", "Transmit", "SendTransmitResponse"}

(* The answer to EAC1, which is also where PACE and the checks before it   *)
(* end when they fail.                                                     *)
Eac1Answer == "SendDIDAuthenticateResponseEAC1"

(* The channel PACE has opened, as long as the card stays.                 *)
InChannel(r) ==
  reader[r].session \in {"closed", IF auth.canAllowed THEN "can" ELSE "pin"}

OnlyEac ==
  \A i \in 1 .. Len(jobs) : jobs[i].op \in EacCommands \cup {"UpdateRetryCounter"}

Established ==
  P!HasConnection(ctx) /\ InChannel(ctx.conn.reader) /\ OnlyEac

Told == P!HasError(ctx) /\ (phase = "waiting" => auth.reported)

EacJobFits(i) ==
  jobs[i].op \in EacCommands =>
    /\ state \notin Unconnected \cup P!PaceStates
    /\ InChannel(jobs[i].reader) /\ OnlyEac

ChannelFits ==
  /\ state \in EacStates => Established
  /\ state = Eac1Answer => Established \/ Told
  /\ \A i \in 1 .. Len(jobs) : EacJobFits(i)

(* The command was queued before, or the state hands it over now.          *)
Comes(k) ==
  \E i \in 1 .. Len(jobs) :
    /\ jobs'[k].op = jobs[i].op
    /\ jobs'[k].op \in EacCommands => jobs'[k].reader = jobs[i].reader

Issued(k) ==
  \/ jobs'[k].op = "UpdateRetryCounter"
  \/ /\ jobs'[k].op \in EacCommands /\ state \in EacStates
     /\ jobs'[k].reader = ctx.conn.reader

KeepsConnection ==
  /\ P!HasConnection(ctx') <=> P!HasConnection(ctx)
  /\ ctx'.conn.reader = ctx.conn.reader

(* A step that opens no channel and queues only what belongs to it.        *)
CardCalm ==
  /\ OnlyEac => P!SessionsCalm
  /\ \A k \in 1 .. Len(jobs') : Comes(k) \/ Issued(k)

LEMMA EacNames ==
  /\ (EacStates \cup {Eac1Answer}) \cap (Unconnected \cup P!PaceStates) = {}
  /\ Eac1Answer \notin EacStates /\ Eac1Answer \in SendStates
<1>1. (EacStates \cup {Eac1Answer}) \cap P!PaceStates = {}
  BY DEF EacStates, Eac1Answer, P!PaceStates
<1>2. (EacStates \cup {Eac1Answer}) \cap Unconnected = {}
  BY DEF EacStates, Eac1Answer, Unconnected, Beginning, RightsStates
<1>3. QED
  BY <1>1, <1>2, ChannelNames DEF EacStates, Eac1Answer

LEMMA CalmKeeps ==
  ASSUME AuthInv, AuthInv', ChannelFits, CardCalm,
         state' \in Unconnected \cup P!PaceStates =>
           state \in Unconnected \cup P!PaceStates,
         auth'.canAllowed = auth.canAllowed \/ state \in Unconnected,
         state' \in EacStates => Established /\ KeepsConnection,
         state' = Eac1Answer => Told' \/ (Established /\ KeepsConnection)
  PROVE  ChannelFits'
<1>1. /\ jobs \in Seq(P!Jobs) /\ jobs' \in Seq(P!Jobs)
      /\ state \in Unconnected => ~P!HasConnection(ctx)
      /\ P!HasConnection(ctx) => ctx.conn.reader \in Readers
  BY DEF AuthInv, SecretsFit, P!PaceInv, P!PaceTypeOK, P!ContextFits,
         P!ConnectionFits, P!HasConnection
<1>2. ASSUME NEW r \in Readers, InChannel(r), OnlyEac, state \notin Unconnected
      PROVE  InChannel(r)'
  BY <1>2 DEF InChannel, CardCalm, P!SessionsCalm
<1>3. ASSUME OnlyEac PROVE OnlyEac'
  <2>1. ASSUME NEW k \in 1 .. Len(jobs')
        PROVE  jobs'[k].op \in EacCommands \cup {"UpdateRetryCounter"}
    BY <1>3, <2>1 DEF CardCalm, Comes, Issued, OnlyEac
  <2>2. QED
    BY <2>1 DEF OnlyEac
<1>4. Established /\ KeepsConnection => Established'
  BY <1>1, <1>2, <1>3 DEF Established, KeepsConnection
<1>5. ASSUME NEW k \in 1 .. Len(jobs'), jobs'[k].op \in EacCommands
      PROVE  /\ state' \notin Unconnected \cup P!PaceStates
             /\ InChannel(jobs[k].reader)' /\ OnlyEac'
  <2>1. jobs'[k].reader \in Readers
    BY <1>1, P!JobTypes, ConstantsAssumption, UiAssumption
  <2>2. CASE Comes(k)
    <3>1. PICK i \in 1 .. Len(jobs) : /\ jobs'[k].op = jobs[i].op
                                      /\ jobs'[k].reader = jobs[i].reader
      BY <1>5, <2>2 DEF Comes
    <3>2. /\ state \notin Unconnected \cup P!PaceStates
          /\ InChannel(jobs'[k].reader) /\ OnlyEac
      BY <1>5, <3>1 DEF ChannelFits, EacJobFits, InChannel
    <3>3. QED
      BY <1>2, <1>3, <2>1, <3>2 DEF InChannel
  <2>3. CASE Issued(k)
    <3>1. state \in EacStates /\ jobs'[k].reader = ctx.conn.reader
      BY <1>5, <2>3 DEF Issued, EacCommands
    <3>2. /\ state \notin Unconnected \cup P!PaceStates
          /\ InChannel(jobs'[k].reader) /\ OnlyEac
      BY <3>1, EacNames DEF ChannelFits, Established, InChannel
    <3>3. QED
      BY <1>2, <1>3, <2>1, <3>2 DEF InChannel
  <2>4. QED
    BY <2>2, <2>3 DEF CardCalm
<1>6. QED
  BY <1>4, <1>5 DEF ChannelFits, EacJobFits

(* The machine stays in its state.                                         *)
LEMMA StayChannel ==
  ASSUME AuthInv, AuthInv', ChannelFits, CardCalm, UNCHANGED state,
         auth'.canAllowed = auth.canAllowed, KeepsConnection,
         state = Eac1Answer /\ Told => Told'
  PROVE  ChannelFits'
<1>1. state' \in EacStates => Established /\ KeepsConnection
  BY DEF ChannelFits
<1>2. state' = Eac1Answer => Told' \/ (Established /\ KeepsConnection)
  BY DEF ChannelFits
<1>3. QED
  BY <1>1, <1>2, CalmKeeps

(* run() or a callback leads on to s.                                      *)
Proceeds(s, c) ==
  /\ s \in EacStates =>
       /\ c.conn = ctx.conn
       /\ \/ state \in EacStates
          \/ state = Eac1Answer /\ phase = "waiting" /\ ~auth.reported
  /\ s = Eac1Answer =>
       P!HasError(c) \/ (state \in EacStates /\ c.conn = ctx.conn)
  /\ s \in Unconnected \cup P!PaceStates => state \in Unconnected

LEMMA GoesKeeps ==
  ASSUME AuthInv, AuthInv', ChannelFits, NEW s, NEW c, Reaches(s, c),
         Proceeds(s, c), auth'.canAllowed = auth.canAllowed \/ state \in Unconnected
  PROVE  ChannelFits'
<1>1. /\ P!SessionsCalm /\ \A k \in 1 .. Len(jobs') : P!Descends(k)
      /\ state' = s /\ phase' = "entered" /\ ctx' = c
  <2>1. P!PaceInv /\ (P!Go(s, c) \/ (jobs # <<>> /\ P!Return(s, c)))
    BY ReachesFacts DEF AuthInv
  <2>2. QED
    BY <2>1, P!GoCalm, ConstantsAssumption, UiAssumption
<1>2. CardCalm
  BY <1>1 DEF CardCalm, Comes, P!Descends
<1>3. c.conn = ctx.conn => KeepsConnection
  BY <1>1 DEF KeepsConnection, P!HasConnection
<1>4. state' \in EacStates => Established /\ KeepsConnection
  BY <1>1, <1>3 DEF Proceeds, ChannelFits, Told
<1>5. state' = Eac1Answer => Told' \/ (Established /\ KeepsConnection)
  <2>1. P!HasError(c) => Told'
    BY <1>1 DEF Told, P!HasError
  <2>2. QED
    BY <1>1, <1>3, <2>1 DEF Proceeds, ChannelFits
<1>6. QED
  BY <1>1, <1>2, <1>4, <1>5, CalmKeeps DEF Proceeds

(* run() that waits, or hands over a command.                              *)
LEMMA AwaitKeeps ==
  ASSUME AuthInv, AuthInv', ChannelFits, NEW s, Await(s),
         auth'.canAllowed = auth.canAllowed,
         s = Eac1Answer /\ P!HasError(ctx) => auth'.reported
  PROVE  ChannelFits'
<1>1. /\ state = s /\ phase' = "waiting"
      /\ UNCHANGED <<state, ctx, jobs, reader>>
  BY DEF Await, Run
<1>2. CardCalm /\ KeepsConnection
  BY <1>1 DEF CardCalm, Comes, P!SessionsCalm, KeepsConnection, P!HasConnection
<1>3. state = Eac1Answer /\ Told => Told'
  BY <1>1 DEF Told, P!HasError
<1>4. QED
  BY <1>1, <1>2, <1>3, StayChannel

LEMMA CallKeeps ==
  ASSUME AuthInv, AuthInv', ChannelFits, UNCHANGED auth, NEW op,
         Call(op, ctx.conn.reader, "UNKNOWN", NoPassword),
         \/ op = "UpdateRetryCounter" /\ state # Eac1Answer
         \/ op \in EacCommands /\ state \in EacStates
  PROVE  ChannelFits'
<1>1. P!PaceInv /\ P!Call(op, ctx.conn.reader, "UNKNOWN", NoPassword)
  BY SameProtocol DEF AuthInv
<1>2. /\ P!SessionsCalm
      /\ \A k \in 1 .. Len(jobs') :
           \/ P!Descends(k)
           \/ jobs'[k].op = op /\ jobs'[k].reader = ctx.conn.reader
  BY <1>1, P!CallCalm, ConstantsAssumption, UiAssumption
<1>3. CardCalm
  BY <1>2 DEF CardCalm, Comes, Issued, P!Descends
<1>4. UNCHANGED <<state, ctx>>
  BY <1>1 DEF P!Call, P!Main
<1>5. KeepsConnection /\ state # Eac1Answer
  BY <1>4, EacNames DEF KeepsConnection, P!HasConnection
<1>6. QED
  BY <1>3, <1>4, <1>5, StayChannel

(* What the messages of the server lead to, as far as it concerns the card.*)
LEMMA EacReplies ==
  ASSUME NEW s \in SendStates, NEW type \in DOMAIN Received[s]
  PROVE  LET t == Received[s][type]
         IN /\ t \in EacStates =>
                 \/ s \in EacStates
                 \/ s = Eac1Answer /\ type \notin {"DISCONNECT", "STARTPAOS_RESPONSE"}
            /\ t \notin P!PaceStates /\ t # Eac1Answer
<1> DEFINE t == Received[s][type]
<1>1. <<type, t>> \in
        {<<"INITIALIZE_FRAMEWORK", "InitializeFramework">>, <<"DID_LIST", "DidList">>,
         <<"EAC1", "ExtractCvcsFromEac1InputType">>,
         <<"EAC2", "EACAdditionalInputType">>,
         <<"EAC_ADDITIONAL", "ProcessCertificatesFromEac2">>,
         <<"TRANSMIT", "Transmit">>, <<"DISCONNECT", "SendDisconnectResponse">>,
         <<"STARTPAOS_RESPONSE", "StartPaosResponse">>}
  BY Replies
<1>2. t \notin P!PaceStates /\ t # Eac1Answer
  BY <1>1 DEF P!PaceStates, Eac1Answer
<1>3. CASE s \in {"SendStartPaos", "SendInitializeFrameworkResponse",
                  "SendDIDListResponse", "SendDisconnectResponse"}
  <2>1. type \in {"INITIALIZE_FRAMEWORK", "DID_LIST", "EAC1", "DISCONNECT",
                  "STARTPAOS_RESPONSE"}
    BY <1>3 DEF Received
  <2>2. t \notin EacStates
    BY <1>1, <2>1 DEF EacStates
  <2>3. QED
    BY <1>2, <2>2
<1>4. CASE s = Eac1Answer
  <2>1. type \in {"EAC2", "DISCONNECT", "STARTPAOS_RESPONSE"}
    BY <1>4 DEF Received, Eac1Answer
  <2>2. t \in EacStates => type = "EAC2"
    BY <1>1, <2>1 DEF EacStates
  <2>3. QED
    BY <1>2, <1>4, <2>2
<1>5. CASE s \in {"SendDIDAuthenticateResponseEACAdditionalInputType",
                  "SendDIDAuthenticateResponseEAC2", "SendTransmitResponse"}
  BY <1>2, <1>5 DEF EacStates
<1>6. QED
  BY <1>3, <1>4, <1>5, ChannelNames DEF Eac1Answer

LEMMA SameConnection ==
  ASSUME AuthInv, NEW s
  PROVE  updateStatus(ctx, s).conn = ctx.conn
  BY DEF AuthInv, P!PaceInv, P!PaceTypeOK, P!Contexts, updateStatus

(***************************************************************************)
(* The steps of the channel.                                               *)
(***************************************************************************)
LEMMA TokenChannel ==
  ASSUME AuthInv, AuthInv', ChannelFits, StateGetTcToken \/ parseTcToken
  PROVE  ChannelFits'
<1>1. state = "GetTcToken" /\ auth \in Auths
  BY DEF AuthInv, OuterFits, StateGetTcToken, parseTcToken, Await, Run, ReplyFor
<1>2. auth'.canAllowed = auth.canAllowed
  BY <1>1 DEF StateGetTcToken, parseTcToken, NoTcToken, Auths
<1>3. CASE Await("GetTcToken")
  BY <1>2, <1>3, AwaitKeeps DEF Eac1Answer
<1>4. CASE \E s \in {"CleanUpReaderManager", "StartPaos"} : \E c : Go(s, c)
  <2>1. PICK s \in {"CleanUpReaderManager", "StartPaos"} : \E c : Reaches(s, c)
    BY <1>4 DEF Reaches
  <2>2. \A c : Proceeds(s, c)
    BY <1>1 DEF Proceeds, EacStates, Eac1Answer, Unconnected, Beginning, P!PaceStates
  <2>3. QED
    BY <1>2, <2>1, <2>2, GoesKeeps
<1>5. QED
  BY <1>3, <1>4, ChannelAborts DEF StateGetTcToken, parseTcToken, NoTcToken

LEMMA ContinueChannel ==
  ASSUME AuthInv, AuthInv', ChannelFits,
         NEW s \in {"StartPaos", "InitializeFramework", "DidList",
                    "PreVerification", "CertificateDescriptionCheck",
                    "CheckCertificates", "ProcessCertificatesFromEac2"},
         Continue(s)
  PROVE  ChannelFits'
<1> DEFINE t == ChannelContinueTo[s]
<1>1. state = s /\ Reaches(t, ctx) /\ UNCHANGED auth
  BY DEF Continue, Run, Reaches
<1>2. CASE s = "ProcessCertificatesFromEac2"
  <2>1. t = "DidAuthenticateEac2"
    BY <1>2, ChannelTransitions
  <2>2. Proceeds(t, ctx)
    BY <1>1, <1>2, <2>1
       DEF Proceeds, EacStates, Eac1Answer, Unconnected, Beginning, RightsStates,
           P!PaceStates
  <2>3. QED
    BY <1>1, <2>2, GoesKeeps
<1>3. CASE s # "ProcessCertificatesFromEac2"
  <2>1. t \in {"SendStartPaos", "SendInitializeFrameworkResponse",
               "SendDIDListResponse", "CertificateDescriptionCheck",
               "CheckCertificates", "EditAccessRights"}
    BY <1>3, ChannelTransitions
  <2>2. Proceeds(t, ctx)
    BY <1>1, <1>3, <2>1
       DEF Proceeds, EacStates, Eac1Answer, Unconnected, Beginning, RightsStates
  <2>3. QED
    BY <1>1, <2>2, GoesKeeps
<1>4. QED
  BY <1>2, <1>3

LEMMA RefuseChannel ==
  ASSUME AuthInv, AuthInv', ChannelFits,
         NEW s \in RightsStates \cup {"ProcessCertificatesFromEac2"}, Refuse(s)
  PROVE  ChannelFits'
<1> DEFINE t == ChannelAbortTo[s]
<1>1. state = s /\ Reaches(t, Blamed(ctx)) /\ UNCHANGED auth
  BY DEF Refuse, Run, Reaches
<1>2. Blamed(ctx).conn = ctx.conn /\ P!HasError(Blamed(ctx))
  BY SameConnection, BlamedFollows DEF Blamed
<1>3. \/ s \in RightsStates /\ t = Eac1Answer
      \/ /\ s = "ProcessCertificatesFromEac2"
         /\ t = "SendDIDAuthenticateResponseEAC2"
  BY ChannelAborts DEF Eac1Answer
<1>4. Proceeds(t, Blamed(ctx))
  BY <1>1, <1>2, <1>3, EacNames DEF Proceeds, EacStates, Eac1Answer
<1>5. QED
  BY <1>1, <1>4, GoesKeeps

LEMMA RightsChannel ==
  ASSUME AuthInv, AuthInv', ChannelFits,
         \/ StateExtractCvcsFromEac1InputType \/ StatePreVerification
         \/ StateCertificateDescriptionCheck \/ StateCheckCertificates
         \/ StateEditAccessRights
  PROVE  ChannelFits'
<1>1. CASE \E s \in {"PreVerification", "MaintainCardConnection"} :
             /\ state \in RightsStates /\ Go(s, ctx)
  <2>1. PICK s \in {"PreVerification", "MaintainCardConnection"} : Reaches(s, ctx)
    BY <1>1 DEF Reaches
  <2>2. Proceeds(s, ctx) /\ state \in Unconnected
    BY <1>1 DEF Proceeds, EacStates, Eac1Answer, Unconnected
  <2>3. QED
    BY <2>1, <2>2, GoesKeeps
<1>2. QED
  BY <1>1, ContinueChannel, RefuseChannel
     DEF StateExtractCvcsFromEac1InputType, StatePreVerification,
         StateCertificateDescriptionCheck, StateCheckCertificates,
         StateEditAccessRights, Run, RightsStates

LEMMA DialogueChannel ==
  ASSUME AuthInv, AuthInv', ChannelFits, ServerHeedsErrors, NEW s \in SendStates,
         \/ StateGenericSendReceive(s) \/ ReplyFails(s)
         \/ \E type \in DOMAIN Received[s] : ReceiveMessage(s, type)
  PROVE  ChannelFits'
<1>1. auth \in Auths
  BY DEF AuthInv, OuterFits
<1>2. CASE StateGenericSendReceive(s)
  <2>1. /\ Await(s) /\ auth'.canAllowed = auth.canAllowed
        /\ auth'.reported = (auth.reported \/ (s # "SendStartPaos" /\ HasError(ctx)))
    BY <1>1, <1>2 DEF StateGenericSendReceive, Auths
  <2>2. s = Eac1Answer /\ P!HasError(ctx) => auth'.reported
    BY <2>1, SameContext DEF Eac1Answer
  <2>3. QED
    BY <2>1, <2>2, AwaitKeeps
<1>3. CASE ReplyFails(s)
  <2>1. Reaches(ChannelAbortTo[s], Blamed(ctx)) /\ UNCHANGED auth
    BY <1>3 DEF ReplyFails, Reaches
  <2>2. ChannelAbortTo[s] \in {"CleanUpReaderManager", "UpdateRetryCounterFinal"}
    BY ChannelAborts, ChannelNames
  <2>3. Proceeds(ChannelAbortTo[s], Blamed(ctx))
    BY <2>2 DEF Proceeds, EacStates, Eac1Answer, Unconnected, Beginning,
       RightsStates, P!PaceStates
  <2>4. QED
    BY <2>1, <2>3, GoesKeeps
<1>4. ASSUME NEW type \in DOMAIN Received[s], ReceiveMessage(s, type)
      PROVE  ChannelFits'
  <2> DEFINE t == Received[s][type]
  <2>1. /\ state = s /\ phase = "waiting" /\ Reaches(t, ctx)
        /\ auth' \in WithMessage(type)
        /\ auth.reported => type \in {"DISCONNECT", "STARTPAOS_RESPONSE"}
    BY <1>4 DEF ReceiveMessage, ReplyFor, Reaches, Heeds
  <2>2. auth'.canAllowed = auth.canAllowed
    BY <1>1, <2>1 DEF WithMessage, Auths
  <2>3. /\ t \in EacStates => s \in EacStates \/ (s = Eac1Answer /\ ~auth.reported)
        /\ t # Eac1Answer
        /\ t \in Unconnected \cup P!PaceStates => s \in Unconnected
    BY <2>1, EacReplies, Replies
  <2> HIDE DEF t
  <2>4. Proceeds(t, ctx)
    BY <2>1, <2>3 DEF Proceeds
  <2>5. QED
    BY <2>1, <2>2, <2>4, GoesKeeps
<1>5. QED
  BY <1>2, <1>3, <1>4

LEMMA EacChannel ==
  ASSUME AuthInv, AuthInv', ChannelFits,
         \/ StateDidAuthenticateEac1 \/ DidAuthenticateEac1Done
         \/ StateDidAuthenticateEac2 \/ DidAuthenticateEac2Done
         \/ StateTransmit \/ TransmitDone
         \/ StateEACAdditionalInputType
  PROVE  ChannelFits'
<1> DEFINE sent == {Eac1Answer, "SendDIDAuthenticateResponseEAC2",
                    "SendTransmitResponse", "ProcessCertificatesFromEac2",
                    "SendDIDAuthenticateResponseEACAdditionalInputType"}
<1>1. state \in EacStates /\ UNCHANGED auth
  BY DEF StateDidAuthenticateEac1, StateDidAuthenticateEac2, StateTransmit,
         DidAuthenticateEac1Done, DidAuthenticateEac2Done, TransmitDone,
         StateEACAdditionalInputType, Run, Heard, EacStates
<1>2. CASE \E op \in EacCommands :
             Call(op, ctx.conn.reader, "UNKNOWN", NoPassword)
  BY <1>1, <1>2, CallKeeps
<1>3. CASE \E s \in sent : \E c : Reaches(s, c) /\ c.conn = ctx.conn
  <2>1. PICK s \in sent : \E c : Reaches(s, c) /\ c.conn = ctx.conn
    BY <1>3
  <2>2. s \in EacStates \cup {Eac1Answer}
    BY DEF EacStates
  <2>3. ASSUME NEW c, c.conn = ctx.conn PROVE Proceeds(s, c)
    BY <1>1, <2>2, <2>3, EacNames DEF Proceeds
  <2>4. QED
    BY <1>1, <2>1, <2>3, GoesKeeps
<1>4. CASE StateDidAuthenticateEac1 \/ StateDidAuthenticateEac2 \/ StateTransmit
  <2>1. \/ \E op \in EacCommands : Call(op, ctx.conn.reader, "UNKNOWN", NoPassword)
        \/ Go("SendDIDAuthenticateResponseEAC2",
              updateStatus(ctx, "Workflow_No_Permission_Error"))
    BY <1>4 DEF StateDidAuthenticateEac1, StateDidAuthenticateEac2, StateTransmit,
       EacCommands
  <2>2. QED
    BY <1>2, <1>3, <2>1, SameConnection DEF Reaches
<1>5. CASE DidAuthenticateEac1Done \/ DidAuthenticateEac2Done \/ TransmitDone
  <2>1. jobs # <<>>
    BY <1>5 DEF DidAuthenticateEac1Done, DidAuthenticateEac2Done, TransmitDone,
       Heard, Answered
  <2>2. \E s \in sent : \E c : Return(s, c) /\ c.conn = ctx.conn
    BY <1>5, SameConnection
       DEF DidAuthenticateEac1Done, DidAuthenticateEac2Done, TransmitDone, Eac1Answer
  <2>3. QED
    BY <1>3, <2>1, <2>2 DEF Reaches
<1>6. CASE StateEACAdditionalInputType
  BY <1>3, <1>6 DEF StateEACAdditionalInputType, Reaches
<1>7. QED
  BY <1>4, <1>5, <1>6

(* The states before and after the commands.                               *)
LEMMA ClearChannel ==
  ASSUME AuthInv, AuthInv', ChannelFits, UNCHANGED auth,
         Pace!StateClearPacePasswords("ClearPacePasswords", "DidAuthenticateEac1")
  PROVE  ChannelFits'
<1> DEFINE t == "DidAuthenticateEac1"
           c == P!resetPacePasswords(ctx)
<1>1. state = "ClearPacePasswords" /\ P!Go(t, c)
  BY SameComposite DEF P!StateClearPacePasswords, P!Run
<1>2. Reaches(t, c)
  BY <1>1, SameProtocol DEF Reaches
<1>3. c.conn = ctx.conn
  BY P!ResetKeeps, ConstantsAssumption, UiAssumption
     DEF AuthInv, P!PaceInv, P!PaceTypeOK
<1> HIDE DEF c
<1>4. Proceeds(t, c)
  BY <1>1, <1>3, EacNames DEF Proceeds, EacStates, Eac1Answer
<1>5. QED
  BY <1>2, <1>4, GoesKeeps

LEMMA FinishChannel ==
  ASSUME AuthInv, AuthInv', ChannelFits, UNCHANGED auth,
         \/ StateStartPaosResponse
         \/ Pace!StateUpdateRetryCounter("UpdateRetryCounterFinal",
                                         "CleanUpReaderManager")
         \/ Pace!UpdateRetryCounterDone("UpdateRetryCounterFinal",
                                        "CleanUpReaderManager",
                                        "CleanUpReaderManager")
         \/ Pace!StateCleanUpReaderManager(AfterTrustedChannel)
  PROVE  ChannelFits'
<1> DEFINE late == {"UpdateRetryCounterFinal", "CleanUpReaderManager",
                    "CheckError", "CheckRefreshAddress"}
<1>1. CASE \E s \in late : \E c : Reaches(s, c)
  <2>1. PICK s \in late : \E c : Reaches(s, c)
    BY <1>1
  <2>2. \A c : Proceeds(s, c)
    BY DEF Proceeds, EacStates, Eac1Answer, Unconnected, Beginning, RightsStates,
           P!PaceStates
  <2>3. QED
    BY <2>1, <2>2, GoesKeeps
<1>2. CASE /\ state = "UpdateRetryCounterFinal"
           /\ Call("UpdateRetryCounter", ctx.conn.reader, "UNKNOWN", NoPassword)
  BY <1>2, CallKeeps DEF Eac1Answer
<1>3. CASE StateStartPaosResponse
  BY <1>1, <1>3 DEF StateStartPaosResponse, Reaches
<1>4. CASE \/ P!StateUpdateRetryCounter("UpdateRetryCounterFinal",
                                        "CleanUpReaderManager")
           \/ P!UpdateRetryCounterDone("UpdateRetryCounterFinal",
                                       "CleanUpReaderManager",
                                       "CleanUpReaderManager")
  BY <1>1, <1>2, <1>4, SameProtocol
     DEF P!StateUpdateRetryCounter, P!UpdateRetryCounterDone, P!Run, P!Heard,
         P!Answered, Reaches
<1>5. CASE P!StateCleanUpReaderManager(AfterTrustedChannel)
  BY <1>1, <1>5, SameProtocol
     DEF P!StateCleanUpReaderManager, AfterTrustedChannel, Reaches
<1>6. QED
  BY <1>3, <1>4, <1>5, SameComposite

(* Around the channel no state works on the card.                          *)
LEMMA AroundFits ==
  ASSUME AuthInv, AuthInv', ChannelFits, AroundChannel
  PROVE  ChannelFits'
<1> DEFINE early == {"Processing", "ParseTcTokenUrl", "LoadTcTokenUrl"}
           late == {"CheckRefreshAddress", "ActivateStoreFeedbackDialog",
                    "WriteHistory", "GetSelfAuthenticationData", "ShowSelfInfo",
                    "SendWhitelistSurvey", "RedirectBrowser", "FinalState", "Done"}
<1>1. /\ auth'.canAllowed = auth.canAllowed
      /\ state \in early \cup late \cup {"CheckError"}
  <2>1. auth \in Auths
    BY DEF AuthInv, OuterFits
  <2>2. QED
    BY <2>1
       DEF AroundChannel, StateProcessing, StateParseTcTokenUrl, StateLoadTcTokenUrl,
           StateActivateStoreFeedbackDialog, StateShowSelfInfo, StateCheckError,
           StateCheckRefreshAddress, RefreshAddressChecked, StateWriteHistory,
           StateGetSelfAuthenticationData, SelfAuthenticationData,
           StateSendWhitelistSurvey, StateRedirectBrowser, StateFinal, Pass, Fail,
           Run, ReplyFor, Await, Auths
<1>2. CASE \E s \in late \cup {"ParseTcTokenUrl", "GetTcToken"} :
             /\ s \in late \/ state \in early
             /\ \E c : Reaches(s, c)
  <2>1. PICK s \in late \cup {"ParseTcTokenUrl", "GetTcToken"} :
               /\ s \in late \/ state \in early
               /\ \E c : Reaches(s, c)
    BY <1>2
  <2>2. \A c : Proceeds(s, c)
    BY <2>1 DEF Proceeds, EacStates, Eac1Answer, Unconnected, Beginning,
       RightsStates, P!PaceStates
  <2>3. QED
    BY <1>1, <2>1, <2>2, GoesKeeps
<1>3. CASE \E s : Await(s)
  BY <1>1, <1>3, AwaitKeeps DEF Await, Run, Eac1Answer
<1>4. CASE StateProcessing \/ StateParseTcTokenUrl \/ StateLoadTcTokenUrl
  BY <1>2, <1>4, EndTransitions, EndAborts
     DEF StateProcessing, StateParseTcTokenUrl, StateLoadTcTokenUrl, Pass, Fail,
         Run, Reaches
<1>5. CASE \/ StateActivateStoreFeedbackDialog \/ StateShowSelfInfo
           \/ StateCheckError \/ StateSendWhitelistSurvey \/ StateWriteHistory
           \/ StateGetSelfAuthenticationData \/ SelfAuthenticationData
  <2>1. \/ \E s : Await(s)
        \/ \E s \in {"ActivateStoreFeedbackDialog", "ShowSelfInfo", "CheckError",
                     "SendWhitelistSurvey", "WriteHistory",
                     "GetSelfAuthenticationData"} :
             \E c : \/ Go(ContinueTo[s], c)
                    \/ Go(AbortTo[s], c) /\ s # "ActivateStoreFeedbackDialog"
    BY <1>5
       DEF StateActivateStoreFeedbackDialog, StateShowSelfInfo, StateCheckError,
           StateSendWhitelistSurvey, StateWriteHistory,
           StateGetSelfAuthenticationData, SelfAuthenticationData, Pass
  <2>2. QED
    BY <1>2, <1>3, <2>1, EndTransitions, EndAborts DEF Reaches
<1>6. CASE StateCheckRefreshAddress \/ RefreshAddressChecked
  BY <1>2, <1>3, <1>6, EndTransitions, EndAborts
     DEF StateCheckRefreshAddress, RefreshAddressChecked, Reaches
<1>7. CASE StateRedirectBrowser \/ StateFinal
  BY <1>2, <1>7 DEF StateRedirectBrowser, StateFinal, Reaches
<1>8. QED
  BY <1>4, <1>5, <1>6, <1>7 DEF AroundChannel

(* PACE: no command of the channel is queued while it goes on.             *)
LEMMA InsideQueue ==
  ASSUME AuthInv', ChannelFits, state \in P!PaceStates, P!QueueMoves,
         phase' = "waiting" => state' \in P!PaceStates,
         NEW k \in 1 .. Len(jobs')
  PROVE  jobs'[k].op \notin EacCommands
<1>1. CASE P!Descends(k)
  BY <1>1 DEF P!Descends, ChannelFits, EacJobFits
<1>2. CASE jobs'[k].heard
  <2>1. phase' = "waiting" /\ P!CallFits(state', jobs'[k].op)
    BY <1>2 DEF AuthInv, P!PaceInv, P!JobsFit, P!JobFits, P!CallFits
  <2>2. <<state', jobs'[k].op>> \in P!PaceCalls
    BY <2>1 DEF P!CallFits
  <2>3. QED
    BY <2>2 DEF P!PaceCalls, EacCommands
<1>3. QED
  BY <1>1, <1>2 DEF P!QueueMoves

LEMMA InsideFits ==
  ASSUME AuthInv', ChannelFits, state \in P!PaceStates, state' \in P!PaceStates,
         P!QueueMoves
  PROVE  ChannelFits'
<1>1. \A k \in 1 .. Len(jobs') : jobs'[k].op \notin EacCommands
  BY InsideQueue
<1>2. QED
  BY <1>1, EacNames DEF ChannelFits, EacJobFits

LEMMA PaceFits ==
  ASSUME AuthInv, AuthInv', ChannelFits, Pace!PaceStep, UNCHANGED auth
  PROVE  ChannelFits'
<1>1. P!PaceInv /\ P!PaceStep
  BY SameComposite DEF AuthInv
<1>2. P!Moves /\ P!QueueMoves
  BY <1>1, P!PaceStepMoves, P!PaceStepQueue, ConstantsAssumption, UiAssumption
<1>3. \A k \in 1 .. Len(jobs') : jobs'[k].op \notin EacCommands
  BY <1>2, InsideQueue DEF P!Moves
<1>4. ASSUME state' \in EacStates PROVE Established'
  <2>1. /\ state' \notin P!PaceStates \cup {"Unreachable"}
        /\ state' # "SendDIDAuthenticateResponseEAC1"
    BY <1>4, EacNames DEF EacStates
  <2>2. P!ChannelStands
    BY <1>2, <2>1 DEF P!Moves, P!Leaves
  <2>3. P!HasConnection(ctx)' /\ OnlyEac'
    BY <2>2 DEF P!ChannelStands, P!HasConnection, OnlyEac
  <2>4. InChannel(ctx.conn.reader)'
    BY <2>2 DEF P!ChannelStands, InChannel
  <2>5. QED
    BY <2>3, <2>4 DEF Established
<1>5. ASSUME state' = Eac1Answer PROVE Told'
  <2>1. state' \notin P!PaceStates \cup {"Unreachable", "ClearPacePasswords"}
    BY <1>5, EacNames DEF Eac1Answer
  <2>2. P!HasError(ctx') /\ phase' # "waiting"
    BY <1>2, <2>1 DEF P!Moves, P!Leaves
  <2>3. QED
    BY <2>2 DEF Told, P!HasError
<1>6. QED
  BY <1>3, <1>4, <1>5 DEF ChannelFits, EacJobFits

LEMMA ChannelStepFits ==
  ASSUME AuthInv, AuthInv', ChannelFits, ServerHeedsErrors, ChannelStep
  PROVE  ChannelFits'
<1>1. CASE \/ StateGetTcToken \/ parseTcToken
           \/ StateStartPaos \/ StateInitializeFramework \/ StateDidList
  BY <1>1, TokenChannel, ContinueChannel
     DEF StateStartPaos, StateInitializeFramework, StateDidList
<1>2. CASE \/ \E s \in SendStates : StateGenericSendReceive(s) \/ ReplyFails(s)
           \/ \E s \in SendStates : \E type \in DOMAIN Received[s] :
                ReceiveMessage(s, type)
  BY <1>2, DialogueChannel
<1>3. CASE \/ StateExtractCvcsFromEac1InputType \/ StatePreVerification
           \/ StateCertificateDescriptionCheck \/ StateCheckCertificates
           \/ StateEditAccessRights
  BY <1>3, RightsChannel
<1>4. CASE StateProcessCertificatesFromEac2
  BY <1>4, ContinueChannel, RefuseChannel DEF StateProcessCertificatesFromEac2
<1>5. CASE \/ StateDidAuthenticateEac1 \/ DidAuthenticateEac1Done
           \/ StateDidAuthenticateEac2 \/ DidAuthenticateEac2Done
           \/ StateTransmit \/ TransmitDone
           \/ StateEACAdditionalInputType
  BY <1>5, EacChannel
<1>6. CASE Pace!PaceStep /\ UNCHANGED auth
  BY <1>6, PaceFits
<1>7. CASE /\ Pace!StateClearPacePasswords("ClearPacePasswords",
                                           "DidAuthenticateEac1")
           /\ UNCHANGED auth
  BY <1>7, ClearChannel
<1>8. CASE StateStartPaosResponse
  <2>1. UNCHANGED auth
    BY <1>8 DEF StateStartPaosResponse
  <2>2. QED
    BY <1>8, <2>1, FinishChannel
<1>9. CASE /\ \/ Pace!StateUpdateRetryCounter("UpdateRetryCounterFinal",
                                              "CleanUpReaderManager")
              \/ Pace!UpdateRetryCounterDone("UpdateRetryCounterFinal",
                                             "CleanUpReaderManager",
                                             "CleanUpReaderManager")
              \/ Pace!StateCleanUpReaderManager(AfterTrustedChannel)
           /\ UNCHANGED auth
  BY <1>9, FinishChannel
<1>10. QED
  BY <1>1, <1>2, <1>3, <1>4, <1>5, <1>6, <1>7, <1>8, <1>9 DEF ChannelStep

(***************************************************************************)
(* What happens around the channel.                                        *)
(***************************************************************************)
LEMMA StartFits ==
  ASSUME AuthInv, StartMachine(First)
  PROVE  ChannelFits'
<1>1. state = "Initial" /\ state' = First /\ UNCHANGED jobs
  BY DEF StartMachine
<1>2. jobs' = <<>>
  BY <1>1 DEF AuthInv, OuterFits
<1>3. state' \notin EacStates \cup {Eac1Answer}
  BY <1>1 DEF First, EacStates, Eac1Answer
<1>4. QED
  BY <1>2, <1>3 DEF ChannelFits

(* The machine, what is known of an error and the rights stay as they are. *)
LEMMA ContextFitsStill ==
  ASSUME AuthInv, AuthInv', ChannelFits, CardCalm, P!ContextStays,
         UNCHANGED <<state, phase, auth>>
  PROVE  ChannelFits'
<1>1. KeepsConnection
  BY DEF KeepsConnection, P!ContextStays
<1>2. Told => Told'
  BY DEF Told, P!ContextStays, P!HasError
<1>3. QED
  BY <1>1, <1>2, StayChannel

LEMMA DropFits ==
  ASSUME AuthInv, AuthInv', ChannelFits, DropResult, UNCHANGED auth
  PROVE  ChannelFits'
<1>1. P!PaceInv /\ P!DropResult
  BY SameProtocol DEF AuthInv
<1>2. /\ P!DropMoves /\ P!SessionsCalm
      /\ \A k \in 1 .. Len(jobs') : P!Descends(k)
  BY <1>1, P!DropsMove, P!OthersCalm, ConstantsAssumption, UiAssumption
<1>3. CardCalm
  BY <1>2 DEF CardCalm, Comes, P!Descends
<1>4. QED
  BY <1>2, <1>3, ContextFitsStill DEF P!DropMoves

LEMMA CommandFits ==
  ASSUME AuthInv, AuthInv', ChannelFits, Pace!ExecuteCommand, UNCHANGED auth
  PROVE  ChannelFits'
<1>1. P!PaceInv /\ P!ExecuteCommand
  BY SameCommands DEF AuthInv
<1>2. P!CommandMoves
  BY <1>1, P!CommandsMove, ConstantsAssumption, UiAssumption
<1>3. /\ 1 \in 1 .. Len(jobs)
      /\ \A k \in 1 .. Len(jobs') :
           \/ P!Descends(k)
           \/ /\ jobs[1].op = "CreateCardConnection"
              /\ jobs'[k].op = "CreateCardConnection"
      /\ jobs[1].op \in {"DidAuthenticateEAC1", "DidAuthenticateEAC2",
                         "Transmit", "UpdateRetryCounter"} => P!SessionsCalm
  BY <1>1, P!CommandsCalm, ConstantsAssumption, UiAssumption
<1>4. OnlyEac => P!SessionsCalm
  BY <1>3 DEF OnlyEac, EacCommands
<1>5. \A k \in 1 .. Len(jobs') : Comes(k)
  BY <1>3 DEF Comes, P!Descends, EacCommands
<1>6. QED
  BY <1>2, <1>4, <1>5, ContextFitsStill DEF P!CommandMoves, CardCalm

LEMMA EnvironmentFits ==
  ASSUME AuthInv, AuthInv', ChannelFits, P!Environment, UNCHANGED auth
  PROVE  ChannelFits'
<1>1. P!EnvironmentMoves /\ P!QueueMoves /\ P!SessionsCalm
  BY P!EnvironmentsMove, P!EnvironmentCalm, ConstantsAssumption, UiAssumption
     DEF AuthInv
<1>2. {"SelectReader", "ConnectCard", "MaintainCardConnection"}
        \subseteq P!PaceStates
  BY DEF P!PaceStates
<1>3. CASE state \in P!PaceStates
  <2>1. state' \in P!PaceStates
    BY <1>1, <1>2, <1>3 DEF P!EnvironmentMoves
  <2>2. QED
    BY <1>1, <1>3, <2>1, InsideFits
<1>4. CASE state \notin P!PaceStates
  <2>1. UNCHANGED <<state, phase, jobs>> /\ P!ContextStays
    BY <1>1, <1>2, <1>4 DEF P!EnvironmentMoves
  <2>2. CardCalm
    BY <1>1, <2>1 DEF CardCalm, Comes
  <2>3. QED
    BY <2>1, <2>2, ContextFitsStill
<1>5. QED
  BY <1>3, <1>4

LEMMA CardRemovedFits ==
  ASSUME AuthInv, AuthInv', ChannelFits, NEW r \in Readers, onCardRemoved(r)
  PROVE  ChannelFits'
<1> DEFINE t == ChannelAbortTo[state]
           d == P!InfoChanged(r, NoCard, -1)
           e == updateStatus(d, "Workflow_Card_Removed")
<1>1. /\ P!PaceInv /\ jobs \in Seq(P!Jobs) /\ UNCHANGED auth
      /\ reader \in [Readers -> P!ReaderStates]
      /\ state \in HearsCardRemoved /\ state' = t /\ phase' = "entered"
      /\ jobs' = P!Unheard(jobs) /\ ctx' = e
      /\ reader' = [reader EXCEPT ![r] =
                      [card |-> NoCard, counter |-> -1, session |-> "closed"]]
  BY SameContext DEF AuthInv, onCardRemoved, Enter, P!PaceInv, P!PaceTypeOK
<1>2. -1 \in P!Counters /\ "Workflow_Card_Removed" \in P!Statuses
  BY DEF P!Counters, P!Statuses
<1>3. /\ d \in P!Contexts /\ d.conn.reader = ctx.conn.reader
      /\ P!HasConnection(d) <=> P!HasConnection(ctx)
  BY <1>1, <1>2, P!InfoChangedFacts, ConstantsAssumption, UiAssumption
<1> HIDE DEF d
<1>4. e.conn = d.conn /\ P!HasError(e)
  BY <1>2, <1>3, SameContext, P!UpdateStatusKeeps, ConstantsAssumption,
     UiAssumption
<1> HIDE DEF e
<1>5. KeepsConnection /\ Told'
  BY <1>1, <1>3, <1>4 DEF KeepsConnection, P!HasConnection, Told, P!HasError
<1>6. \A k \in 1 .. Len(jobs') : Comes(k)
  BY <1>1, P!UnheardKeeps, ConstantsAssumption, UiAssumption DEF Comes
<1>7. P!SessionsCalm
  BY <1>1 DEF P!SessionsCalm
<1>8. /\ t \in {"SendDIDAuthenticateResponseEAC1",
                "SendDIDAuthenticateResponseEAC2", "SendTransmitResponse",
                "UpdateRetryCounterFinal"}
      /\ t \in EacStates => state \in EacStates
  BY <1>1, ChannelNames, ChannelAborts, ChannelTransitions
     DEF HearsCardRemoved, EacStates
<1>9. t \notin Unconnected \cup P!PaceStates
  BY <1>8 DEF Unconnected, Beginning, RightsStates, P!PaceStates
<1> HIDE DEF t
<1>10. state' \in EacStates => Established /\ KeepsConnection
  BY <1>1, <1>5, <1>8 DEF ChannelFits
<1>11. QED
  BY <1>1, <1>5, <1>6, <1>7, <1>9, <1>10, CalmKeeps DEF CardCalm

(* A cancel never enters the states that work on the card.                 *)
LEMMA EacAborts ==
  ASSUME state \in States, AbortTarget[state] \in EacStates
  PROVE  state \in EacStates
<1>1. Pace!PaceStates = P!PaceStates
  BY SameContext
<1>2. CASE state \in P!PaceStates
  <2>1. AbortTarget[state] \in
          {"MaintainCardConnection", "ClearPacePasswordsOnError", "DestroyPace",
           "SendDIDAuthenticateResponseEAC1"}
    BY <1>1, <1>2 DEF AbortTarget, Pace!PaceAbortTarget, P!PaceStates
  <2>2. QED
    BY <2>1 DEF EacStates
<1>3. CASE state \in ChannelStates
  <2>1. AbortTarget[state] = ChannelAbortTo[state]
    BY <1>1, <1>3, StateNames DEF AbortTarget
  <2>2. state \notin EacStates => ChannelAbortTo[state] \notin EacStates
    BY <1>3, ChannelNames, ChannelAborts, ChannelTransitions
       DEF EacStates, AfterTrustedChannel, RightsStates
  <2>3. QED
    BY <2>1, <2>2
<1>4. CASE state \in DOMAIN ContinueTo
  <2>1. /\ state \notin P!PaceStates /\ state \notin ChannelStates
    BY <1>4, StateNames, ChannelNames, EndNames
  <2>2. AbortTarget[state] = AbortTo[state]
    BY <1>1, <1>4, <2>1 DEF AbortTarget
  <2>3. QED
    BY <1>4, <2>2, EndAborts, EndNames DEF EacStates
<1>5. CASE state \in {"Initial", "FinalState", "Done", "Unreachable"}
  <2>1. /\ state \notin P!PaceStates /\ state \notin ChannelStates
        /\ state \notin DOMAIN ContinueTo
    BY <1>5, StateNames, ChannelNames, EndNames
  <2>2. AbortTarget[state] = state
    BY <1>1, <2>1 DEF AbortTarget
  <2>3. QED
    BY <2>2
<1>6. QED
  BY <1>2, <1>3, <1>4, <1>5, StateNames

LEMMA CancelFits ==
  ASSUME AuthInv, AuthInv', ChannelFits, Quiet \/ phase = "waiting",
         state \notin {"Initial", "Done"}, onUserCancelled(AbortTarget[state]),
         UNCHANGED auth
  PROVE  ChannelFits'
<1> DEFINE t == AbortTarget[state]
<1>1. P!PaceInv /\ P!onUserCancelled(t)
  BY SameProtocol DEF AuthInv
<1>2. /\ state \in States
      /\ t = state => state \in {"FinalState", "Unreachable"}
      /\ t \in P!PaceStates => state \in P!PaceStates
      /\ t \in Unconnected => state \in Unconnected
  BY CancelPlaces, Aborts
<1>3. t \in EacStates => state \in EacStates
  BY <1>2, EacAborts
<1> HIDE DEF t
<1>4. /\ P!CancelMoves(t) /\ P!SessionsCalm
      /\ \A k \in 1 .. Len(jobs') : P!Descends(k)
  BY <1>1, P!CancelsMove, P!OthersCalm, ConstantsAssumption, UiAssumption
<1>5. CardCalm
  BY <1>4 DEF CardCalm, Comes, P!Descends
<1>6. KeepsConnection /\ state' = t
  BY <1>4 DEF KeepsConnection, P!CancelMoves, P!HasConnection
<1>7. state' = Eac1Answer => Told'
  BY <1>2, <1>4, <1>6 DEF P!CancelMoves, Told, P!HasError, Eac1Answer
<1>8. state' \in EacStates => Established
  BY <1>3, <1>6 DEF ChannelFits
<1>9. state' \in Unconnected \cup P!PaceStates =>
        state \in Unconnected \cup P!PaceStates
  BY <1>2, <1>6
<1>10. QED
  BY <1>5, <1>6, <1>7, <1>8, <1>9, CalmKeeps

LEMMA KillFits ==
  ASSUME AuthInv, AuthInv', ChannelFits, killWorkflow, UNCHANGED auth
  PROVE  ChannelFits'
<1>1. P!PaceInv /\ P!killWorkflow
  BY SameProtocol DEF AuthInv
<1>2. P!HasError(ctx')
  BY <1>1, P!KillKeeps, ConstantsAssumption, UiAssumption
<1>3. /\ UNCHANGED <<state, phase, jobs, reader>>
      /\ ctx' = [ctx EXCEPT !.killed = TRUE,
                            !.status = "Card_Cancellation_By_User"]
  BY <1>1 DEF P!killWorkflow
<1>4. ctx'.conn = ctx.conn
  BY <1>1, <1>3 DEF P!PaceInv, P!PaceTypeOK, P!Contexts
<1>5. CardCalm /\ KeepsConnection
  BY <1>3, <1>4 DEF CardCalm, Comes, P!SessionsCalm, KeepsConnection,
     P!HasConnection
<1>6. Told => Told'
  BY <1>2, <1>3 DEF Told, P!HasError
<1>7. QED
  BY <1>3, <1>5, <1>6, StayChannel

LEMMA StutterFits ==
  ASSUME AuthInv, AuthInv', ChannelFits,
         UNCHANGED <<state, phase, ctx, jobs, reader, auth>>
  PROVE  ChannelFits'
<1>1. CardCalm /\ P!ContextStays
  BY DEF CardCalm, Comes, P!SessionsCalm, P!ContextStays, P!HasConnection
<1>2. QED
  BY <1>1, ContextFitsStill

LEMMA CancelKilledFits ==
  ASSUME AuthInv, AuthInv', ChannelFits, CancelKilled(AbortTarget[state]),
         UNCHANGED auth
  PROVE  ChannelFits'
<1>1. /\ cancelDue /\ (phase = "waiting" \/ state = "Done")
      /\ IF state = "Done"
           THEN UNCHANGED <<state, phase, ctx, jobs, reader, card, spent>>
           ELSE onUserCancelled(AbortTarget[state])
  BY DEF CancelKilled
<1>2. state # "Initial"
  BY <1>1 DEF AuthInv, OuterFits
<1>3. QED
  BY <1>1, <1>2, CancelFits, StutterFits

LEMMA NextFits ==
  ASSUME AuthInv, ChannelFits, ServerHeedsErrors, [Next]_<<vars, auth>>
  PROVE  ChannelFits'
<1>1. AuthInv'
  BY NextHolds
<1>2. CASE \/ StartMachine(First) /\ UNCHANGED auth
           \/ DropResult /\ UNCHANGED auth
           \/ CancelKilled(AbortTarget[state]) /\ UNCHANGED auth
  BY <1>1, <1>2, StartFits, DropFits, CancelKilledFits
<1>3. CASE ChannelStep
  BY <1>1, <1>3, ChannelStepFits
<1>4. CASE AroundChannel
  BY <1>1, <1>4, AroundFits
<1>5. CASE Pace!ExecuteCommand /\ UNCHANGED auth
  BY <1>1, <1>5, CommandFits
<1>6. CASE /\ \/ \E r \in Readers, c \in Cards : Pace!InsertCard(r, c)
              \/ \E r \in Readers, gone \in BOOLEAN : Pace!RemoveCard(r, gone)
              \/ Pace!onReaderDeviceError \/ Pace!setReaderPlugInTypes
           /\ UNCHANGED auth
  BY <1>1, <1>6, ReadersMove, EnvironmentFits
<1>7. CASE \E r \in Readers : onCardRemoved(r)
  BY <1>1, <1>7, CardRemovedFits
<1>8. CASE /\ fireCancelWorkflow(AbortTarget[state]) \/ killWorkflow
           /\ UNCHANGED auth
  BY <1>1, <1>8, CancelFits, KillFits DEF fireCancelWorkflow
<1>9. CASE UNCHANGED <<vars, auth>>
  BY <1>1, <1>9, StutterFits DEF vars
<1>10. Step => \/ StartMachine(First) /\ UNCHANGED auth
               \/ DropResult /\ UNCHANGED auth
               \/ CancelKilled(AbortTarget[state]) /\ UNCHANGED auth
               \/ ChannelStep \/ AroundChannel
  BY DEF Step, AroundChannel
<1>11. QED
  BY <1>2, <1>3, <1>4, <1>5, <1>6, <1>7, <1>8, <1>9, <1>10
     DEF Next, Terminated, Environment, RemoveCard

(***************************************************************************)
(* With a server that ends the dialogue when it is told of an error, the   *)
(* commands of the terminal authentication find the connection they assert *)
(* and reach the card in the channel of PACE or not at all, whatever cards *)
(* and readers come and go (StateDidAuthenticateEac1, StateTransmit,       *)
(* AbstractState::onCardRemoved, CardConnectionWorker).                    *)
(***************************************************************************)
THEOREM InsideChannel ==
  ASSUME ServerHeedsErrors
  PROVE  Spec => []EacInsideChannel
<1>1. Init => ChannelFits
  <2>1. ASSUME Init
        PROVE  jobs = <<>> /\ state \notin EacStates \cup {Eac1Answer}
    BY <2>1 DEF Init, EacStates, Eac1Answer
  <2>2. QED
    BY <2>1 DEF ChannelFits
<1>2. AuthInv /\ ChannelFits /\ [Next]_<<vars, auth>> => ChannelFits'
  BY NextFits
<1>3. AuthInv /\ ChannelFits => EacInsideChannel
  <2>1. SUFFICES ASSUME AuthInv, ChannelFits PROVE EacInsideChannel
    OBVIOUS
  <2>2. state \in {"DidAuthenticateEac1", "DidAuthenticateEac2", "Transmit"}
          => HasConnection(ctx)
    BY <2>1, SameContext DEF ChannelFits, EacStates, Established
  <2>3. ASSUME NEW op \in EacCommands, Pace!Pending(op), Pace!Alive(Pace!R)
        PROVE  reader[Pace!R].session = IF auth.canAllowed THEN "can" ELSE "pin"
    <3>1. jobs \in Seq(P!Jobs)
      BY <2>1 DEF AuthInv, P!PaceInv, P!PaceTypeOK
    <3>2. 1 \in 1 .. Len(jobs) /\ jobs[1] = Head(jobs) /\ jobs[1].op = op
      BY <2>3, <3>1 DEF Pace!Pending
    <3>3. InChannel(jobs[1].reader)
      BY <2>1, <3>2 DEF ChannelFits, EacJobFits
    <3>4. QED
      BY <2>3, <3>2, <3>3 DEF InChannel, Pace!Alive, Pace!R
  <2>4. QED
    BY <2>2, <2>3 DEF EacInsideChannel, EacCommands
<1>4. QED
  BY <1>1, <1>2, <1>3, Invariant, PTL DEF Spec
=============================================================================
