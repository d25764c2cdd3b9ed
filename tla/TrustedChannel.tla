--------------------------- MODULE TrustedChannel ---------------------------
(***************************************************************************)
(* CompositeStateTrustedChannel: the TC token, the PAOS dialogue with the  *)
(* eID server and the card commands in between, with CompositeStatePace    *)
(* inside.  AuthController and SelfAuthController both go through it.      *)
(***************************************************************************)
EXTENDS CardWorkflow

CONSTANTS
  AsksByName,         \* the workflow is followed through the JSON interface
  MaxTransmits,       \* bound: Transmit messages of the server
  ServerHeedsErrors   \* a server told of an error only ends the dialogue

ASSUME ServerAssumption ==
  MaxTransmits \in Nat /\ ServerHeedsErrors \in BOOLEAN

VARIABLE auth         \* what AuthContext adds to the WorkflowContext

Auths ==
  [self : BOOLEAN,        \* SelfAuthController or AuthController
   token : {"none", "invalid", "valid"}, notFound : BOOLEAN,
   refreshUrl : BOOLEAN, eac1 : BOOLEAN, canAllowed : BOOLEAN,
   reported : BOOLEAN,    \* isErrorReportedToServer
   serverSaid : {"nothing", "ok", "error"}, transmits : 0 .. MaxTransmits,
   consent : BOOLEAN,     \* history: the user approved the access rights
   history : BOOLEAN,     \* an entry was written
   answer : {"none", "success", "error", "skipped", "lost"}]

InitialAuth(self) ==
  [self |-> self, token |-> "none", notFound |-> TRUE, refreshUrl |-> FALSE,
   eac1 |-> FALSE, canAllowed |-> FALSE, reported |-> FALSE,
   serverSaid |-> "nothing", transmits |-> 0,
   consent |-> FALSE, history |-> FALSE, answer |-> "none"]

Pace == INSTANCE CompositeStatePace
          WITH OnEstablished <- "ClearPacePasswords",
               OnAbort <- "SendDIDAuthenticateResponseEAC1",
               canAllowedMode <- auth.canAllowed

(***************************************************************************)
(* The transitions.  What a Send state does with each message it accepts;  *)
(* fireContinue and fireAbort of every state.                              *)
(***************************************************************************)
Received ==
  [SendStartPaos |->
     [INITIALIZE_FRAMEWORK |-> "InitializeFramework", DID_LIST |-> "DidList",
      EAC1 |-> "ExtractCvcsFromEac1InputType",
      STARTPAOS_RESPONSE |-> "StartPaosResponse"],
   SendInitializeFrameworkResponse |->
     [DID_LIST |-> "DidList", EAC1 |-> "ExtractCvcsFromEac1InputType",
      STARTPAOS_RESPONSE |-> "StartPaosResponse"],
   SendDIDListResponse |->
     [EAC1 |-> "ExtractCvcsFromEac1InputType",
      DISCONNECT |-> "SendDisconnectResponse",
      STARTPAOS_RESPONSE |-> "StartPaosResponse"],
   SendDIDAuthenticateResponseEAC1 |->
     [EAC2 |-> "EACAdditionalInputType",
      DISCONNECT |-> "SendDisconnectResponse",
      STARTPAOS_RESPONSE |-> "StartPaosResponse"],
   SendDIDAuthenticateResponseEACAdditionalInputType |->
     [EAC_ADDITIONAL |-> "ProcessCertificatesFromEac2",
      STARTPAOS_RESPONSE |-> "StartPaosResponse"],
   SendDIDAuthenticateResponseEAC2 |->
     [TRANSMIT |-> "Transmit", DISCONNECT |-> "SendDisconnectResponse",
      STARTPAOS_RESPONSE |-> "StartPaosResponse"],
   SendTransmitResponse |->
     [TRANSMIT |-> "Transmit", DISCONNECT |-> "SendDisconnectResponse",
      STARTPAOS_RESPONSE |-> "StartPaosResponse"],
   SendDisconnectResponse |-> [STARTPAOS_RESPONSE |-> "StartPaosResponse"]]

SendStates == DOMAIN Received

(* Where the controller goes on.                                           *)
AfterTrustedChannel == IF auth.self THEN "CheckError" ELSE "CheckRefreshAddress"

ChannelContinueTo ==
  [GetTcToken |-> "StartPaos", StartPaos |-> "SendStartPaos",
   InitializeFramework |-> "SendInitializeFrameworkResponse",
   DidList |-> "SendDIDListResponse",
   ExtractCvcsFromEac1InputType |-> "PreVerification",
   PreVerification |-> "CertificateDescriptionCheck",
   CertificateDescriptionCheck |-> "CheckCertificates",
   CheckCertificates |-> "EditAccessRights",
   EditAccessRights |-> "MaintainCardConnection",
   ClearPacePasswords |-> "DidAuthenticateEac1",
   DidAuthenticateEac1 |-> "SendDIDAuthenticateResponseEAC1",
   EACAdditionalInputType |-> "ProcessCertificatesFromEac2",
   ProcessCertificatesFromEac2 |-> "DidAuthenticateEac2",
   DidAuthenticateEac2 |-> "SendDIDAuthenticateResponseEAC2",
   Transmit |-> "SendTransmitResponse",
   StartPaosResponse |-> "UpdateRetryCounterFinal",
   UpdateRetryCounterFinal |-> "CleanUpReaderManager",
   CleanUpReaderManager |-> AfterTrustedChannel]

ChannelStates == DOMAIN ChannelContinueTo \cup SendStates

ChannelAbortTo ==
  [s \in ChannelStates |->
     IF s \in {"GetTcToken", "StartPaos", "SendStartPaos",
               "SendInitializeFrameworkResponse", "SendDIDListResponse"}
       THEN "CleanUpReaderManager"
     ELSE IF s \in {"ExtractCvcsFromEac1InputType", "PreVerification",
                    "CertificateDescriptionCheck", "CheckCertificates",
                    "EditAccessRights"}
       THEN "SendDIDAuthenticateResponseEAC1"
     ELSE IF s = "EACAdditionalInputType"
       THEN "SendDIDAuthenticateResponseEACAdditionalInputType"
     ELSE IF s = "ProcessCertificatesFromEac2"
       THEN "SendDIDAuthenticateResponseEAC2"
     ELSE IF s \in SendStates THEN "UpdateRetryCounterFinal"
     ELSE ChannelContinueTo[s]]

(* The states that listen to a removed card (pConnectOnCardRemoved).       *)
HearsCardRemoved ==
  {"DidAuthenticateEac1", "DidAuthenticateEac2", "Transmit"}
    \cup (SendStates \ {"SendStartPaos", "SendInitializeFrameworkResponse",
                        "SendDIDListResponse"})

Blamed(c) == updateStatus(c, "Workflow_Communication_Error")

(* run() only fires fireContinue, or checks something first.               *)
Continue(s) == Run(s) /\ Go(ChannelContinueTo[s], ctx) /\ UNCHANGED auth
Refuse(s) == Run(s) /\ Go(ChannelAbortTo[s], Blamed(ctx)) /\ UNCHANGED auth

(* run() sends a request: what follows comes with the reply.               *)
Await(s) ==
  /\ Run(s)
  /\ phase' = "waiting"
  /\ UNCHANGED <<state, cancelDue, ctx, jobs, reader, card, spent>>

ReplyFor(s) == Quiet /\ state = s /\ phase = "waiting"

(***************************************************************************)
(* StateGetTcToken.  An address that is not https is not a missing token   *)
(* (setTcTokenNotFound(false)).                                            *)
(***************************************************************************)
NoTcToken ==
  /\ \E known \in BOOLEAN : auth' = [auth EXCEPT !.notFound = @ /\ ~known]
  /\ Go(ChannelAbortTo["GetTcToken"], Blamed(ctx))

StateGetTcToken ==
  \/ Run("GetTcToken") /\ NoTcToken
  \/ Await("GetTcToken") /\ UNCHANGED auth

parseTcToken ==
  /\ ReplyFor("GetTcToken")
  /\ \/ NoTcToken
     \/ /\ \E conform \in BOOLEAN :
             auth' = [auth EXCEPT !.token = "invalid", !.notFound = ~conform]
        /\ Go(ChannelAbortTo["GetTcToken"], Blamed(ctx))
     \/ /\ auth' = [auth EXCEPT !.token = "valid", !.notFound = FALSE]
        /\ Go("StartPaos", ctx)

(***************************************************************************)
(* StateGenericSendReceive::run: the first response after an error tells   *)
(* the server of it.                                                       *)
(***************************************************************************)
StateGenericSendReceive(s) ==
  /\ Await(s)
  /\ auth' = [auth EXCEPT !.reported =
                @ \/ (s # "SendStartPaos" /\ HasError(ctx))]

Heeds(type) ==
  (ServerHeedsErrors /\ auth.reported)
    => type \in {"DISCONNECT", "STARTPAOS_RESPONSE"}

(* setReceivedMessage, and AuthContext::setTerminalCvc for the CAN allowed *)
(* mode.                                                                   *)
WithMessage(type) ==
  CASE type = "STARTPAOS_RESPONSE" ->
         {[auth EXCEPT !.serverSaid = said] : said \in {"ok", "error"}}
    [] type = "EAC1" -> {[auth EXCEPT !.eac1 = TRUE]}
    [] type = "TRANSMIT" -> {[auth EXCEPT !.transmits = @ + 1]}
    [] OTHER -> {auth}

(* onReplyFinished with a message this state expects.                      *)
ReceiveMessage(s, type) ==
  /\ ReplyFor(s) /\ Heeds(type)
  /\ type = "TRANSMIT" => auth.transmits < MaxTransmits
  /\ auth' \in WithMessage(type)
  /\ Go(Received[s][type], ctx)

(* onReplyFinished with an error or another message, onSslErrors,          *)
(* onSslHandshakeDone.                                                     *)
ReplyFails(s) ==
  /\ ReplyFor(s)
  /\ Go(ChannelAbortTo[s], Blamed(ctx))
  /\ UNCHANGED auth

StateStartPaos == Continue("StartPaos")
StateInitializeFramework == Continue("InitializeFramework")
StateDidList == Continue("DidList")

(* CompositeStateProcessCvcsAndSetRights: the certificates of EAC1 are     *)
(* taken apart and checked.                                                *)
StateExtractCvcsFromEac1InputType ==
  /\ Run("ExtractCvcsFromEac1InputType")
  /\ \/ Refuse("ExtractCvcsFromEac1InputType")
     \/ /\ \E can \in BOOLEAN : auth' = [auth EXCEPT !.canAllowed = can]
        /\ Go("PreVerification", ctx)

StatePreVerification == Continue("PreVerification") \/ Refuse("PreVerification")

StateCertificateDescriptionCheck ==
  Continue("CertificateDescriptionCheck") \/ Refuse("CertificateDescriptionCheck")

StateCheckCertificates ==
  Continue("CheckCertificates") \/ Refuse("CheckCertificates")

StateProcessCertificatesFromEac2 ==
  Continue("ProcessCertificatesFromEac2") \/ Refuse("ProcessCertificatesFromEac2")

(* StateEditAccessRights: a killed workflow approves it without the user.  *)
StateEditAccessRights ==
  /\ Run("EditAccessRights")
  /\ auth' = [auth EXCEPT !.consent = ~ctx.killed]
  /\ Go("MaintainCardConnection", ctx)

(***************************************************************************)
(* The card commands and their results.  They need the connection that the *)
(* code asserts: the guard HasConnection stands for a null pointer, which  *)
(* a property excludes.                                                    *)
(***************************************************************************)
StateDidAuthenticateEac1 ==
  /\ Run("DidAuthenticateEac1") /\ HasConnection(ctx)
  /\ Call("DidAuthenticateEAC1", ctx.conn.reader, "UNKNOWN", NoPassword)
  /\ UNCHANGED auth

DidAuthenticateEac1Done ==
  /\ Heard("DidAuthenticateEac1")
  /\ Return("SendDIDAuthenticateResponseEAC1",
            updateStatus(ctx, toGlobalStatus[Result]))
  /\ UNCHANGED auth

(* StateEACAdditionalInputType: with or without a signature in EAC2.       *)
StateEACAdditionalInputType ==
  /\ Run("EACAdditionalInputType")
  /\ \E s \in {"ProcessCertificatesFromEac2",
               "SendDIDAuthenticateResponseEACAdditionalInputType"} : Go(s, ctx)
  /\ UNCHANGED auth

StateDidAuthenticateEac2 ==
  /\ Run("DidAuthenticateEac2") /\ HasConnection(ctx)
  /\ \/ Call("DidAuthenticateEAC2", ctx.conn.reader, "UNKNOWN", NoPassword)
     \/ Go("SendDIDAuthenticateResponseEAC2",
           updateStatus(ctx, "Workflow_No_Permission_Error"))
  /\ UNCHANGED auth

DidAuthenticateEac2Done ==
  /\ Heard("DidAuthenticateEac2")
  /\ Return("SendDIDAuthenticateResponseEAC2",
            CASE Result = "OK" -> ctx
              [] Result = "COMMAND_FAILED" ->
                   updateStatus(ctx, "Workflow_Card_Removed")
              [] OTHER -> updateStatus(ctx, "Workflow_No_Permission_Error"))
  /\ UNCHANGED auth

StateTransmit ==
  /\ Run("Transmit") /\ HasConnection(ctx)
  /\ Call("Transmit", ctx.conn.reader, "UNKNOWN", NoPassword)
  /\ UNCHANGED auth

TransmitDone ==
  /\ Heard("Transmit")
  /\ Return("SendTransmitResponse", updateStatus(ctx, toGlobalStatus[Result]))
  /\ UNCHANGED auth

StateStartPaosResponse_IgnoresResult ==
  /\ Run("StartPaosResponse")
  /\ Go("UpdateRetryCounterFinal", ctx)
  /\ UNCHANGED auth

StateStartPaosResponse ==
  /\ Run("StartPaosResponse")
  /\ Go("UpdateRetryCounterFinal",
        IF auth.serverSaid = "error" THEN Blamed(ctx) ELSE ctx)
  /\ UNCHANGED auth

(* AbstractState::onCardRemoved, or what CompositeStatePace makes of it.   *)
onCardRemoved(r) ==
  /\ Quiet /\ Pace!NothingSentBefore /\ Pace!CardIn(r) # NoCard
  /\ state \in HearsCardRemoved /\ phase = "waiting" /\ r = ctx.readerName
  /\ Enter(ChannelAbortTo[state])
  /\ reader' = [reader EXCEPT ![r] =
                  [card |-> NoCard, counter |-> -1, session |-> "closed"]]
  /\ ctx' = updateStatus(Pace!InfoChanged(r, NoCard, -1), "Workflow_Card_Removed")
  /\ jobs' = Unheard(jobs)
  /\ UNCHANGED <<cancelDue, card, spent, auth>>

RemoveCard(r, withReader) ==
  \/ onCardRemoved(r)
  \/ /\ ~(state \in HearsCardRemoved /\ phase = "waiting" /\ r = ctx.readerName)
     /\ Pace!RemoveCard(r, withReader)
     /\ UNCHANGED auth

ChannelStep ==
  \/ StateGetTcToken \/ parseTcToken
  \/ StateStartPaos \/ StateInitializeFramework \/ StateDidList
  \/ \E s \in SendStates : StateGenericSendReceive(s) \/ ReplyFails(s)
  \/ \E s \in SendStates : \E type \in DOMAIN Received[s] : ReceiveMessage(s, type)
  \/ StateExtractCvcsFromEac1InputType \/ StatePreVerification
  \/ StateCertificateDescriptionCheck \/ StateCheckCertificates
  \/ StateEditAccessRights
  \/ StateDidAuthenticateEac1 \/ DidAuthenticateEac1Done
  \/ StateEACAdditionalInputType \/ StateProcessCertificatesFromEac2
  \/ StateDidAuthenticateEac2 \/ DidAuthenticateEac2Done
  \/ StateTransmit \/ TransmitDone
  \/ StateStartPaosResponse
  \/ /\ \/ Pace!PaceStep
        \/ Pace!StateClearPacePasswords("ClearPacePasswords", "DidAuthenticateEac1")
        \/ Pace!StateUpdateRetryCounter("UpdateRetryCounterFinal",
                                        "CleanUpReaderManager")
        \/ Pace!UpdateRetryCounterDone("UpdateRetryCounterFinal",
                                       "CleanUpReaderManager",
                                       "CleanUpReaderManager")
        \/ Pace!StateCleanUpReaderManager(AfterTrustedChannel)
     /\ UNCHANGED auth
=============================================================================
