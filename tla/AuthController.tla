--------------------------- MODULE AuthController ---------------------------
(***************************************************************************)
(* An authentication: AuthController, which answers the browser that asked *)
(* for it, or SelfAuthController, which shows the card holder the data.    *)
(* Both surround the trusted channel with a prologue and an epilogue.      *)
(***************************************************************************)
EXTENDS TrustedChannel

CONSTANTS
  SurveyPending,   \* GeneralSettings::isDeviceSurveyPending
  SelfAuths        \* bound: TRUE for a self-authentication, FALSE for a browser's

ASSUME AuthAssumption == SurveyPending \in BOOLEAN /\ SelfAuths \subseteq BOOLEAN

(* Every user interface approves this state as soon as it is entered.      *)
ASSUME RedirectAssumption == "RedirectBrowser" \notin UiHolds

(***************************************************************************)
(* The transitions around the trusted channel.                             *)
(***************************************************************************)
First == IF auth.self THEN "LoadTcTokenUrl" ELSE "Processing"

ContinueTo ==
  [Processing |-> "ParseTcTokenUrl", ParseTcTokenUrl |-> "GetTcToken",
   LoadTcTokenUrl |-> "GetTcToken", CheckError |-> "CheckRefreshAddress",
   CheckRefreshAddress |-> "ActivateStoreFeedbackDialog",
   ActivateStoreFeedbackDialog |-> "WriteHistory",
   WriteHistory |-> IF auth.self THEN "GetSelfAuthenticationData"
                                 ELSE "SendWhitelistSurvey",
   GetSelfAuthenticationData |-> "ShowSelfInfo",
   ShowSelfInfo |-> "SendWhitelistSurvey",
   SendWhitelistSurvey |-> IF auth.self THEN "FinalState" ELSE "RedirectBrowser",
   RedirectBrowser |-> "FinalState"]

States == Pace!PaceStates \cup ChannelStates \cup DOMAIN ContinueTo
            \cup {"Initial", "FinalState", "Done", "Unreachable"}

AbortTo_SkipsBrowser ==
  [s \in DOMAIN ContinueTo |->
     CASE s \in {"Processing", "ParseTcTokenUrl", "LoadTcTokenUrl"} ->
            "CheckRefreshAddress"
       [] s \in {"ActivateStoreFeedbackDialog", "RedirectBrowser"} ->
            ContinueTo[s]
       [] s = "WriteHistory" ->
            IF auth.self THEN ContinueTo[s] ELSE "RedirectBrowser"
       [] OTHER -> "FinalState"]

AbortTo ==
  [s \in DOMAIN ContinueTo |->
     CASE s \in {"Processing", "ParseTcTokenUrl", "LoadTcTokenUrl"} ->
            "CheckRefreshAddress"
       [] s \in {"ActivateStoreFeedbackDialog", "RedirectBrowser"} ->
            ContinueTo[s]
       [] s = "WriteHistory" ->
            IF auth.self THEN ContinueTo[s] ELSE "RedirectBrowser"
       [] OTHER -> IF auth.self THEN "FinalState" ELSE "RedirectBrowser"]

AbortTarget_FinalRestarts ==
  [s \in States |->
     IF s \in Pace!PaceStates THEN Pace!PaceAbortTarget[s]
     ELSE IF s \in ChannelStates THEN ChannelAbortTo[s]
     ELSE IF s \in DOMAIN ContinueTo THEN AbortTo[s]
     ELSE IF s = "FinalState" THEN "CheckRefreshAddress" ELSE s]

AbortTarget ==
  [s \in States |->
     IF s \in Pace!PaceStates THEN Pace!PaceAbortTarget[s]
     ELSE IF s \in ChannelStates THEN ChannelAbortTo[s]
     ELSE IF s \in DOMAIN ContinueTo THEN AbortTo[s] ELSE s]

Init ==
  /\ state = "Initial" /\ phase = "entered"
  /\ cancelDue = FALSE
  /\ ctx = InitialContext
  /\ jobs = <<>>
  /\ reader = [r \in Readers |-> [card |-> NoCard, counter |-> -1,
                                  session |-> "closed"]]
  /\ card \in [Cards -> [counter : {1, 3}, puk : {PukUses}, changed : {FALSE}]]
  /\ \A c \in Deactivated : card[c].counter = 3      \* which no reader can see
  /\ spent = {}
  /\ auth \in {InitialAuth(self) : self \in SelfAuths}

Pass(s) == Run(s) /\ Go(ContinueTo[s], ctx) /\ UNCHANGED auth
Fail(s) == Run(s) /\ Go(AbortTo[s], Blamed(ctx)) /\ UNCHANGED auth

(* The browser that waits for the "Processing" page may be gone.           *)
StateProcessing == Pass("Processing") \/ Fail("Processing")
StateParseTcTokenUrl == Pass("ParseTcTokenUrl") \/ Fail("ParseTcTokenUrl")
StateLoadTcTokenUrl == Pass("LoadTcTokenUrl")
StateActivateStoreFeedbackDialog == Pass("ActivateStoreFeedbackDialog")
StateShowSelfInfo == Pass("ShowSelfInfo")

(* StateCheckError.                                                        *)
StateCheckError ==
  /\ Run("CheckError")
  /\ \E toldUser \in BOOLEAN :
       Go(IF HasError(ctx) /\ ~toldUser /\ ~ctx.killed
            THEN AbortTo["CheckError"] ELSE ContinueTo["CheckError"], ctx)
  /\ UNCHANGED auth

(* StateCheckRefreshAddress: without a usable address in the token nothing *)
(* is checked; otherwise redirects are followed until the host fits.       *)
StateCheckRefreshAddress ==
  \/ /\ Run("CheckRefreshAddress") /\ auth.token # "valid"
     /\ Go(ContinueTo["CheckRefreshAddress"], ctx)
     /\ UNCHANGED auth
  \/ Await("CheckRefreshAddress") /\ auth.token # "none" /\ UNCHANGED auth

RefreshAddressChecked ==
  /\ ReplyFor("CheckRefreshAddress")
  /\ \/ /\ Go(ContinueTo["CheckRefreshAddress"], ctx)      \* doneSuccess
        /\ auth' = [auth EXCEPT !.refreshUrl = TRUE]
     \/ /\ Go(AbortTo["CheckRefreshAddress"], Blamed(ctx))
        /\ UNCHANGED auth

(* StateWriteHistory: nothing is written with the history switched off,    *)
(* and there is nothing to write without access rights.                    *)
StateWriteHistory_IgnoresStatus ==
  /\ Run("WriteHistory")
  /\ \/ Go(ContinueTo["WriteHistory"], ctx) /\ UNCHANGED auth
     \/ Go(AbortTo["WriteHistory"], ctx) /\ UNCHANGED auth
     \/ /\ auth.eac1
        /\ Go(ContinueTo["WriteHistory"], ctx)
        /\ auth' = [auth EXCEPT !.history = TRUE]

StateWriteHistory ==
  /\ Run("WriteHistory")
  /\ \/ Go(ContinueTo["WriteHistory"], ctx) /\ UNCHANGED auth
     \/ Go(AbortTo["WriteHistory"], ctx) /\ UNCHANGED auth
     \/ /\ auth.eac1 /\ ~HasError(ctx)
        /\ Go(ContinueTo["WriteHistory"], ctx)
        /\ auth' = [auth EXCEPT !.history = TRUE]

StateGetSelfAuthenticationData ==
  Await("GetSelfAuthenticationData") /\ UNCHANGED auth

SelfAuthenticationData ==
  /\ ReplyFor("GetSelfAuthenticationData")
  /\ \/ /\ auth.refreshUrl
        /\ Go(ContinueTo["GetSelfAuthenticationData"], ctx)
     \/ Go(AbortTo["GetSelfAuthenticationData"], Blamed(ctx))
  /\ UNCHANGED auth

(* StateSendWhitelistSurvey: goes on when no survey is pending or used as  *)
(* an SDK; its Q_ASSERT(false) lets a release build abort.                 *)
StateSendWhitelistSurvey ==
  /\ Run("SendWhitelistSurvey")
  /\ \/ Go(ContinueTo["SendWhitelistSurvey"], ctx)
     \/ SurveyPending /\ Go(AbortTo["SendWhitelistSurvey"], ctx)
  /\ UNCHANGED auth

(* StateRedirectBrowser: an error page, a redirect with an error or one    *)
(* with success, unless the UI wants none; or the browser is gone.         *)
Answer == IF auth.notFound \/ ~auth.refreshUrl \/ HasError(ctx)
            THEN "error" ELSE "success"

StateRedirectBrowser ==
  /\ Run("RedirectBrowser")
  /\ \E sent \in {Answer, "skipped", "lost"} :
       /\ Go("FinalState", IF sent = "lost" THEN Blamed(ctx) ELSE ctx)
       /\ auth' = [auth EXCEPT !.answer = sent]

StateFinal == Run("FinalState") /\ Go("Done", ctx) /\ UNCHANGED auth

Step ==
  \/ StartMachine(First) /\ UNCHANGED auth
  \/ ChannelStep
  \/ StateProcessing \/ StateParseTcTokenUrl \/ StateLoadTcTokenUrl
  \/ StateActivateStoreFeedbackDialog \/ StateShowSelfInfo
  \/ StateCheckError
  \/ StateCheckRefreshAddress \/ RefreshAddressChecked
  \/ StateWriteHistory
  \/ StateGetSelfAuthenticationData \/ SelfAuthenticationData
  \/ StateSendWhitelistSurvey \/ StateRedirectBrowser \/ StateFinal
  \/ DropResult /\ UNCHANGED auth
  \/ CancelKilled(AbortTarget[state]) /\ UNCHANGED auth

Environment ==
  \/ (\E r \in Readers, c \in Cards : Pace!InsertCard(r, c)) /\ UNCHANGED auth
  \/ \E r \in Readers, gone \in BOOLEAN : RemoveCard(r, gone)
  \/ /\ \/ Pace!onReaderDeviceError
        \/ Pace!setReaderPlugInTypes
        \/ fireCancelWorkflow(AbortTarget[state])
        \/ killWorkflow
     /\ UNCHANGED auth

Terminated ==
  state \in {"Done", "Unreachable"} /\ ~cancelDue /\ UNCHANGED <<vars, auth>>

Next ==
  \/ Step
  \/ Pace!ExecuteCommand /\ UNCHANGED auth
  \/ Environment
  \/ Terminated

Spec == Init /\ [][Next]_<<vars, auth>>

(***************************************************************************)
(* Types; the repositioning count stays within its limit.                  *)
(***************************************************************************)
TypeOK ==
  /\ state \in States /\ phase \in {"entered", "waiting"} /\ cancelDue \in BOOLEAN
  /\ ctx \in Contexts
  /\ jobs \in Seq(Jobs)
  /\ reader \in [Readers -> [card : Cards \cup {NoCard}, counter : Counters,
                             session : Sessions]]
  /\ card \in [Cards -> [counter : 0 .. 3, puk : 0 .. PukUses, changed : BOOLEAN]]
  /\ spent \subseteq Cards
  /\ auth \in Auths

(***************************************************************************)
(* From the moment PACE is over no typed password is kept, on whatever     *)
(* path the dialogue with the server is reached (the assertions of         *)
(* StateGenericSendReceive and StateDidAuthenticateEac1).                  *)
(***************************************************************************)
NoPasswordInDialogue ==
  state \in ChannelStates \ {"ClearPacePasswords"}
    => \A k \in PasswordKinds : ctx.pw[k] = NoPassword

(***************************************************************************)
(* The terminal authentication commands find the connection they assert,   *)
(* and reach the card only inside the channel PACE has opened with the PIN *)
(* (with the CAN where the provider's certificate allows it), although     *)
(* cards are swapped and connections replaced meanwhile.                   *)
(***************************************************************************)
EacInsideChannel ==
  /\ state \in {"DidAuthenticateEac1", "DidAuthenticateEac2", "Transmit"}
       => HasConnection(ctx)
  /\ (/\ \E op \in {"DidAuthenticateEAC1", "DidAuthenticateEAC2", "Transmit"} :
           Pace!Pending(op)
      /\ Pace!Alive(Pace!R))
       => reader[Pace!R].session = IF auth.canAllowed THEN "can" ELSE "pin"

(***************************************************************************)
(* The browser is told of a success only when the server has confirmed it, *)
(* and never of a failure when the user sees a success.                    *)
(***************************************************************************)
AnswerIsTrue ==
  [][auth.answer = "none" =>
       /\ auth'.answer = "success" => auth.serverSaid = "ok" /\ ~HasError(ctx)
       /\ auth'.answer = "error" => HasError(ctx)]_<<vars, auth>>

(***************************************************************************)
(* Every authentication of a browser ends with an answer to it, through    *)
(* aborts, cancels and kills in any state.                                 *)
(***************************************************************************)
BrowserAnswered ==
  (state \in {"FinalState", "Done"} /\ ~auth.self) => auth.answer # "none"

(***************************************************************************)
(* The history holds only authentications the user has consented to and    *)
(* the server has completed.                                               *)
(***************************************************************************)
HistoryIsTrue == auth.history => auth.consent /\ auth.serverSaid = "ok"

(***************************************************************************)
(* Like the PIN change, it implements the life of a workflow that the      *)
(* AppController is built on.                                              *)
(***************************************************************************)
LifecycleStage ==
  CASE state = "Initial" -> "initial"
    [] state = "FinalState" /\ ~ctx.killed -> "final"
    [] state = "Done" \/ (state = "FinalState" /\ ctx.killed) -> "done"
    [] state = First /\ phase = "waiting" -> "deaf"
    [] OTHER -> "running"

Lifecycle == INSTANCE Workflow WITH stage <- LifecycleStage, killed <- ctx.killed

ImplementsWorkflow == Lifecycle!Spec
=============================================================================
