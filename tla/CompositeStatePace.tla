------------------------- MODULE CompositeStatePace -------------------------
(***************************************************************************)
(* The states between "a card is needed" and "the PACE channel stands":    *)
(* CompositeStatePace and the states it is made of, one action per run()   *)
(* and per callback.  The composite leaves through OnEstablished           *)
(* (firePaceChannelEstablished) or OnAbort (fireAbort).                    *)
(***************************************************************************)
EXTENDS CardCommands

CONSTANTS
  OnEstablished, OnAbort,
  AsksByName   \* the user interface asks for a password by the reader's name

VARIABLE canAllowedMode   \* WorkflowContext::isCanAllowedMode

PaceStates ==
  {"MaintainCardConnection", "ClearPacePasswordsOnError", "SelectReader",
   "ConnectCard", "UpdateRetryCounter", "VerifyRetryCounter", "PreparePace",
   "EnterPacePassword", "EstablishPaceChannel", "UnfortunateCardPosition",
   "ClearPacePasswordsBeforeDestroy", "DestroyPace"}

(* fireAbort of each state.                                                *)
PaceAbortTarget ==
  [s \in PaceStates |->
     IF s = "MaintainCardConnection" THEN "ClearPacePasswordsOnError"
     ELSE IF s \in {"ClearPacePasswordsOnError", "DestroyPace"} THEN OnAbort
     ELSE IF s = "ClearPacePasswordsBeforeDestroy" THEN "DestroyPace"
     ELSE "MaintainCardConnection"]

(* The results nothing can be done about, and any error, end the workflow. *)
MaintainAborts_IgnoresStatus == ctx.last \in Unrecoverable

MaintainAborts == HasError(ctx) \/ ctx.last \in Unrecoverable

StateMaintainCardConnection ==
  /\ Run("MaintainCardConnection")
  /\ \/ /\ MaintainAborts
        /\ Go("ClearPacePasswordsOnError",
              updateStatus(ctx, toGlobalStatus[ctx.last]))
     \/ /\ ~MaintainAborts /\ ctx.last \in equalsWrongPacePassword
        /\ Go(IF HasConnection(ctx) THEN "UpdateRetryCounter"
                                    ELSE "SelectReader",
              resetPacePasswords(ctx))
     \/ /\ ~MaintainAborts /\ ctx.last \in CardVanished
        /\ Go("SelectReader", [ctx EXCEPT !.conn = NoConnection, !.last = "OK"])
     \/ /\ ~MaintainAborts /\ ctx.last = "OK_PUK"
        /\ Go("UpdateRetryCounter", [ctx EXCEPT !.last = "OK"])
     \/ /\ ~MaintainAborts /\ ctx.last = "OK"
        /\ Go(IF HasConnection(ctx) THEN "VerifyRetryCounter"
                                    ELSE "SelectReader", ctx)

(* StateClearPacePasswords, in its two places of the composite.            *)
StateClearPacePasswords_AfterErrorsNot(s, target) ==
  Run(s) /\ Go(target, IF HasError(ctx) THEN ctx ELSE resetPacePasswords(ctx))

StateClearPacePasswords(s, target) == Run(s) /\ Go(target, resetPacePasswords(ctx))

(* StateSelectReader: a reader with an identity card in it is taken.       *)
Select(r) == Go("ConnectCard", [ctx EXCEPT !.readerName = r])

StateSelectReader ==
  /\ Run("SelectReader")
  /\ \/ \E r \in Readers : CardIn(r) # NoCard /\ Select(r)
     \/ /\ \A r \in Readers : CardIn(r) = NoCard
        /\ phase' = "waiting"
        /\ UNCHANGED <<state, cancelDue, ctx, jobs, reader, card, spent>>

onReaderDeviceError ==
  /\ Quiet /\ state = "SelectReader" /\ phase = "waiting"
  /\ Go("MaintainCardConnection",
        updateStatus(ctx, "Workflow_Reader_Device_Error"))

(* StateConnectCard::run and onCommandDone.                                *)
StateConnectCard ==
  /\ Run("ConnectCard")
  /\ \/ /\ CardIn(ctx.readerName) # NoCard
        /\ Call("CreateCardConnection", ctx.readerName, "UNKNOWN", NoPassword)
     \/ /\ CardIn(ctx.readerName) = NoCard
        /\ phase' = "waiting"
        /\ UNCHANGED <<state, cancelDue, ctx, jobs, reader, card, spent>>

ConnectCardDone ==
  /\ Heard("ConnectCard")
  /\ LET r == ctx.readerName
         q == Head(jobs).reader
         connected == [ctx EXCEPT
                         !.conn = [reader |-> q, counter |-> reader[q].counter,
                                   paceCan |-> FALSE, pacePin |-> FALSE],
                         !.doubted = Doubtful(CardIn(q), reader[q].counter)]
     IN \/ Result # "OK" /\ Return("MaintainCardConnection", ctx)
        \/ /\ Result = "OK" /\ (~IsPinDeactivated(r) \/ canAllowedMode)
           /\ Return("UpdateRetryCounter", connected)
        \/ /\ Result = "OK" /\ IsPinDeactivated(r) /\ ~canAllowedMode
           /\ Main([connected EXCEPT !.doubted = TRUE], Tail(jobs))
           /\ UNCHANGED <<state, phase, cancelDue>>

(* The UI replaces the reader plug-in types: fireRetry.                    *)
setReaderPlugInTypes ==
  /\ Quiet /\ state \in {"SelectReader", "ConnectCard"} /\ Len(jobs) < MaxJobs
  /\ Go("SelectReader", ctx)

(* StateUpdateRetryCounter, which a controller also uses at its end.       *)
StateUpdateRetryCounter(s, aborted) ==
  /\ Run(s)
  /\ \/ ~HasConnection(ctx) /\ Go(aborted, ctx)
     \/ /\ HasConnection(ctx)
        /\ Call("UpdateRetryCounter", ctx.conn.reader, "UNKNOWN", NoPassword)

UpdateRetryCounterDone_KeepsConnection(s, target, aborted) ==
  /\ Heard(s)
  /\ Return(IF Result = "OK" THEN target ELSE aborted, ctx)

UpdateRetryCounterDone(s, target, aborted) ==
  /\ Heard(s)
  /\ \/ Result = "OK" /\ Return(target, ctx)
     \/ Result # "OK" /\ Return(aborted, [ctx EXCEPT !.conn = NoConnection])

(* StateVerifyRetryCounter: typed passwords survive only while the reader  *)
(* and the counter are the ones they were typed for.                       *)
Verified_IgnoresCounter ==
  IF ctx.readerName = ctx.expectedReader THEN ctx
    ELSE [resetPacePasswords(ctx) EXCEPT !.expectedReader = ctx.readerName,
                                         !.expectedCounter = ctx.conn.counter]

Verified ==
  IF ctx.readerName = ctx.expectedReader /\ ctx.expectedCounter = ctx.conn.counter
    THEN ctx
    ELSE [resetPacePasswords(ctx) EXCEPT !.expectedReader = ctx.readerName,
                                         !.expectedCounter = ctx.conn.counter]

StateVerifyRetryCounter ==
  /\ Run("VerifyRetryCounter")
  /\ \/ ~HasConnection(ctx) /\ Go("MaintainCardConnection", ctx)
     \/ HasConnection(ctx) /\ Go("PreparePace", Verified)

(* StatePreparePace::run.  Its Q_UNREACHABLE and, in the CAN allowed mode, *)
(* its Q_ASSERT(false) end a debug build; the machine stops in             *)
(* "Unreachable".                                                          *)
Prepare(type) ==
  Go(IF ctx.pw[KindOf[type]] = NoPassword THEN "EnterPacePassword"
                                          ELSE "EstablishPaceChannel",
     [ctx EXCEPT !.paceType = type])

CanStillRequired == ctx.conn.counter = 1 /\ ~ctx.conn.paceCan

PreparePaceInCanAllowedMode ==
  IF ctx.conn.paceCan
    THEN Go("Unreachable", [ctx EXCEPT !.paceType = "PACE_CAN"])
    ELSE Prepare("PACE_CAN")

StatePreparePace ==
  /\ Run("PreparePace")
  /\ \/ /\ ~HasConnection(ctx)
        /\ Go("MaintainCardConnection", [ctx EXCEPT !.paceType = "UNKNOWN"])
     \/ HasConnection(ctx) /\ canAllowedMode /\ PreparePaceInCanAllowedMode
     \/ /\ HasConnection(ctx) /\ ~canAllowedMode /\ ctx.conn.counter = 0
        /\ Prepare("PACE_PUK")
     \/ /\ HasConnection(ctx) /\ ~canAllowedMode /\ CanStillRequired
        /\ Prepare("PACE_CAN")
     \/ /\ HasConnection(ctx) /\ ~canAllowedMode
        /\ ctx.conn.counter # 0 /\ ~CanStillRequired
        /\ IF ctx.conn.pacePin
             THEN Go("Unreachable", [ctx EXCEPT !.paceType = "PACE_PIN"])
             ELSE Prepare("PACE_PIN")

(* The reader a UI looks at to know whether the user types at the screen:  *)
(* the graphical ones at that of the connection (WorkflowModel), the JSON  *)
(* interface at the selected one (MsgHandlerEnterNumber::parseValue).      *)
TypesAtScreen ==
  IsBasic(IF AsksByName THEN ctx.readerName ELSE ctx.conn.reader)

(* StateEnterPacePassword.  For a basic reader the UI stores what the user *)
(* typed before it approves the state; a killed workflow has no user.      *)
TypePassword ==
  IF ctx.killed \/ ~TypesAtScreen THEN {ctx}
  ELSE {[ctx EXCEPT !.pw[KindOf[ctx.paceType]] = p] :
          p \in Cards \cup {WrongPassword}}

StateEnterPacePassword ==
  /\ Run("EnterPacePassword")
  /\ \E c \in TypePassword :
       /\ Enter(IF HasError(c) THEN "MaintainCardConnection"
                               ELSE "EstablishPaceChannel")
       /\ ctx' = c
       /\ spent' = IF c.paceType = "PACE_PIN" THEN {} ELSE spent
  /\ UNCHANGED <<cancelDue, jobs, reader, card>>

(* StateEstablishPaceChannel::run.                                         *)
StateEstablishPaceChannel ==
  /\ Run("EstablishPaceChannel")
  /\ LET pw == ctx.pw[KindOf[ctx.paceType]]
         r == ctx.conn.reader
     IN \/ HasError(ctx) /\ Go("MaintainCardConnection", ctx)
        \/ /\ ~HasError(ctx) /\ ~HasConnection(ctx)
           /\ Go("MaintainCardConnection", [ctx EXCEPT !.last = "OK"])
        \/ /\ ~HasError(ctx) /\ HasConnection(ctx)
           /\ IF pw = NoPassword /\ IsBasic(r)
                THEN Go("MaintainCardConnection",
                        [resetPacePasswords(ctx) EXCEPT !.last = "OK"])
                ELSE Call(IF ctx.paceType = "PACE_PUK" THEN "UnblockPin"
                                                       ELSE "EstablishPaceChannel",
                          r, ctx.paceType, pw)

(* StateEstablishPaceChannel::onEstablishConnectionDone.                   *)
RefinedInvalidPin ==
  CASE ctx.conn.counter = 2 -> "INVALID_PIN_2"
    [] ctx.conn.counter = 1 -> "INVALID_PIN_3"
    [] OTHER -> "INVALID_PIN"

AfterPace_WrongPinVanishes ==
  LET c == [PaceFlags(ctx, Head(jobs)) EXCEPT !.last = Result]
  IN IF Result # "OK" THEN handleWrongNpaPosition(c)
                      ELSE setNpaPositionVerified(c)

AfterPace ==
  LET c == [PaceFlags(ctx, Head(jobs)) EXCEPT !.last = Result]
  IN IF Result \in CardVanished THEN handleWrongNpaPosition(c)
                                ELSE setNpaPositionVerified(c)

Established_ByAnyCan(type) == type \in {"PACE_PIN", "PACE_CAN"}

Established(type) == type = "PACE_PIN" \/ (type = "PACE_CAN" /\ canAllowedMode)

EstablishPaceChannelDone ==
  /\ Heard("EstablishPaceChannel")
  /\ LET type == ctx.paceType
         c == AfterPace
     IN \/ /\ Result = "OK" /\ Established(type)
           /\ Return(OnEstablished,
                     [c EXCEPT !.expectedCounter =
                        IF type = "PACE_PIN" THEN 3 ELSE @])
        \/ /\ Result = "OK" /\ type = "PACE_CAN" /\ ~Established(type)
           /\ Return("MaintainCardConnection", c)
        \/ /\ Result = "OK" /\ type = "PACE_PUK"
           /\ Return("ClearPacePasswordsBeforeDestroy",
                     [resetPacePasswords(c) EXCEPT !.expectedCounter = -1,
                                                   !.last = "OK_PUK"])
        \/ /\ Result \in {"PUK_INOPERATIVE", "CANCELLATION_BY_USER"}
           /\ Return("MaintainCardConnection",
                     updateStatus(c, toGlobalStatus[Result]))
        \/ /\ Result = "INVALID_PIN"
           /\ Return("ClearPacePasswordsBeforeDestroy",
                     [c EXCEPT !.last = RefinedInvalidPin])
        \/ /\ Result \notin {"OK", "PUK_INOPERATIVE", "CANCELLATION_BY_USER",
                             "INVALID_PIN"}
           /\ \E told \in isNpaRepositioningRequired(c) :
                Return(IF told THEN "UnfortunateCardPosition"
                               ELSE "MaintainCardConnection", c)

StateUnfortunateCardPosition ==
  /\ Run("UnfortunateCardPosition")
  /\ Go("MaintainCardConnection", setNpaPositionVerified(ctx))

(* StateDestroyPace, in the composite and in a controller.                 *)
StateDestroyPace(s) ==
  /\ Run(s) /\ HasConnection(ctx)
  /\ Call("DestroyPaceChannel", ctx.conn.reader, "UNKNOWN", NoPassword)

DestroyPaceDone(s, target) == Heard(s) /\ Return(target, ctx)

(* StateCleanUpReaderManager, which ends what a controller does with cards.*)
StateCleanUpReaderManager(target) ==
  /\ Run("CleanUpReaderManager")
  /\ Go(target, [ctx EXCEPT !.conn = NoConnection])

(***************************************************************************)
(* Cards come and go.  The Reader's thread reads the counter of a new card *)
(* (CardInfoFactory::create ignores a failure); StateSelectReader and      *)
(* StateConnectCard react to the signal.                                   *)
(***************************************************************************)
(* The thread's signals arrive in the order it sent them: a reader's        *)
(* change after the result of a command comes after that result.           *)
NothingSentBefore == jobs # <<>> => Result = "PENDING"

InfoChanged(r, c, n) ==
  IF ctx.conn.reader = r
    THEN [ctx EXCEPT !.conn.counter = n, !.doubted = @ \/ Doubtful(c, n)] ELSE ctx

InsertCard(r, c) ==
  /\ Quiet /\ NothingSentBefore /\ state # "Done"
  /\ CardIn(r) = NoCard /\ \A q \in Readers : CardIn(q) # c
  /\ \E n \in Readings(c) :
       /\ reader' = [reader EXCEPT ![r] =
                       [card |-> c, counter |-> n, session |-> "closed"]]
       /\ \/ /\ state = "SelectReader" /\ phase = "waiting"
             /\ Enter("ConnectCard")
             /\ ctx' = [InfoChanged(r, c, n) EXCEPT !.readerName = r]
             /\ UNCHANGED jobs
          \/ /\ state = "ConnectCard" /\ phase = "waiting" /\ r = ctx.readerName
             /\ Len(jobs) < MaxJobs
             /\ ctx' = InfoChanged(r, c, n)
             /\ jobs' = Append(jobs,
                          [op |-> "CreateCardConnection", reader |-> r,
                           type |-> "UNKNOWN", pw |-> NoPassword,
                           heard |-> TRUE, result |-> "PENDING"])
             /\ UNCHANGED <<state, phase>>
          \/ /\ ~(state = "SelectReader" /\ phase = "waiting")
             /\ ~(state = "ConnectCard" /\ phase = "waiting" /\ r = ctx.readerName)
             /\ ctx' = InfoChanged(r, c, n)
             /\ UNCHANGED <<state, phase, jobs>>
  /\ UNCHANGED <<cancelDue, card, spent>>

(* The card is taken away, alone or with its reader; StateConnectCard      *)
(* starts over when its reader is gone.                                    *)
RemoveCard(r, withReader) ==
  /\ Quiet /\ NothingSentBefore /\ state # "Done" /\ CardIn(r) # NoCard
  /\ state = "ConnectCard" => Len(jobs) < MaxJobs
  /\ reader' = [reader EXCEPT ![r] =
                  [card |-> NoCard, counter |-> -1, session |-> "closed"]]
  /\ ctx' = InfoChanged(r, NoCard, -1)
  /\ IF withReader /\ state = "ConnectCard" /\ phase = "waiting" /\ r = ctx.readerName
       THEN Enter("SelectReader") /\ jobs' = Unheard(jobs)
       ELSE UNCHANGED <<state, phase, jobs>>
  /\ UNCHANGED <<cancelDue, card, spent>>

PaceStep ==
  \/ StateMaintainCardConnection
  \/ StateClearPacePasswords("ClearPacePasswordsOnError", OnAbort)
  \/ StateSelectReader
  \/ StateConnectCard \/ ConnectCardDone
  \/ StateUpdateRetryCounter("UpdateRetryCounter", "MaintainCardConnection")
  \/ UpdateRetryCounterDone("UpdateRetryCounter", "VerifyRetryCounter",
                            "MaintainCardConnection")
  \/ StateVerifyRetryCounter \/ StatePreparePace \/ StateEnterPacePassword
  \/ StateEstablishPaceChannel \/ EstablishPaceChannelDone
  \/ StateUnfortunateCardPosition
  \/ StateClearPacePasswords("ClearPacePasswordsBeforeDestroy", "DestroyPace")
  \/ StateDestroyPace("DestroyPace")
  \/ DestroyPaceDone("DestroyPace", "MaintainCardConnection")

Environment ==
  \/ onReaderDeviceError
  \/ setReaderPlugInTypes
  \/ \E r \in Readers, c \in Cards : InsertCard(r, c)
  \/ \E r \in Readers, gone \in BOOLEAN : RemoveCard(r, gone)
=============================================================================
