---------------------------- MODULE RemoteService ----------------------------
(***************************************************************************)
(* The smartphone as card reader, in PIN pad mode: RemoteServer keeps one  *)
(* client at a time, ServerMessageHandler serves its requests from the one *)
(* NFC reader, and RemoteServiceController asks the user for the PIN or a  *)
(* new PIN when the client wants PACE or a PIN change.  The states between *)
(* two events only (the interface approves the others at once).            *)
(*                                                                         *)
(* The ReaderManager thread acts when it is called; what it reports is     *)
(* posted and reaches the main thread later.                               *)
(***************************************************************************)
EXTENDS Naturals, Sequences, SequencesExt

CONSTANTS
  MaxConnections,  \* bound: how many clients connect, one after the other
  MaxRequests,     \* bound: how many requests they send
  MaxMoves         \* bound: how often a card is put to or taken off the reader

ASSUME RemoteAssumption ==
  MaxConnections \in Nat /\ MaxRequests \in Nat /\ MaxMoves \in Nat

VARIABLES
  handler,    \* mServerMessageHandler: the number of its connection, or None
  connections,\* how many there have been
  toServer, toClient,  \* the web socket: requests and answers under way
  from,       \* history: the connection that sent each request
  handles,    \* |mCardConnections|
  card,       \* a card lies on the reader
  open,       \* Card::isConnected
  channel,    \* mSecureMessaging of its worker
  moves,
  posted,     \* what the ReaderManager thread has reported, oldest first
  state,      \* the controller's state
  ctx,        \* RemoteServiceContext
  views       \* the password views on the interface's stack

network == <<handler, connections, toServer, toClient, from>>
reader == <<handles, card, open, channel, moves>>
workflow == <<state, ctx, views>>
vars == <<network, reader, posted, workflow>>

None == 0
NoPin == [asked |-> None, typed |-> None]
Pins == [asked : 0..MaxConnections, typed : 0..MaxConnections]
Requests == 1..MaxRequests
Kinds == {"Connect", "Disconnect", "Transmit", "EstablishPACEChannel", "ModifyPIN"}

Dialogs == {"EnterPacePassword", "EnterNewPacePin"}
PaceStates == {"UpdateRetryCounter", "EnterPacePassword", "EstablishPaceChannel"}
ModifyStates == {"EnterNewPacePin", "ChangePin"}
Live == {"Process"} \cup PaceStates \cup ModifyStates

NoContext ==
  [pace |-> None, modify |-> None, connection |-> FALSE,
   pin |-> NoPin, newPin |-> NoPin]

Init ==
  /\ handler = None /\ connections = 0
  /\ toServer = <<>> /\ toClient = <<>> /\ from = <<>>
  /\ handles = 0 /\ card \in BOOLEAN /\ open = FALSE /\ channel = FALSE
  /\ moves = 0 /\ posted = <<>>
  /\ state = "Process" /\ ctx = NoContext /\ views = <<>>

Answer(kind, id) == toClient' = Append(toClient, [kind |-> kind, id |-> id])

(* RemoteServiceContext.                                                   *)
resetPacePasswords(c) == [c EXCEPT !.pin = NoPin, !.newPin = NoPin]

onResetMessageHandler_KeepsPin(c) == [NoContext EXCEPT !.pin = c.pin]
onResetMessageHandler_KeepsMessage(c) == [NoContext EXCEPT !.pace = c.pace]
onResetMessageHandler(c) == NoContext

(* The worker's destructor disconnects the card: it lives as long as a     *)
(* card connection or a command does.                                      *)
Held ==
  \/ handles > 0 \/ ctx.connection
  \/ \E i \in DOMAIN posted :
       posted[i].op # "Changed" /\ (posted[i].op = "Connected" => posted[i].ok)

Release == open' = (open /\ Held')

(***************************************************************************)
(* RemoteWebSocketServer: a second client is turned away; each change      *)
(* resets the context.  A closed connection takes its card connections     *)
(* along.  The dialogues listen to the handler's destruction: they abort,  *)
(* have nobody to answer, and StateProcessRemoteMessages finds no handler. *)
(* Their view stays: the QML handler that should remove it reads a         *)
(* parameter that its signal does not have (RemoteServiceController.qml).  *)
(***************************************************************************)
onWebsocketConnection ==
  /\ state \in Live /\ handler = None /\ connections < MaxConnections
  /\ connections' = connections + 1 /\ handler' = connections'
  /\ ctx' = IF connections = 0 THEN ctx ELSE onResetMessageHandler(ctx)
  /\ UNCHANGED <<toServer, toClient, from, reader, posted, state, views>>

LinkDown ==
  /\ handler' = None /\ toServer' = <<>> /\ toClient' = <<>>
  /\ handles' = 0 /\ channel' = FALSE
  /\ UNCHANGED <<connections, from, card, moves, posted, views>>

onConnectionClosed_DialogStays ==
  /\ state \in Live /\ handler # None
  /\ LinkDown
  /\ ctx' = onResetMessageHandler(ctx) /\ Release
  /\ UNCHANGED state

onConnectionClosed ==
  /\ state \in Live /\ handler # None
  /\ LinkDown
  /\ ctx' = onResetMessageHandler(ctx) /\ Release
  /\ state' = IF state \in Dialogs THEN "Process" ELSE state

(***************************************************************************)
(* The card and its reader's thread.                                       *)
(***************************************************************************)
Report(op, id, ok) == [op |-> op, id |-> id, ok |-> ok]

CardMoves ==
  /\ moves < MaxMoves /\ moves' = moves + 1
  /\ card' = ~card /\ open' = FALSE
  /\ posted' = Append(posted, Report("Changed", None, TRUE))
  /\ UNCHANGED <<network, handles, channel, workflow>>

(* What a command on an open connection can come to.                       *)
Outcomes == IF card /\ open THEN BOOLEAN ELSE {FALSE}

(* Reader::createCardConnectionWorker refuses a connected card.            *)
createCardConnectionWorker(id) ==
  \E ok \in IF card /\ ~open THEN BOOLEAN ELSE {FALSE} :
    /\ posted' = Append(posted, Report("Connected", id, ok))
    /\ open' = (open \/ ok) /\ channel' = (channel /\ ~ok)

(***************************************************************************)
(* ServerMessageHandler: the oldest request.                               *)
(***************************************************************************)
Receives(kind) ==
  /\ state \in Live /\ handler # None
  /\ toServer # <<>> /\ Head(toServer).kind = kind
  /\ toServer' = Tail(toServer)
  /\ UNCHANGED <<handler, connections, from, card, moves>>

Id == Head(toServer).id

handleIfdConnect ==
  /\ Receives("Connect")
  /\ IF ~card \/ handles > 0
       THEN Answer("Connect", Id) /\ UNCHANGED <<open, channel, posted>>
       ELSE createCardConnectionWorker(Id) /\ UNCHANGED toClient
  /\ UNCHANGED <<handles, workflow>>

(* The card stays connected while the context holds its connection.        *)
handleIfdDisconnect ==
  /\ Receives("Disconnect") /\ Answer("Disconnect", Id)
  /\ IF handles > 0
       THEN handles' = handles - 1 /\ channel' = FALSE
       ELSE UNCHANGED <<handles, channel>>
  /\ UNCHANGED <<posted, workflow>> /\ Release

(* The eService's secure messaging ends the local one; only               *)
(* StateProcessRemoteMessages hears of it and clears the passwords.        *)
handleIfdTransmit ==
  /\ Receives("Transmit")
  /\ IF handles = 0
       THEN Answer("Transmit", Id) /\ UNCHANGED <<posted, channel, ctx>>
       ELSE /\ UNCHANGED toClient
            /\ \E secured \in BOOLEAN :
                 /\ channel' = (channel /\ ~secured)
                 /\ ctx' = IF secured /\ channel /\ state = "Process"
                             THEN resetPacePasswords(ctx) ELSE ctx
            /\ \E ok \in Outcomes :
                 posted' = Append(posted, Report("Transmitted", Id, ok))
  /\ UNCHANGED <<handles, open, state, views>>

(***************************************************************************)
(* The PACE and the PIN change of RemoteServiceController.                 *)
(***************************************************************************)
(* StateEstablishPaceChannelResponse and StateChangePinResponse: without a *)
(* message the assertion, and with a handler the process, fails.  On to    *)
(* StateClearPacePasswords, perhaps, and StateProcessRemoteMessages.       *)
Respond(kind, c, clear) ==
  LET id == IF kind = "ModifyPIN" THEN c.modify ELSE c.pace
  IN /\ UNCHANGED views
     /\ IF handler = None
          THEN /\ state' = "Process" /\ ctx' = onResetMessageHandler(c)
               /\ UNCHANGED toClient
        ELSE IF id = None
          THEN state' = "Crashed" /\ ctx' = c /\ UNCHANGED toClient
        ELSE /\ state' = "Process" /\ Answer(kind, id)
             /\ ctx' = IF clear THEN resetPacePasswords(c) ELSE c

(* RemoteServiceController.qml: setWorkflowStateAndRequestInput.            *)
AskUser(dialog, c) ==
  /\ state' = dialog /\ ctx' = c
  /\ views' = Append(views, [dialog |-> dialog, asked |-> handler])

(* Their commands are posted behind what the queue holds.                  *)
StateEstablishPaceChannelRemote(c, queue) ==
  /\ state' = "EstablishPaceChannel" /\ ctx' = c
  /\ \E ok \in Outcomes, wrong \in BOOLEAN :
       /\ posted' = Append(queue, Report(IF wrong /\ ~ok THEN "PaceWrong"
                                                         ELSE "PaceDone", None, ok))
       /\ channel' = (channel \/ ok)

StateChangePinRemote(c) ==
  /\ state' = "ChangePin" /\ ctx' = c
  /\ \E ok \in Outcomes : posted' = Append(posted, Report("PinChanged", None, ok))
  /\ UNCHANGED channel

(* Without a handle the request is refused; heard in                       *)
(* StateProcessRemoteMessages only, elsewhere it is dropped.               *)
handleIfdEstablishPaceChannel ==
  /\ Receives("EstablishPACEChannel")
  /\ IF handles = 0
       THEN Answer("EstablishPACEChannel", Id) /\ UNCHANGED <<posted, workflow>>
     ELSE /\ UNCHANGED <<toClient, views>>
          /\ IF state # "Process" THEN UNCHANGED <<state, ctx, posted>>
             ELSE /\ state' = "UpdateRetryCounter"
                  /\ ctx' = [ctx EXCEPT !.pace = Id, !.connection = TRUE]
                  /\ \E ok \in Outcomes :
                       posted' = Append(posted, Report("Counter", None, ok))
  /\ UNCHANGED <<handles, open, channel>>

handleIfdModifyPIN ==
  /\ Receives("ModifyPIN")
  /\ LET c == [ctx EXCEPT !.modify = Id, !.connection = TRUE]
     IN IF handles = 0
          THEN Answer("ModifyPIN", Id) /\ UNCHANGED <<posted, channel, workflow>>
        ELSE /\ UNCHANGED toClient
             /\ IF state # "Process" THEN UNCHANGED <<posted, channel, workflow>>
                ELSE IF c.newPin # NoPin
                  THEN StateChangePinRemote(c) /\ UNCHANGED views
                ELSE AskUser("EnterNewPacePin", c) /\ UNCHANGED <<posted, channel>>
  /\ UNCHANGED <<handles, open>>

(***************************************************************************)
(* The interface.  A view stores what was typed into it and approves the   *)
(* current state, which a state other than the dialogue's is already.      *)
(***************************************************************************)
passwordEntered ==
  /\ state \in Live /\ views # <<>>
  /\ views' = Front(views)
  /\ LET v == Last(views)
         p == [asked |-> v.asked, typed |-> handler]
         c == IF v.dialog = "EnterNewPacePin" THEN [ctx EXCEPT !.newPin = p]
                                              ELSE [ctx EXCEPT !.pin = p]
     IN CASE state = "EnterPacePassword" ->
               StateEstablishPaceChannelRemote(c, posted)
          [] state = "EnterNewPacePin" -> StateChangePinRemote(c)
          [] OTHER -> ctx' = c /\ UNCHANGED <<state, posted, channel>>
  /\ UNCHANGED <<network, handles, card, open, moves>>

Unanswered ==
  <<handler, connections, toServer, from, handles, card, channel, moves>>

cancelPasswordRequest ==
  /\ state \in Live /\ views # <<>>
  /\ views' = Front(views)
  /\ CASE state = "EnterPacePassword" ->
            /\ state' = "Process" /\ Answer("EstablishPACEChannel", ctx.pace)
       [] state = "EnterNewPacePin" ->
            /\ state' = "Process" /\ Answer("ModifyPIN", ctx.modify)
       [] OTHER -> UNCHANGED <<state, toClient>>
  /\ UNCHANGED <<Unanswered, open, posted, ctx>>

(* What was reported to a state that has been left, once at most, goes     *)
(* unheard.                                                                *)
ForState(p) == p.op \in {"Counter", "PaceDone", "PaceWrong", "PinChanged"}

Unheard ==
  LET own == {i \in DOMAIN posted : ForState(posted[i])}
  IN IF own = {} THEN posted ELSE RemoveAt(posted, CHOOSE i \in own : TRUE)

(* fireCancelWorkflow, by the user or when Wi-Fi or NFC are gone: it stops *)
(* the service in StateProcessRemoteMessages only.  The stop destroys the  *)
(* handler, but nobody resets the context.                                 *)
onUserCancelled ==
  \/ /\ state = "Process" /\ LinkDown
     /\ state' = "Final" /\ UNCHANGED ctx /\ Release
  \/ /\ state \in PaceStates /\ Respond("EstablishPACEChannel", ctx, FALSE)
     /\ posted' = Unheard /\ UNCHANGED Unanswered /\ Release
  \/ /\ state \in ModifyStates /\ Respond("ModifyPIN", ctx, FALSE)
     /\ posted' = Unheard /\ UNCHANGED Unanswered /\ Release

(***************************************************************************)
(* What the ReaderManager thread has reported.                             *)
(***************************************************************************)
Delivered(op) ==
  /\ state \in Live /\ posted # <<>> /\ Head(posted).op = op
  /\ UNCHANGED <<handler, connections, toServer, from, card, moves>>

Dequeue == posted' = Tail(posted)
Ok == Head(posted).ok

(* Nothing is left of a reader without a card.                             *)
onReaderChanged ==
  /\ Delivered("Changed") /\ Dequeue
  /\ IF ~card /\ handles > 0
       THEN handles' = handles - 1 /\ channel' = FALSE
       ELSE UNCHANGED <<handles, channel>>
  /\ UNCHANGED <<toClient, open, workflow>>

(* The handler that ordered it may be gone.                                *)
onCreateCardConnectionCommandDone ==
  /\ Delivered("Connected") /\ Dequeue
  /\ IF from[Head(posted).id] = handler
       THEN /\ handles' = handles + (IF Ok THEN 1 ELSE 0)
            /\ Answer("Connect", Head(posted).id)
       ELSE UNCHANGED <<handles, toClient>>
  /\ UNCHANGED <<channel, workflow>> /\ Release

onTransmitCardCommandDone ==
  /\ Delivered("Transmitted") /\ Dequeue
  /\ IF from[Head(posted).id] = handler
       THEN Answer("Transmit", Head(posted).id) ELSE UNCHANGED toClient
  /\ UNCHANGED <<handles, channel, workflow>> /\ Release

(* StateVerifyRetryCounter aborts without a connection, clears the         *)
(* passwords when the counter or the reader is not the expected one; then  *)
(* StatePreparePaceRemote.                                                 *)
onUpdateRetryCounterDone ==
  /\ state = "UpdateRetryCounter" /\ Delivered("Counter")
  /\ IF ~Ok \/ ~ctx.connection
       THEN /\ Respond("EstablishPACEChannel", [ctx EXCEPT !.connection = FALSE], FALSE)
            /\ Dequeue /\ UNCHANGED channel
     ELSE /\ UNCHANGED toClient
          /\ \E expected \in BOOLEAN :
               LET c == IF expected THEN ctx ELSE resetPacePasswords(ctx)
               IN IF c.pin = NoPin
                    THEN AskUser("EnterPacePassword", c) /\ Dequeue /\ UNCHANGED channel
                    ELSE StateEstablishPaceChannelRemote(c, Tail(posted)) /\ UNCHANGED views
  /\ UNCHANGED handles /\ Release

onEstablishConnectionDone ==
  \/ /\ state = "EstablishPaceChannel" /\ Delivered("PaceWrong") /\ Dequeue
     /\ Respond("EstablishPACEChannel", ctx, TRUE)
     /\ UNCHANGED <<handles, channel>> /\ Release
  \/ /\ state = "EstablishPaceChannel" /\ Delivered("PaceDone") /\ Dequeue
     /\ Respond("EstablishPACEChannel", ctx, FALSE)
     /\ UNCHANGED <<handles, channel>> /\ Release

onChangePinDone ==
  /\ state = "ChangePin" /\ Delivered("PinChanged") /\ Dequeue
  /\ Respond("ModifyPIN", ctx, Ok)
  /\ UNCHANGED <<handles, channel>> /\ Release

MainLoop ==
  \/ handleIfdConnect \/ handleIfdDisconnect \/ handleIfdTransmit
  \/ handleIfdEstablishPaceChannel \/ handleIfdModifyPIN
  \/ onReaderChanged \/ onCreateCardConnectionCommandDone
  \/ onTransmitCardCommandDone \/ onUpdateRetryCounterDone
  \/ onEstablishConnectionDone \/ onChangePinDone
=============================================================================
