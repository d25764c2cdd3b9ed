------------------------------ MODULE WebSocket ------------------------------
(***************************************************************************)
(* The SDK on the desktop: clients of UIPlugInWebSocket take the domination*)
(* from the AppController, run authentications and vanish, while browsers  *)
(* ask for authentications of their own.  Everything happens in the main   *)
(* thread; module AppController has the queue of its posted events, to     *)
(* which the web socket handshake is added.  Shutdown is left to the runs  *)
(* of that module.                                                         *)
(***************************************************************************)
EXTENDS MessageDispatcher, Naturals, Sequences

CONSTANTS
  Clients,             \* applications that connect once
  Requests, ActionOf,  \* as in AppController
  ClientOf             \* the client that sends the request; None: a browser

ASSUME ClientAssumption ==
  /\ None \notin Clients \cup Requests
  /\ ClientOf \in [Requests -> Clients \cup {None}]

VARIABLES
  current, stage, killed, waiting, shutdownRunning, dominated, queue, timers,
  closing, quits, fate,
  client,       \* what has become of each client
  request,      \* UIPlugInWebSocket::mRequest
  connection,   \* mConnection
  wsContext,    \* UIPlugInWebSocket::mContext
  cancelled,    \* the workflow has heard a cancel
  master        \* history: the client that dominated when the workflow started

App == INSTANCE AppController WITH MaxQuits <- 0

app == <<current, stage, killed, waiting, shutdownRunning, dominated, queue,
         timers, closing, quits, fate>>
socket == <<client, request, connection>>
following == <<wsContext, cancelled, master>>
vars == <<app, json, dialogue, socket, following>>

(* A request handler's own events are delivered before sockets are read    *)
(* again, so no client is heard between run() and the machine's start.     *)
SocketsRead == closing = "open" /\ stage # "initial"

Fresh ==
  /\ App!Init /\ Init /\ ~enabled
  /\ client = [c \in Clients |-> "new"]
  /\ request = None /\ connection = None
  /\ wsContext = None /\ cancelled = FALSE /\ master = None

(***************************************************************************)
(* Connecting.  Too many: 429; a workflow runs: 409.                       *)
(***************************************************************************)
onNewWebSocketRequest_AnyTime(c) ==
  /\ SocketsRead /\ client[c] = "new"
  /\ IF request # None
       THEN client' = [client EXCEPT ![c] = "refused"]
            /\ UNCHANGED <<request, dominated, queue>>
       ELSE /\ client' = [client EXCEPT ![c] = "upgrading"]
            /\ request' = c /\ dominated' = TRUE
            /\ queue' = Append(queue, App!Event("handshake", None))
  /\ UNCHANGED <<current, stage, killed, waiting, shutdownRunning, timers,
                 closing, quits, fate, json, dialogue, connection, following>>

onNewWebSocketRequest(c) ==
  /\ SocketsRead /\ client[c] = "new"
  /\ IF request # None \/ dominated \/ current # None
       THEN client' = [client EXCEPT ![c] = "refused"]
            /\ UNCHANGED <<request, dominated, queue>>
       ELSE /\ client' = [client EXCEPT ![c] = "upgrading"]
            /\ request' = c /\ dominated' = TRUE
            /\ queue' = Append(queue, App!Event("handshake", None))
  /\ UNCHANGED <<current, stage, killed, waiting, shutdownRunning, timers,
                 closing, quits, fate, json, dialogue, connection, following>>

(* QWebSocketServer reads the handshake in an event of its own; of a failed*)
(* one UIPlugInWebSocket hears nothing.                                    *)
Handshake ==
  /\ App!Delivered("handshake")
  /\ queue' = Tail(queue)
  /\ \/ /\ connection' = request /\ enabled' = TRUE       \* onNewConnection
        /\ client' = [client EXCEPT ![request] = "connected"]
     \/ /\ client' = [client EXCEPT ![request] = "failed"]
        /\ UNCHANGED <<connection, enabled>>
  /\ UNCHANGED <<current, stage, killed, waiting, shutdownRunning, dominated,
                 timers, closing, quits, fate, context, last, dialogue, request,
                 following>>

(***************************************************************************)
(* The plug-ins hear of the start and of the end of every workflow.        *)
(***************************************************************************)
Started(w) ==
  /\ onWorkflowStarted(w) /\ dialogue' = "INTERNAL_ERROR"
  /\ wsContext' = IF dominated THEN w ELSE wsContext
  /\ master' = request /\ cancelled' = FALSE

HandleRequest ==
  /\ App!HandleRequest
  /\ IF current' # current THEN Started(current')
       ELSE UNCHANGED <<context, last, dialogue, following>>
  /\ UNCHANGED <<enabled, socket>>

onWorkflowFinished ==
  /\ App!onWorkflowFinished
  /\ IF waiting # None /\ enabled
       THEN context' = waiting /\ last' = "INTERNAL_ERROR" ELSE reset
  /\ wsContext' = IF dominated THEN waiting ELSE None
  /\ master' = IF waiting = None THEN None ELSE request
  /\ cancelled' = FALSE /\ dialogue' = "INTERNAL_ERROR"
  /\ UNCHANGED <<enabled, socket>>

(***************************************************************************)
(* The workflow.  Its states are approved by the JSON plug-in or, if it was*)
(* started without a domination, by the graphical interface.               *)
(***************************************************************************)
GuiApproves == context = None /\ master = None

StartMachine ==
  /\ App!StartMachine /\ onStateChanged("INTERNAL_ERROR")
  /\ UNCHANGED <<socket, following>>

GoOn ==
  /\ \E type \in IF cancelled THEN {"INTERNAL_ERROR"} ELSE StateMsgs :
       onStateChanged(type)
  /\ UNCHANGED <<app, socket, following>>

NextState ==
  /\ current # None /\ stage = "running" /\ (Approves \/ GuiApproves)
  /\ GoOn

ReachFinalState ==
  /\ App!ReachFinalState /\ (Approves \/ GuiApproves)
  /\ onStateChanged("INTERNAL_ERROR")
  /\ UNCHANGED <<socket, following>>

LeaveFinalState ==
  /\ App!LeaveFinalState /\ (Approves \/ GuiApproves)
  /\ UNCHANGED <<json, dialogue, socket, following>>

MachineFinished ==
  App!MachineFinished /\ UNCHANGED <<json, dialogue, socket, following>>

(* fireCancelWorkflow as the current state hears it.                       *)
Cancelled ==
  IF stage = "running"
    THEN onStateChanged("INTERNAL_ERROR") /\ cancelled' = TRUE
    ELSE UNCHANGED <<json, dialogue, cancelled>>

(***************************************************************************)
(* What clients and browsers do.                                           *)
(***************************************************************************)
Run(r) ==
  /\ IF ClientOf[r] = None THEN ActionOf[r] = "AUTH" \/ ~dominated
       ELSE SocketsRead /\ connection = ClientOf[r] /\ MayRun
  /\ App!PostRequest(r)
  /\ UNCHANGED <<json, dialogue, socket, following>>

Answer(cmd) ==
  /\ SocketsRead /\ connection # None /\ Accepted(cmd)
  /\ IF cmd \in Approving THEN stage = "running" /\ GoOn ELSE UNCHANGED vars

CancelCommand ==
  /\ SocketsRead /\ connection # None /\ MayCancel
  /\ Cancelled
  /\ UNCHANGED <<app, socket, wsContext, master>>

onClientDisconnected_KeepsRequest ==
  /\ SocketsRead /\ connection # None
  /\ client' = [client EXCEPT ![connection] = "gone"]
  /\ IF wsContext # None /\ dominated /\ stage = "running"
       THEN dialogue' = "INTERNAL_ERROR" /\ cancelled' = TRUE
       ELSE UNCHANGED <<dialogue, cancelled>>
  /\ last' = IF context # None THEN dialogue' ELSE last
  /\ enabled' = FALSE /\ connection' = None /\ dominated' = FALSE
  /\ UNCHANGED <<current, stage, killed, waiting, shutdownRunning, queue, timers,
                 closing, quits, fate, context, wsContext, master, request>>

onClientDisconnected_WithoutCancel ==
  /\ SocketsRead /\ connection # None
  /\ client' = [client EXCEPT ![connection] = "gone"]
  /\ enabled' = FALSE /\ connection' = None /\ request' = None
  /\ dominated' = FALSE
  /\ UNCHANGED <<current, stage, killed, waiting, shutdownRunning, queue, timers,
                 closing, quits, fate, context, last, dialogue, following>>

(* onClientDisconnected and, on its release, onUiDominationReleased.       *)
onClientDisconnected ==
  /\ SocketsRead /\ connection # None
  /\ client' = [client EXCEPT ![connection] = "gone"]
  /\ IF wsContext # None /\ dominated /\ stage = "running"
       THEN dialogue' = "INTERNAL_ERROR" /\ cancelled' = TRUE
       ELSE UNCHANGED <<dialogue, cancelled>>
  /\ last' = IF context # None THEN dialogue' ELSE last
  /\ enabled' = FALSE /\ connection' = None /\ request' = None
  /\ dominated' = FALSE
  /\ UNCHANGED <<current, stage, killed, waiting, shutdownRunning, queue, timers,
                 closing, quits, fate, context, wsContext, master>>

Loop == \/ HandleRequest \/ StartMachine \/ MachineFinished
        \/ onWorkflowFinished \/ Handshake

Next ==
  \/ Loop \/ NextState \/ ReachFinalState \/ LeaveFinalState
  \/ \E c \in Clients : onNewWebSocketRequest(c)
  \/ \E r \in Requests : Run(r)
  \/ \E cmd \in DOMAIN Needs : Answer(cmd)
  \/ CancelCommand \/ onClientDisconnected

Spec == Fresh /\ [][Next]_vars

(***************************************************************************)
(* Fairness: the main loop runs; the states of a cancelled authentication  *)
(* lead to its FinalState, and a state that is approved runs.              *)
(***************************************************************************)
FairSpec ==
  /\ Spec
  /\ WF_vars(Loop)
  /\ WF_vars(cancelled /\ ReachFinalState)
  /\ WF_vars(Approves /\ LeaveFinalState)

(***************************************************************************)
(* Types; a dispatcher follows the active workflow or none                 *)
(* (Q_ASSERT(!mContext.isActiveWorkflow()) of MessageDispatcher::init).    *)
(***************************************************************************)
TypeOK ==
  /\ enabled \in BOOLEAN /\ context \in Requests \cup {None}
  /\ last \in StateMsgs /\ dialogue \in StateMsgs
  /\ client \in [Clients -> {"new", "refused", "upgrading", "connected",
                             "failed", "gone"}]
  /\ request \in Clients \cup {None} /\ connection \in Clients \cup {None}
  /\ wsContext \in Requests \cup {None} /\ master \in Clients \cup {None}
  /\ cancelled \in BOOLEAN
  /\ context # None => context = current

(***************************************************************************)
(* A command that answers a question finds the workflow in the state that  *)
(* asks it: never before, never after it has been answered, cancelled or   *)
(* finished, although commands and states cross each other ("only if       *)
(* certain state is reached in the workflow").                             *)
(***************************************************************************)
CommandsMeetTheirState ==
  \A cmd \in DOMAIN Needs :
    Accepted(cmd) => /\ context # None /\ context = current
                     /\ stage = "running" /\ dialogue = Needs[cmd]

(***************************************************************************)
(* A client follows and commands only workflows that were started in its   *)
(* own domination, never the one its predecessor has left behind.          *)
(***************************************************************************)
ClientHearsItsOwn ==
  (connection # None /\ context # None)
    => context = current /\ master = connection

(***************************************************************************)
(* Four flags in three objects agree: the AppController's domination, the  *)
(* plug-in's request and connection, and the enabled JSON interface.       *)
(***************************************************************************)
DominationMatchesConnection ==
  /\ dominated <=> request # None
  /\ enabled <=> connection # None
  /\ connection # None => connection = request

(***************************************************************************)
(* An authentication whose client has vanished ends, and the AppController *)
(* turns to the next one.                                                  *)
(***************************************************************************)
AbandonedEnds ==
  \A r \in Requests :
    (context = r /\ master # None /\ connection = None) ~> current # r
=============================================================================
