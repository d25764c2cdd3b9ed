-------------------------------- MODULE Aidl ---------------------------------
(***************************************************************************)
(* The Android SDK: AidlBinder (Java) hands out one session at a time, its *)
(* binder threads serialise on the binder's monitor; UIPlugInAidl and the  *)
(* JSON interface live in Qt's main thread, which receives commands and    *)
(* resets as posted events and calls the binder's aidlReceive for every    *)
(* message.  A mutex, held while a workflow is active, tells the binder    *)
(* thread in connectSdk that the reset it has asked for is done.           *)
(***************************************************************************)
EXTENDS Naturals, Sequences

CONSTANTS
  Clients,      \* the applications that bind the service
  None,         \* no client: a null reference
  MaxSessions,  \* bound: how often clients call connectSdk
  MaxCommands   \* bound: how many commands they send

ASSUME AidlAssumption ==
  None \notin Clients /\ MaxSessions \in Nat /\ MaxCommands \in Nat

VARIABLES
  callback,   \* AidlBinder.mCallback: a client or None
  session,    \* mCallbackSessionId: a session, Empty ("") or Null
  monitor,    \* the client whose connectSdk holds the monitor, or None
  alive,      \* which clients live
  held,       \* the session each client has been told
  owner,      \* history: the client of each session handed out
  queue,      \* the main loop's posted events, oldest first
  receiving,  \* the session whose message the main thread is delivering
  workflow,   \* mContext: the session that ordered the workflow, or Null
  stage,      \* its life, as in module Workflow
  cancelled,  \* it has heard a cancel
  asked,      \* it waits for an answer of the client
  blocked,    \* mJson->blockSignals
  commands, connects  \* counted for the bounds

binder == <<callback, session, monitor, owner, connects>>
clients == <<alive, held, commands>>
workflowVars == <<workflow, stage, cancelled, asked, blocked>>
vars == <<binder, clients, queue, receiving, workflowVars>>

Null == 0
Empty == MaxSessions + 1
Sessions == 1..MaxSessions

(* The mutex mWorkflowIsActive is held from onWorkflowStarted to           *)
(* onWorkflowFinished.                                                     *)
WorkflowIsActive == workflow # Null

Event(kind, s) == [kind |-> kind, session |-> s]
Events == [kind : {"RUN", "CANCEL", "GET", "reset", "request", "start", "send"},
           session : Sessions \cup {Null}]

Init ==
  /\ callback = None /\ session = Null /\ monitor = None
  /\ alive = Clients /\ held = [c \in Clients |-> Null] /\ owner = <<>>
  /\ queue = <<>> /\ receiving = Null
  /\ workflow = Null /\ stage = "done" /\ cancelled = FALSE /\ asked = FALSE
  /\ blocked = FALSE /\ commands = 0 /\ connects = 0

(***************************************************************************)
(* Binder threads.  connectSdk drops the previous client, asks the main    *)
(* thread for a reset and waits, with the monitor, for the mutex.          *)
(***************************************************************************)
connectSdk_KeepsSession(c) ==
  /\ monitor = None /\ c \in alive /\ connects < MaxSessions
  /\ monitor' = c /\ connects' = connects + 1
  /\ callback' = IF callback \in alive THEN callback ELSE None
  /\ queue' = Append(queue, Event("reset", Null))
  /\ UNCHANGED <<session, clients, owner, receiving, workflowVars>>

connectSdk(c) ==
  /\ monitor = None /\ c \in alive /\ connects < MaxSessions
  /\ monitor' = c /\ connects' = connects + 1
  /\ IF callback \in alive
       THEN session' = Null /\ UNCHANGED callback       \* sdkDisconnected
       ELSE callback' = None /\ UNCHANGED session       \* cleanUpDeadCallback
  /\ queue' = Append(queue, Event("reset", Null))
  /\ UNCHANGED <<clients, owner, receiving, workflowVars>>

(* A session without a secure PSK is not told to its client.               *)
SessionGranted ==
  /\ monitor # None /\ ~WorkflowIsActive
  /\ owner' = Append(owner, monitor) /\ session' = Len(owner')
  /\ callback' = IF monitor \in alive THEN monitor ELSE None
  /\ \E secure \in BOOLEAN :
       held' = [held EXCEPT ![monitor] = IF secure THEN session' ELSE Null]
  /\ monitor' = None
  /\ UNCHANGED <<alive, commands, connects, queue, receiving, workflowVars>>

TimedOut_KeepsWaiting ==
  /\ monitor # None /\ WorkflowIsActive
  /\ UNCHANGED vars

(* Five seconds later connectSdk returns false; mCallback stays.           *)
TimedOut ==
  /\ monitor # None /\ WorkflowIsActive
  /\ session' = Empty /\ monitor' = None
  /\ UNCHANGED <<callback, owner, connects, clients, queue, receiving, workflowVars>>

(* send refuses a session that is not the valid one.                       *)
send(c, cmd) ==
  /\ monitor = None /\ c \in alive /\ commands < MaxCommands
  /\ callback # None /\ held[c] = session
  /\ commands' = commands + 1
  /\ queue' = Append(queue, Event(cmd, session))
  /\ UNCHANGED <<binder, alive, held, receiving, workflowVars>>

Die(c) ==
  /\ c \in alive /\ alive' = alive \ {c}
  /\ UNCHANGED <<binder, held, commands, queue, receiving, workflowVars>>

(***************************************************************************)
(* The main thread handles an event, unless it is inside aidlReceive.      *)
(***************************************************************************)
Delivered(kind) == receiving = Null /\ queue # <<>> /\ Head(queue).kind = kind

(* fireMessage is a queued connection and silent while signals are blocked.*)
Message(s) == IF blocked THEN <<>> ELSE <<Event("send", s)>>

(* fireCancelWorkflow: before its start the machine does not listen.       *)
Cancelled == cancelled' = (cancelled \/ stage = "running")

(* InternalActivationHandler emits a queued signal.                        *)
RunCommand ==
  /\ Delivered("RUN")
  /\ LET s == Head(queue).session
     IN queue' = Tail(queue) \o
          IF WorkflowIsActive THEN Message(s) ELSE <<Event("request", s)>>
  /\ UNCHANGED <<binder, clients, receiving, workflowVars>>

CancelCommand ==
  /\ Delivered("CANCEL")
  /\ IF WorkflowIsActive
       THEN Cancelled /\ queue' = Tail(queue)
       ELSE queue' = Tail(queue) \o Message(Head(queue).session)
            /\ UNCHANGED cancelled
  /\ UNCHANGED <<binder, clients, receiving, workflow, stage, asked, blocked>>

(* A command that only asks: its answer.                                   *)
GetCommand ==
  /\ Delivered("GET")
  /\ queue' = Tail(queue) \o Message(Head(queue).session)
  /\ UNCHANGED <<binder, clients, receiving, workflowVars>>

reset ==
  /\ Delivered("reset")
  /\ queue' = Tail(queue)
  /\ IF WorkflowIsActive THEN blocked' = TRUE /\ Cancelled
                         ELSE UNCHANGED <<blocked, cancelled>>
  /\ UNCHANGED <<binder, clients, receiving, workflow, stage, asked>>

(* AppController::onAuthenticationRequest; one that finds a workflow is    *)
(* dropped (InternalActivationContext::sendOperationAlreadyActive).        *)
onWorkflowStarted ==
  /\ Delivered("request")
  /\ LET s == Head(queue).session
     IN IF WorkflowIsActive
          THEN queue' = Tail(queue) /\ UNCHANGED workflowVars
          ELSE /\ workflow' = s /\ stage' = "initial" /\ cancelled' = FALSE
               /\ asked' = FALSE
               /\ queue' = Tail(queue) \o Message(s) \o <<Event("start", Null)>>
               /\ UNCHANGED blocked
  /\ UNCHANGED <<binder, clients, receiving>>

StartMachine ==
  /\ Delivered("start")
  /\ queue' = Tail(queue) /\ stage' = "running"
  /\ UNCHANGED <<binder, clients, receiving, workflow, cancelled, asked, blocked>>

(* onToSend calls aidlReceive, which needs the monitor.                    *)
onToSend ==
  /\ Delivered("send")
  /\ receiving' = Head(queue).session /\ queue' = Tail(queue)
  /\ UNCHANGED <<binder, clients, workflowVars>>

aidlReceive ==
  /\ receiving # Null /\ monitor = None
  /\ receiving' = Null
  /\ callback' = IF callback \in alive THEN callback ELSE None
  /\ UNCHANGED <<session, monitor, owner, connects, clients, queue, workflowVars>>

(***************************************************************************)
(* The workflow in the main thread: it asks the client, or it ends.        *)
(***************************************************************************)
Ask ==
  /\ receiving = Null /\ stage = "running" /\ ~cancelled /\ ~asked
  /\ asked' = TRUE
  /\ queue' = queue \o Message(workflow)
  /\ UNCHANGED <<binder, clients, receiving, workflow, stage, cancelled, blocked>>

onWorkflowFinished_StaysBlocked ==
  /\ receiving = Null /\ stage = "running"
  /\ queue' = queue \o Message(workflow)
  /\ workflow' = Null /\ stage' = "done" /\ cancelled' = FALSE /\ asked' = FALSE
  /\ UNCHANGED <<binder, clients, receiving, blocked>>

(* The JSON interface hears of the end first, while it is blocked still.   *)
onWorkflowFinished ==
  /\ receiving = Null /\ stage = "running"
  /\ queue' = queue \o Message(workflow)
  /\ workflow' = Null /\ stage' = "done" /\ cancelled' = FALSE /\ asked' = FALSE
  /\ blocked' = FALSE
  /\ UNCHANGED <<binder, clients, receiving>>

MainLoop == \/ RunCommand \/ CancelCommand \/ GetCommand \/ reset
            \/ onWorkflowStarted \/ StartMachine \/ onToSend \/ aidlReceive

Next ==
  \/ MainLoop \/ Ask \/ onWorkflowFinished
  \/ \E c \in Clients : connectSdk(c) \/ Die(c)
  \/ \E c \in Clients, cmd \in {"RUN", "CANCEL", "GET"} : send(c, cmd)
  \/ SessionGranted \/ TimedOut

Spec == Init /\ [][Next]_vars

(***************************************************************************)
(* Fairness: the main loop runs, the five seconds pass, and a cancelled    *)
(* workflow, whose states the JSON interface approves, ends.               *)
(***************************************************************************)
FairSpec ==
  /\ Spec
  /\ WF_vars(MainLoop)
  /\ WF_vars(SessionGranted \/ TimedOut)
  /\ WF_vars(cancelled /\ onWorkflowFinished)

(***************************************************************************)
(* Types; signals are blocked for the rest of a workflow and no longer, so *)
(* that the next session is not mute.                                      *)
(***************************************************************************)
TypeOK ==
  /\ callback \in Clients \cup {None} /\ monitor \in Clients \cup {None}
  /\ session \in Sessions \cup {Null, Empty}
  /\ alive \subseteq Clients /\ held \in [Clients -> Sessions \cup {Null}]
  /\ owner \in Seq(Clients) /\ queue \in Seq(Events)
  /\ receiving \in Sessions \cup {Null} /\ workflow \in Sessions \cup {Null}
  /\ stage \in {"initial", "running", "done"}
  /\ WorkflowIsActive <=> stage # "done"
  /\ cancelled => stage = "running"
  /\ blocked => WorkflowIsActive

(***************************************************************************)
(* Whenever a binder thread can enter, a set callback has a session id to  *)
(* compare with (isValidSessionId calls compareTo with it).                *)
(***************************************************************************)
SessionIsNeverNull == (monitor = None /\ callback # None) => session # Null

(***************************************************************************)
(* A reset, which is posted, never hits the workflow of the session that   *)
(* is valid when it is handled.                                            *)
(***************************************************************************)
ResetSparesTheValidSession ==
  [][(Delivered("reset") /\ queue' = Tail(queue) /\ callback # None
       /\ workflow = session) => UNCHANGED <<cancelled, blocked>>]_vars

(***************************************************************************)
(* Binder thread and main thread never wait for each other for good: the   *)
(* main thread in aidlReceive for the monitor, the binder thread in        *)
(* connectSdk for a workflow that only the main thread can end.            *)
(***************************************************************************)
EveryCallReturns ==
  /\ \A c \in Clients : monitor = c ~> monitor = None
  /\ receiving # Null ~> receiving = Null
=============================================================================
