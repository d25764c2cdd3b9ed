---------------------------- MODULE AppController ----------------------------
(***************************************************************************)
(* AppController: it starts one workflow at a time, keeps at most one      *)
(* waiting request, and shuts the application down.  Everything runs in    *)
(* the main thread; requests of the UI plug-ins and activation handlers    *)
(* and the ends of workflows are queued connections, so they are events of *)
(* the main loop, delivered in order.  The running workflow is the         *)
(* abstract one of module Workflow.                                        *)
(***************************************************************************)
EXTENDS Naturals, Sequences

CONSTANTS
  Requests,    \* the requests ever made
  ActionOf,    \* the Action each of them asks for
  None,        \* no request: Action::NONE and a null mActiveController
  MaxQuits     \* bound: how often the user asks to quit or restart

Actions == {"PIN", "AUTH", "SELF", "REMOTE_SERVICE"}

ASSUME ConstantsAssumption ==
  /\ ActionOf \in [Requests -> Actions] /\ None \notin Requests
  /\ MaxQuits \in Nat

VARIABLES
  current,         \* mCurrentAction and mActiveController: the request they serve
  stage, killed,   \* the life of the active workflow (module Workflow)
  waiting,         \* mWaitingRequest
  shutdownRunning, \* mShutdownRunning
  dominated,       \* mUiDomination is set
  queue,           \* the main loop's posted events, oldest first
  timers,          \* running timers of completeShutdown
  closing,         \* "open", "stopping", "uiGone" or "quit"
  quits,           \* how often the user has asked to quit or restart
  fate             \* history: what has become of each request

vars == <<current, stage, killed, waiting, shutdownRunning, dominated, queue,
          timers, closing, quits, fate>>

workflow == <<stage, killed>>

W == INSTANCE Workflow WITH EarlyKill <- TRUE

Fates == {"unsent", "posted", "started", "waiting", "refused", "ignored",
          "dropped", "finished"}

(***************************************************************************)
(* Events.  A workflow's own events are its queued start, the "finished"   *)
(* of its state machine and the fireComplete that this one causes.         *)
(***************************************************************************)
Event(kind, r) == [kind |-> kind, req |-> r]

Events == [kind : {"request"}, req : Requests]
            \cup [kind : {"start", "finished", "complete", "restart",
                          "uiShutdown", "quit"}, req : {None}]

Delivered(kind) == queue # <<>> /\ Head(queue).kind = kind

canStartNewAction == current = None

isWorkflowFinished == stage \in {"final", "done"}

Init ==
  /\ current = None /\ stage = "done" /\ killed = FALSE /\ waiting = None
  /\ shutdownRunning = FALSE /\ dominated = FALSE /\ queue = <<>>
  /\ timers = 0 /\ closing = "open" /\ quits = 0
  /\ fate = [r \in Requests |-> "unsent"]

(***************************************************************************)
(* Requests.  The activation handlers are stopped by completeShutdown, the *)
(* UI plug-ins live until UILoader::shutdown.                              *)
(***************************************************************************)
PostRequest(r) ==
  /\ fate[r] = "unsent"
  /\ closing = "open" \/ (closing = "stopping" /\ ActionOf[r] # "AUTH")
  /\ fate' = [fate EXCEPT ![r] = "posted"]
  /\ queue' = Append(queue, Event("request", r))
  /\ UNCHANGED <<current, stage, killed, waiting, shutdownRunning, dominated,
                 timers, closing, quits>>

(* startNewWorkflow with the events q left in the queue; the machine's     *)
(* start is appended to them.                                              *)
startNewWorkflow(r, q) ==
  /\ current' = r /\ stage' = "initial" /\ killed' = FALSE
  /\ queue' = Append(q, Event("start", None))

Start(r) ==
  /\ canStartNewAction
  /\ startNewWorkflow(r, Tail(queue))
  /\ fate' = [fate EXCEPT ![r] = "started"]
  /\ UNCHANGED waiting

Answer(r, outcome) ==
  /\ ~canStartNewAction
  /\ queue' = Tail(queue)
  /\ fate' = [fate EXCEPT ![r] = outcome]
  /\ UNCHANGED <<current, stage, killed, waiting>>

onChangePinRequested_Overwrites(r) ==
  /\ ActionOf[r] = "PIN"
  /\ \/ Start(r)
     \/ /\ ~canStartNewAction
        /\ waiting' = r
        /\ queue' = Tail(queue)
        /\ fate' = [fate EXCEPT ![r] = "waiting"]
        /\ UNCHANGED <<current, stage, killed>>

onChangePinRequested(r) ==
  /\ ActionOf[r] = "PIN"
  /\ \/ Start(r)
     \/ /\ ~canStartNewAction /\ waiting = None
        /\ waiting' = r
        /\ queue' = Tail(queue)
        /\ fate' = [fate EXCEPT ![r] = "waiting"]
        /\ UNCHANGED <<current, stage, killed>>
     \/ waiting # None /\ Answer(r, "ignored")

(* onSelfAuthenticationRequested and onRemoteServiceRequested.             *)
onUiRequested(r) ==
  /\ ActionOf[r] \in {"SELF", "REMOTE_SERVICE"}
  /\ Start(r) \/ Answer(r, "ignored")

(* An authentication waits only for a workflow that shows its result; it   *)
(* dismisses that result.                                                  *)
MayWait == ActionOf[current] # "REMOTE_SERVICE" /\ isWorkflowFinished
             /\ waiting = None

onAuthenticationRequest_DoesNotApprove(r) ==
  /\ ActionOf[r] = "AUTH"
  /\ \/ Start(r)
     \/ /\ ~canStartNewAction /\ MayWait
        /\ waiting' = r /\ queue' = Tail(queue)
        /\ fate' = [fate EXCEPT ![r] = "waiting"]
        /\ UNCHANGED <<current, stage, killed>>
     \/ ~canStartNewAction /\ ~MayWait /\ Answer(r, "refused")

onAuthenticationRequest_FinishesTwice(r) ==
  /\ ActionOf[r] = "AUTH"
  /\ \/ Start(r)
     \/ /\ ~canStartNewAction /\ MayWait
        /\ waiting' = r /\ stage' = "done"
        /\ queue' = Append(Tail(queue), Event("finished", None))
        /\ fate' = [fate EXCEPT ![r] = "waiting"]
        /\ UNCHANGED <<current, killed>>
     \/ ~canStartNewAction /\ ~MayWait /\ Answer(r, "refused")

onAuthenticationRequest(r) ==
  /\ ActionOf[r] = "AUTH"
  /\ \/ Start(r)
     \/ /\ ~canStartNewAction /\ MayWait
        /\ waiting' = r
        /\ \/ /\ stage = "final" /\ W!Leave
              /\ queue' = Append(Tail(queue), Event("finished", None))
           \/ stage = "done" /\ queue' = Tail(queue) /\ UNCHANGED workflow
        /\ fate' = [fate EXCEPT ![r] = "waiting"]
        /\ UNCHANGED current
     \/ ~canStartNewAction /\ ~MayWait /\ Answer(r, "refused")

HandleRequest ==
  /\ Delivered("request")
  /\ LET r == Head(queue).req
     IN onChangePinRequested(r) \/ onUiRequested(r) \/ onAuthenticationRequest(r)
  /\ UNCHANGED <<shutdownRunning, dominated, timers, closing, quits>>

(***************************************************************************)
(* The active workflow.                                                    *)
(***************************************************************************)
StartMachine ==
  /\ Delivered("start") /\ W!Start
  /\ queue' = Tail(queue)
  /\ UNCHANGED <<current, waiting, shutdownRunning, dominated, timers, closing,
                 quits, fate>>

ReachFinalState ==
  /\ current # None /\ closing # "quit" /\ W!Finish
  /\ queue' = IF killed THEN Append(queue, Event("finished", None)) ELSE queue
  /\ UNCHANGED <<current, waiting, shutdownRunning, dominated, timers, closing,
                 quits, fate>>

(* The user dismisses the result.                                          *)
LeaveFinalState ==
  /\ current # None /\ closing \in {"open", "stopping"} /\ W!Leave
  /\ queue' = Append(queue, Event("finished", None))
  /\ UNCHANGED <<current, waiting, shutdownRunning, dominated, timers, closing,
                 quits, fate>>

(* A UI plug-in cancels: what a running workflow makes of it is part of its*)
(* way to the final state, a deaf one (see Workflow) starts to run.        *)
CancelDeaf ==
  /\ current # None /\ closing \in {"open", "stopping"} /\ W!Cancel
  /\ UNCHANGED <<current, waiting, shutdownRunning, dominated, queue, timers,
                 closing, quits, fate>>

(* WorkflowController passes QStateMachine::finished on as fireComplete.   *)
MachineFinished ==
  /\ Delivered("finished")
  /\ queue' = Append(Tail(queue), Event("complete", None))
  /\ UNCHANGED <<current, workflow, waiting, shutdownRunning, dominated, timers,
                 closing, quits, fate>>

(***************************************************************************)
(* Shutdown.                                                               *)
(***************************************************************************)
completeShutdown ==
  /\ timers' = timers + 1
  /\ closing' = IF closing = "open" THEN "stopping" ELSE closing

onWorkflowFinished ==
  /\ Delivered("complete")
  /\ IF waiting = None
       THEN /\ current' = None /\ queue' = Tail(queue)
            /\ fate' = [fate EXCEPT ![current] = "finished"]
            /\ UNCHANGED workflow
       ELSE /\ startNewWorkflow(waiting, Tail(queue))
            /\ fate' = [fate EXCEPT ![current] = "finished", ![waiting] = "started"]
  /\ waiting' = None
  /\ IF shutdownRunning THEN completeShutdown ELSE UNCHANGED <<timers, closing>>
  /\ UNCHANGED <<shutdownRunning, dominated, quits>>

doShutdown_WithoutKill(q) ==
  /\ shutdownRunning' = TRUE
  /\ IF current = None THEN completeShutdown ELSE UNCHANGED <<timers, closing>>
  /\ waiting' = None /\ queue' = q
  /\ fate' = IF waiting = None THEN fate ELSE [fate EXCEPT ![waiting] = "dropped"]
  /\ UNCHANGED <<current, workflow, dominated>>

(* doShutdown with the events q left in the queue.                         *)
doShutdown(q) ==
  /\ shutdownRunning' = TRUE
  /\ IF current = None
       THEN completeShutdown /\ queue' = q /\ UNCHANGED <<workflow, waiting, fate>>
       ELSE /\ W!Kill
            /\ queue' = IF stage = "final" THEN Append(q, Event("finished", None))
                                           ELSE q
            /\ waiting' = None
            /\ fate' = IF waiting = None THEN fate
                         ELSE [fate EXCEPT ![waiting] = "dropped"]
            /\ UNCHANGED <<timers, closing>>
  /\ UNCHANGED <<current, dominated>>

(* fireQuitApplicationRequest is a direct call ...                         *)
Quit ==
  /\ quits < MaxQuits /\ closing \in {"open", "stopping"}
  /\ quits' = quits + 1
  /\ doShutdown(queue)

(* ... and fireRestartApplicationRequested a queued one.                   *)
PostRestart ==
  /\ quits < MaxQuits /\ closing \in {"open", "stopping"}
  /\ quits' = quits + 1
  /\ queue' = Append(queue, Event("restart", None))
  /\ UNCHANGED <<current, workflow, waiting, shutdownRunning, dominated, timers,
                 closing, fate>>

onRestartApplicationRequested ==
  /\ Delivered("restart")
  /\ doShutdown(Tail(queue))
  /\ UNCHANGED quits

(* The timer waits for the open connections, three seconds at most.        *)
TimerDone ==
  /\ timers > 0 /\ closing # "quit"
  /\ timers' = timers - 1
  /\ queue' = Append(queue, Event("uiShutdown", None))
  /\ UNCHANGED <<current, workflow, waiting, shutdownRunning, dominated, closing,
                 quits, fate>>

(* UILoader::shutdown destroys the plug-ins; the last one is reported.     *)
UILoaderShutdown ==
  /\ Delivered("uiShutdown")
  /\ queue' = IF closing = "uiGone" THEN Tail(queue)
                ELSE Append(Tail(queue), Event("quit", None))
  /\ closing' = "uiGone"
  /\ UNCHANGED <<current, workflow, waiting, shutdownRunning, dominated, timers,
                 quits, fate>>

onUILoaderShutdownComplete ==
  /\ Delivered("quit")
  /\ closing' = "quit" /\ queue' = <<>>
  /\ UNCHANGED <<current, workflow, waiting, shutdownRunning, dominated, timers,
                 quits, fate>>

(* A UI plug-in takes and gives back the domination, by direct calls.      *)
onUiDominationRequested ==
  /\ closing \in {"open", "stopping"}
  /\ ~dominated /\ current = None
  /\ dominated' = TRUE
  /\ UNCHANGED <<current, workflow, waiting, shutdownRunning, queue, timers,
                 closing, quits, fate>>

onUiDominationRelease ==
  /\ closing \in {"open", "stopping"}
  /\ dominated /\ dominated' = FALSE
  /\ UNCHANGED <<current, workflow, waiting, shutdownRunning, queue, timers,
                 closing, quits, fate>>

Loop ==
  \/ HandleRequest \/ StartMachine \/ MachineFinished \/ onWorkflowFinished
  \/ onRestartApplicationRequested \/ UILoaderShutdown
  \/ onUILoaderShutdownComplete

Terminated == closing = "quit" /\ UNCHANGED vars

Next ==
  \/ \E r \in Requests : PostRequest(r)
  \/ Loop \/ ReachFinalState \/ LeaveFinalState \/ CancelDeaf
  \/ Quit \/ PostRestart \/ TimerDone
  \/ onUiDominationRequested \/ onUiDominationRelease
  \/ Terminated

Spec == Init /\ [][Next]_vars

(***************************************************************************)
(* Fairness.  The main loop delivers its events, the timer fires, and a    *)
(* killed workflow ends by itself (KilledEnds of ChangePinController).     *)
(***************************************************************************)
FairSpec ==
  /\ Spec
  /\ WF_vars(Loop)
  /\ WF_vars(TimerDone)
  /\ WF_vars(killed /\ ReachFinalState)

(***************************************************************************)
(* Types.                                                                  *)
(***************************************************************************)
TypeOK ==
  /\ current \in Requests \cup {None} /\ waiting \in Requests \cup {None}
  /\ stage \in W!Stages /\ killed \in BOOLEAN
  /\ shutdownRunning \in BOOLEAN /\ dominated \in BOOLEAN
  /\ queue \in Seq(Events)
  /\ timers \in Nat /\ closing \in {"open", "stopping", "uiGone", "quit"}
  /\ quits \in 0 .. MaxQuits
  /\ fate \in [Requests -> Fates]

(***************************************************************************)
(* No request is lost or served twice: as long as the program runs, a      *)
(* posted request is in the main loop exactly once, a waiting one is the   *)
(* waiting one (the slot is never overwritten), a started one is the one   *)
(* that the controller serves.                                             *)
(***************************************************************************)
RequestQueued(q, r) ==
  \E i \in 1 .. Len(q) : q[i].kind = "request" /\ q[i].req = r

QueuedOnce(q) ==
  \A i, j \in 1 .. Len(q) :
    (q[i].kind = "request" /\ q[j].kind = "request" /\ q[i].req = q[j].req) => i = j

NoRequestLost ==
  /\ \A r \in Requests : fate[r] = "waiting" <=> waiting = r
  /\ \A r \in Requests : fate[r] = "started" <=> current = r
  /\ closing # "quit" =>
       \A r \in Requests : fate[r] = "posted" <=> RequestQueued(queue, r)
  /\ QueuedOnce(queue)

(***************************************************************************)
(* The events of a workflow and its life agree: its start is queued exactly*)
(* while it is initial, its end exactly while it is done, each once.  So   *)
(* onWorkflowFinished, which dereferences mActiveController, always finds  *)
(* one, and no end of an old workflow is taken for that of its successor.  *)
(***************************************************************************)
OfWorkflow == {"start", "finished", "complete"}

Queued(q, kinds) == \E i \in 1 .. Len(q) : q[i].kind \in kinds

OneOfWorkflow(q) ==
  \A i, j \in 1 .. Len(q) :
    (q[i].kind \in OfWorkflow /\ q[j].kind \in OfWorkflow) => i = j

EndsFindTheirWorkflow ==
  /\ Queued(queue, OfWorkflow) => current # None
  /\ OneOfWorkflow(queue)
  /\ closing # "quit" /\ current # None =>
       /\ stage = "initial" <=> Queued(queue, {"start"})
       /\ stage = "done" <=> Queued(queue, {"finished", "complete"})

(***************************************************************************)
(* Whoever waits has something to wait for, and an authentication waits    *)
(* only behind a workflow that needs the user no more                      *)
(* (onAuthenticationRequest approves its final state).                     *)
(***************************************************************************)
WaitingIsNext ==
  waiting # None => /\ current # None
                    /\ ActionOf[waiting] \in {"PIN", "AUTH"}
                    /\ ActionOf[waiting] = "AUTH" => stage = "done"

(***************************************************************************)
(* A shutdown ends the application, whatever was running or waiting        *)
(* ("Make sure the workflow runs to the end without user interaction."),   *)
(* except for a workflow that is killed before its queued start.           *)
(***************************************************************************)
ShutdownQuitsUnlessDeaf ==
  shutdownRunning ~> (closing = "quit" \/ (current # None /\ stage = "deaf"))
=============================================================================
