------------------------- MODULE AppControllerProofs -------------------------
(***************************************************************************)
(* The AppController keeps its requests and its workflow's events in order,*)
(* for any set of requests and any number of quits.                        *)
(***************************************************************************)
EXTENDS AppController, TLAPS

(* Nothing is left in the main loop once it has ended.                     *)
LoopEnds == closing = "quit" => queue = <<>>

(* The properties need each other: an end of a workflow is appended only   *)
(* if none is queued (EndsFindTheirWorkflow), a waiting request succeeds a *)
(* workflow that is there (WaitingIsNext) and is another than the one it   *)
(* succeeds (NoRequestLost).                                               *)
IInv == /\ TypeOK
        /\ LoopEnds
        /\ NoRequestLost
        /\ EndsFindTheirWorkflow
        /\ WaitingIsNext

(* The kinds of events that carry no request.                              *)
Kinds == {"start", "finished", "complete", "restart", "uiShutdown", "quit"}

(***************************************************************************)
(* Lemmas on the queue.                                                    *)
(***************************************************************************)

(* The events that the actions post are events.                            *)
LEMMA EventTypes ==
  /\ \A r \in Requests : /\ Event("request", r) \in Events
                         /\ Event("request", r).kind = "request"
                         /\ Event("request", r).req = r
  /\ \A k \in Kinds : /\ Event(k, None) \in Events
                      /\ Event(k, None).kind = k
  BY DEF Event, Events, Kinds

(* Append, index by index.                                                 *)
LEMMA AppendFacts ==
  ASSUME NEW q \in Seq(Events), NEW e \in Events
  PROVE  /\ Append(q, e) \in Seq(Events)
         /\ Len(Append(q, e)) = Len(q) + 1
         /\ Len(q) \in Nat
         /\ \A i \in 1 .. Len(q) : Append(q, e)[i] = q[i]
         /\ Append(q, e)[Len(q) + 1] = e
  OBVIOUS

(* Head and Tail, index by index.                                          *)
LEMMA TailFacts ==
  ASSUME NEW q \in Seq(Events), q # <<>>
  PROVE  /\ Tail(q) \in Seq(Events)
         /\ Len(q) \in Nat \ {0}
         /\ Len(Tail(q)) = Len(q) - 1
         /\ \A i \in 1 .. Len(q) - 1 : Tail(q)[i] = q[i + 1]
         /\ Head(q) = q[1] /\ Head(q) \in Events
  OBVIOUS

(* What an appended event adds to the queue.                               *)
LEMMA AppendQueued ==
  ASSUME NEW q \in Seq(Events), NEW e \in Events
  PROVE  /\ \A r \in Requests :
              RequestQueued(Append(q, e), r)
                <=> RequestQueued(q, r) \/ (e.kind = "request" /\ e.req = r)
         /\ \A K : Queued(Append(q, e), K) <=> Queued(q, K) \/ e.kind \in K
         /\ QueuedOnce(q) /\ (e.kind = "request" => ~RequestQueued(q, e.req))
              => QueuedOnce(Append(q, e))
         /\ OneOfWorkflow(q) /\ (e.kind \in OfWorkflow => ~Queued(q, OfWorkflow))
              => OneOfWorkflow(Append(q, e))
<1>a. \A i \in 1 .. Len(q) + 1 : i \in 1 .. Len(q) \/ i = Len(q) + 1
  BY AppendFacts
<1>b. \A i \in 1 .. Len(q) : i \in 1 .. Len(q) + 1
  BY AppendFacts
<1>c. Len(q) + 1 \in 1 .. Len(q) + 1
  BY AppendFacts
<1>1. ASSUME NEW r \in Requests
      PROVE  RequestQueued(Append(q, e), r)
               <=> RequestQueued(q, r) \/ (e.kind = "request" /\ e.req = r)
  BY <1>a, <1>b, <1>c, AppendFacts DEF RequestQueued
<1>2. ASSUME NEW K
      PROVE  Queued(Append(q, e), K) <=> Queued(q, K) \/ e.kind \in K
  BY <1>a, <1>b, <1>c, AppendFacts DEF Queued
<1>3. ASSUME QueuedOnce(q), e.kind = "request" => ~RequestQueued(q, e.req)
      PROVE  QueuedOnce(Append(q, e))
  BY <1>3, <1>a, AppendFacts DEF QueuedOnce, RequestQueued
<1>4. ASSUME OneOfWorkflow(q), e.kind \in OfWorkflow => ~Queued(q, OfWorkflow)
      PROVE  OneOfWorkflow(Append(q, e))
  BY <1>4, <1>a, AppendFacts DEF OneOfWorkflow, Queued
<1> QED
  BY <1>1, <1>2, <1>3, <1>4

(* What the delivery of the first event takes from the queue.              *)
LEMMA TailQueued ==
  ASSUME NEW q \in Seq(Events), q # <<>>
  PROVE  /\ QueuedOnce(q) =>
              /\ QueuedOnce(Tail(q))
              /\ \A r \in Requests :
                   RequestQueued(Tail(q), r)
                     <=> /\ RequestQueued(q, r)
                         /\ ~(Head(q).kind = "request" /\ Head(q).req = r)
         /\ \A K : Queued(q, K) <=> Head(q).kind \in K \/ Queued(Tail(q), K)
         /\ OneOfWorkflow(q) =>
              /\ OneOfWorkflow(Tail(q))
              /\ Head(q).kind \in OfWorkflow => ~Queued(Tail(q), OfWorkflow)
<1>a. \A i \in 1 .. Len(q) : i = 1 \/ (i - 1 \in 1 .. Len(q) - 1 /\ i = (i - 1) + 1)
  BY TailFacts
<1>b. \A i \in 1 .. Len(q) - 1 : i + 1 \in 1 .. Len(q) /\ i + 1 # 1
  BY TailFacts
<1>c. 1 \in 1 .. Len(q)
  BY TailFacts
<1>1. ASSUME QueuedOnce(q)
      PROVE  QueuedOnce(Tail(q))
  BY <1>1, <1>b, TailFacts DEF QueuedOnce
<1>2. ASSUME QueuedOnce(q), NEW r \in Requests
      PROVE  RequestQueued(Tail(q), r)
               <=> /\ RequestQueued(q, r)
                   /\ ~(Head(q).kind = "request" /\ Head(q).req = r)
  <2>1. ASSUME RequestQueued(Tail(q), r)
        PROVE  /\ RequestQueued(q, r)
               /\ ~(Head(q).kind = "request" /\ Head(q).req = r)
    BY <1>2, <2>1, <1>b, <1>c, TailFacts DEF QueuedOnce, RequestQueued
  <2>2. ASSUME RequestQueued(q, r), ~(Head(q).kind = "request" /\ Head(q).req = r)
        PROVE  RequestQueued(Tail(q), r)
    <3>1. PICK i \in 1 .. Len(q) : q[i].kind = "request" /\ q[i].req = r
      BY <2>2 DEF RequestQueued
    <3>2. i # 1
      BY <2>2, <3>1, TailFacts
    <3>3. i - 1 \in 1 .. Len(Tail(q)) /\ Tail(q)[i - 1] = q[i]
      BY <3>2, <1>a, TailFacts
    <3> QED
      BY <3>1, <3>3 DEF RequestQueued
  <2> QED
    BY <2>1, <2>2
<1>3. ASSUME NEW K
      PROVE  Queued(q, K) <=> Head(q).kind \in K \/ Queued(Tail(q), K)
  <2>1. Queued(Tail(q), K) => Queued(q, K)
    BY <1>b, TailFacts DEF Queued
  <2>2. Queued(q, K) => Head(q).kind \in K \/ Queued(Tail(q), K)
    BY <1>a, TailFacts DEF Queued
  <2>3. Head(q).kind \in K => Queued(q, K)
    BY <1>c, TailFacts DEF Queued
  <2> QED
    BY <2>1, <2>2, <2>3
<1>4. ASSUME OneOfWorkflow(q)
      PROVE  /\ OneOfWorkflow(Tail(q))
             /\ Head(q).kind \in OfWorkflow => ~Queued(Tail(q), OfWorkflow)
  BY <1>4, <1>b, <1>c, TailFacts DEF OneOfWorkflow, Queued
<1> QED
  BY <1>1, <1>2, <1>3, <1>4

(* The state before the first event satisfies the invariant.               *)
LEMMA InitInv == Init => IInv
<1> SUFFICES ASSUME Init PROVE IInv
  OBVIOUS
<1>q. queue = <<>> /\ queue \in Seq(Events) /\ \A i \in 1 .. Len(queue) : FALSE
  BY DEF Init
<1>1. TypeOK
  <2>1. stage \in W!Stages
    BY DEF Init, W!Stages
  <2>2. fate \in [Requests -> Fates]
    BY DEF Init, Fates
  <2>3. quits \in 0 .. MaxQuits /\ timers \in Nat
    BY ConstantsAssumption DEF Init
  <2> QED
    BY <1>q, <2>1, <2>2, <2>3 DEF Init, TypeOK
<1>2. NoRequestLost
  BY <1>q, ConstantsAssumption DEF Init, NoRequestLost, RequestQueued, QueuedOnce
<1>3. EndsFindTheirWorkflow
  BY <1>q DEF Init, EndsFindTheirWorkflow, Queued, OneOfWorkflow
<1> QED
  BY <1>1, <1>2, <1>3 DEF IInv, Init, LoopEnds, WaitingIsNext

(***************************************************************************)
(* The type invariant.                                                     *)
(***************************************************************************)

(* Every life of a workflow is one of its stages.                          *)
LEMMA StageType ==
  ASSUME stage \in W!Stages, killed \in BOOLEAN
  PROVE  /\ W!Next => stage' \in W!Stages /\ killed' \in BOOLEAN
         /\ "initial" \in W!Stages
  BY DEF W!Stages, W!Next, W!Start, W!Finish, W!Leave, W!Kill, W!Cancel, W!AfterKill

(* The queues that the actions leave behind are queues of events.          *)
LEMMA QueueType ==
  ASSUME queue \in Seq(Events)
  PROVE  /\ \A k \in Kinds : Append(queue, Event(k, None)) \in Seq(Events)
         /\ \A r \in Requests : Append(queue, Event("request", r)) \in Seq(Events)
         /\ queue # <<>> =>
              /\ Tail(queue) \in Seq(Events)
              /\ \A k \in Kinds :
                   Append(Tail(queue), Event(k, None)) \in Seq(Events)
              /\ Head(queue).kind = "request" => Head(queue).req \in Requests
<1>1. ASSUME queue # <<>>, Head(queue).kind = "request"
      PROVE  Head(queue).req \in Requests
  BY <1>1, TailFacts DEF Events
<1>2. ASSUME queue # <<>>
      PROVE  Tail(queue) \in Seq(Events)
  BY <1>2, TailFacts
<1> QED
  BY <1>1, <1>2, AppendFacts, EventTypes

(* What becomes of a request r that waits.                                 *)
Waits(r) ==
  /\ current # None /\ waiting = None /\ waiting' = r
  /\ fate' = [fate EXCEPT ![r] = "waiting"]
  /\ UNCHANGED <<current, killed>>
  /\ \/ ActionOf[r] = "PIN" /\ stage' = stage /\ queue' = Tail(queue)
     \/ /\ ActionOf[r] = "AUTH" /\ stage = "final" /\ stage' = "done"
        /\ queue' = Append(Tail(queue), Event("finished", None))
     \/ /\ ActionOf[r] = "AUTH" /\ stage = "done" /\ stage' = "done"
        /\ queue' = Tail(queue)

(* A request is started, answered or waits.                                *)
LEMMA RequestCases ==
  ASSUME HandleRequest
  PROVE  /\ queue # <<>> /\ Head(queue).kind = "request"
         /\ UNCHANGED <<shutdownRunning, dominated, timers, closing, quits>>
         /\ \/ Start(Head(queue).req)
            \/ Answer(Head(queue).req, "ignored")
            \/ Answer(Head(queue).req, "refused")
            \/ Waits(Head(queue).req)
<1> DEFINE r == Head(queue).req
<1>1. /\ queue # <<>> /\ Head(queue).kind = "request"
      /\ UNCHANGED <<shutdownRunning, dominated, timers, closing, quits>>
      /\ onChangePinRequested(r) \/ onUiRequested(r) \/ onAuthenticationRequest(r)
  BY DEF HandleRequest, Delivered
<1> HIDE DEF r
<1>2. CASE onChangePinRequested(r)
  BY <1>1, <1>2 DEF onChangePinRequested, Waits, canStartNewAction, r
<1>3. CASE onUiRequested(r)
  BY <1>1, <1>3 DEF onUiRequested, r
<1>4. CASE onAuthenticationRequest(r)
  BY <1>1, <1>4
  DEF onAuthenticationRequest, Waits, MayWait, canStartNewAction, W!Leave,
      workflow, isWorkflowFinished, r
<1> QED
  BY <1>1, <1>2, <1>3, <1>4

(* No delivered request breaks the types.                                  *)
LEMMA RequestType == TypeOK /\ HandleRequest => TypeOK'
<1> SUFFICES ASSUME TypeOK, HandleRequest PROVE TypeOK'
  OBVIOUS
<1> DEFINE r == Head(queue).req
<1>1. r \in Requests /\ Tail(queue) \in Seq(Events)
  BY RequestCases, QueueType DEF TypeOK
<1>2. \A k \in Kinds : Append(Tail(queue), Event(k, None)) \in Seq(Events)
  BY RequestCases, QueueType DEF TypeOK
<1>3. \A f \in Fates : [fate EXCEPT ![r] = f] \in [Requests -> Fates]
  BY DEF TypeOK
<1>4. /\ "start" \in Kinds /\ "finished" \in Kinds
      /\ {"started", "waiting", "refused", "ignored"} \subseteq Fates
      /\ {"initial", "done"} \subseteq W!Stages
  BY DEF Kinds, Fates, W!Stages
<1>5. /\ UNCHANGED <<shutdownRunning, dominated, timers, closing, quits>>
      /\ Start(r) \/ Answer(r, "ignored") \/ Answer(r, "refused") \/ Waits(r)
  BY RequestCases
<1> HIDE DEF r
<1>6. CASE Start(r)
  BY <1>1, <1>2, <1>3, <1>4, <1>5, <1>6 DEF Start, startNewWorkflow, TypeOK
<1>7. CASE Answer(r, "ignored") \/ Answer(r, "refused")
  BY <1>1, <1>3, <1>4, <1>5, <1>7 DEF Answer, TypeOK
<1>8. CASE Waits(r)
  BY <1>1, <1>2, <1>3, <1>4, <1>5, <1>8 DEF Waits, TypeOK
<1> QED
  BY <1>5, <1>6, <1>7, <1>8

(* Neither does a shutdown that leaves the events q in the queue.          *)
LEMMA ShutdownType ==
  ASSUME TypeOK, NEW q \in Seq(Events), doShutdown(q),
         UNCHANGED quits \/ (quits' = quits + 1 /\ quits < MaxQuits)
  PROVE  TypeOK'
<1>1. queue' \in Seq(Events)
  BY AppendFacts, EventTypes DEF doShutdown, Kinds
<1>2. stage' \in W!Stages /\ killed' \in BOOLEAN
  BY DEF doShutdown, TypeOK, workflow, W!Kill, W!AfterKill, W!Stages
<1>3. fate' \in [Requests -> Fates]
  BY DEF doShutdown, TypeOK, Fates
<1>4. timers' \in Nat /\ closing' \in {"open", "stopping", "uiGone", "quit"}
  BY DEF doShutdown, completeShutdown, TypeOK
<1>5. quits' \in 0 .. MaxQuits
  BY ConstantsAssumption DEF TypeOK
<1> QED
  BY <1>1, <1>2, <1>3, <1>4, <1>5 DEF doShutdown, TypeOK

(* No action breaks the types.                                             *)
LEMMA TypeStep == TypeOK /\ [Next]_vars => TypeOK'
<1> SUFFICES ASSUME TypeOK, [Next]_vars PROVE TypeOK'
  OBVIOUS
<1> USE ConstantsAssumption
<1>q. /\ \A k \in Kinds : Append(queue, Event(k, None)) \in Seq(Events)
      /\ \A r \in Requests : Append(queue, Event("request", r)) \in Seq(Events)
      /\ queue # <<>> =>
           /\ Tail(queue) \in Seq(Events)
           /\ \A k \in Kinds : Append(Tail(queue), Event(k, None)) \in Seq(Events)
  BY QueueType DEF TypeOK
<1>k. {"start", "finished", "complete", "restart", "uiShutdown", "quit"} = Kinds
  BY DEF Kinds
<1>s. W!Next => stage' \in W!Stages /\ killed' \in BOOLEAN
  BY StageType DEF TypeOK
<1>1. CASE \E r \in Requests : PostRequest(r)
  BY <1>1, <1>q DEF PostRequest, TypeOK, Fates
<1>2. CASE HandleRequest
  BY <1>2, RequestType
<1>3. CASE StartMachine
  BY <1>3, <1>q, <1>s DEF StartMachine, Delivered, TypeOK, W!Next
<1>4. CASE MachineFinished
  BY <1>4, <1>q, <1>k DEF MachineFinished, Delivered, workflow, TypeOK
<1>5. CASE onWorkflowFinished
  <2>1. queue' \in Seq(Events)
    BY <1>5, <1>q, <1>k DEF onWorkflowFinished, startNewWorkflow, Delivered
  <2>2. stage' \in W!Stages /\ killed' \in BOOLEAN /\ current' \in Requests \cup {None}
    BY <1>5 DEF onWorkflowFinished, startNewWorkflow, workflow, TypeOK, W!Stages
  <2>3. fate' \in [Requests -> Fates]
    BY <1>5 DEF onWorkflowFinished, TypeOK, Fates
  <2>4. timers' \in Nat /\ closing' \in {"open", "stopping", "uiGone", "quit"}
    BY <1>5 DEF onWorkflowFinished, completeShutdown, TypeOK
  <2> QED
    BY <1>5, <2>1, <2>2, <2>3, <2>4 DEF onWorkflowFinished, TypeOK
<1>6. CASE onRestartApplicationRequested
  BY <1>6, <1>q, ShutdownType DEF onRestartApplicationRequested, Delivered
<1>7. CASE UILoaderShutdown
  BY <1>7, <1>q, <1>k DEF UILoaderShutdown, Delivered, workflow, TypeOK
<1>8. CASE onUILoaderShutdownComplete
  BY <1>8 DEF onUILoaderShutdownComplete, workflow, TypeOK
<1>9. CASE ReachFinalState
  BY <1>9, <1>q, <1>k, <1>s DEF ReachFinalState, TypeOK, W!Next
<1>10. CASE LeaveFinalState
  BY <1>10, <1>q, <1>k, <1>s DEF LeaveFinalState, TypeOK, W!Next
<1>11. CASE CancelDeaf
  BY <1>11, <1>s DEF CancelDeaf, TypeOK, W!Next
<1>12. CASE Quit
  BY <1>12, ShutdownType DEF Quit, TypeOK
<1>13. CASE PostRestart
  BY <1>13, <1>q, <1>k DEF PostRestart, workflow, TypeOK
<1>14. CASE TimerDone
  BY <1>14, <1>q, <1>k DEF TimerDone, workflow, TypeOK
<1>15. CASE onUiDominationRequested \/ onUiDominationRelease
  BY <1>15 DEF onUiDominationRequested, onUiDominationRelease, workflow, TypeOK
<1>16. CASE Terminated \/ UNCHANGED vars
  BY <1>16 DEF Terminated, vars, TypeOK
<1> QED
  BY <1>1, <1>2, <1>3, <1>4, <1>5, <1>6, <1>7, <1>8, <1>9, <1>10, <1>11, <1>12,
     <1>13, <1>14, <1>15, <1>16 DEF Next, Loop

(* All states have their types: the queue holds only events the            *)
(* controller has a slot for, whatever plug-ins and users do.              *)
THEOREM TypeCorrect == Spec => []TypeOK
<1>1. Init => TypeOK
  BY InitInv DEF IInv
<1> QED
  BY <1>1, TypeStep, PTL DEF Spec

(***************************************************************************)
(* The orderly queue.  One lemma for each way in which actions change it.  *)
(***************************************************************************)

(* The queue, or what is left of it after an event that is neither a       *)
(* request nor of a workflow.                                              *)
PlainRest(q) ==
  q = queue \/ /\ queue # <<>> /\ q = Tail(queue)
               /\ Head(queue).kind \notin OfWorkflow \cup {"request"}

(* It holds the same requests and the same events of the workflow.         *)
LEMMA PlainRestQueued ==
  ASSUME queue \in Seq(Events), NEW q, PlainRest(q), QueuedOnce(queue),
         OneOfWorkflow(queue)
  PROVE  /\ q \in Seq(Events) /\ QueuedOnce(q) /\ OneOfWorkflow(q)
         /\ \A r \in Requests : RequestQueued(q, r) <=> RequestQueued(queue, r)
         /\ \A K \in SUBSET OfWorkflow : Queued(q, K) <=> Queued(queue, K)
  BY TailQueued, TailFacts DEF PlainRest

(* The sets of kinds that EndsFindTheirWorkflow speaks of.                 *)
LEMMA WorkflowKinds ==
  /\ {"start"} \in SUBSET OfWorkflow /\ {"finished", "complete"} \in SUBSET OfWorkflow
  /\ OfWorkflow \in SUBSET OfWorkflow
  /\ OfWorkflow = {"start"} \cup {"finished", "complete"}
  BY DEF OfWorkflow

(* A step that takes or posts plain events only.                           *)
LEMMA PlainStep ==
  ASSUME IInv, NEW k \in {"restart", "uiShutdown", "quit"}, NEW q, PlainRest(q),
         queue' = q \/ queue' = Append(q, Event(k, None)),
         closing # "quit", closing' # "quit",
         UNCHANGED <<current, workflow, waiting, fate>>
  PROVE  LoopEnds' /\ NoRequestLost' /\ EndsFindTheirWorkflow' /\ WaitingIsNext'
<1>0. Event(k, None) \in Events /\ Event(k, None).kind = k
  BY EventTypes DEF Kinds
<1>k. k \notin OfWorkflow /\ k # "request" /\ \A K \in SUBSET OfWorkflow : k \notin K
  BY DEF OfWorkflow
<1>1. /\ q \in Seq(Events) /\ QueuedOnce(q) /\ OneOfWorkflow(q)
      /\ \A r \in Requests : RequestQueued(q, r) <=> RequestQueued(queue, r)
      /\ \A K \in SUBSET OfWorkflow : Queued(q, K) <=> Queued(queue, K)
  BY PlainRestQueued DEF IInv, TypeOK, NoRequestLost, EndsFindTheirWorkflow
<1>2. /\ QueuedOnce(queue') /\ OneOfWorkflow(queue')
      /\ \A r \in Requests : RequestQueued(queue', r) <=> RequestQueued(q, r)
      /\ \A K \in SUBSET OfWorkflow : Queued(queue', K) <=> Queued(q, K)
  <2>1. CASE queue' = q
    BY <2>1, <1>1
  <2>2. CASE queue' = Append(q, Event(k, None))
    <3> DEFINE e == Event(k, None)
    <3>1. e \in Events /\ e.kind # "request" /\ e.kind \notin OfWorkflow
          /\ \A K \in SUBSET OfWorkflow : e.kind \notin K
      BY <1>0, <1>k
    <3> HIDE DEF e
    <3>2. queue' = Append(q, e)
      BY <2>2 DEF e
    <3> QED
      BY <1>1, <3>1, <3>2, AppendQueued
  <2> QED
    BY <2>1, <2>2
<1>4. NoRequestLost'
  BY <1>1, <1>2 DEF IInv, NoRequestLost
<1>5. EndsFindTheirWorkflow'
  BY <1>1, <1>2, WorkflowKinds DEF IInv, EndsFindTheirWorkflow, workflow
<1>6. WaitingIsNext'
  BY DEF IInv, WaitingIsNext, workflow
<1> QED
  BY <1>4, <1>5, <1>6 DEF LoopEnds

(* A step of the workflow's life that keeps the queue: it starts or ends   *)
(* nothing.                                                                *)
LEMMA LifeStep ==
  ASSUME IInv, UNCHANGED <<current, waiting, queue, closing, fate>>,
         \/ stage' = stage
         \/ stage \notin {"initial", "done"} /\ stage' \notin {"initial", "done"}
  PROVE  LoopEnds' /\ NoRequestLost' /\ EndsFindTheirWorkflow' /\ WaitingIsNext'
<1>1. NoRequestLost' /\ LoopEnds'
  BY DEF IInv, NoRequestLost, LoopEnds
<1>2. EndsFindTheirWorkflow'
  BY DEF IInv, EndsFindTheirWorkflow
<1>3. WaitingIsNext'
  BY DEF IInv, WaitingIsNext
<1> QED
  BY <1>1, <1>2, <1>3

(* The workflow ends: its "finished" is the one event of it in the queue.  *)
LEMMA EndStep ==
  ASSUME IInv, NEW q, PlainRest(q), queue' = Append(q, Event("finished", None)),
         current # None, stage \in {"running", "final"}, stage' = "done",
         closing # "quit", closing' = closing, current' = current,
         \/ UNCHANGED <<waiting, fate>>
         \/ /\ waiting' = None
            /\ fate' = IF waiting = None THEN fate
                                         ELSE [fate EXCEPT ![waiting] = "dropped"]
  PROVE  LoopEnds' /\ NoRequestLost' /\ EndsFindTheirWorkflow' /\ WaitingIsNext'
<1> DEFINE e == Event("finished", None)
<1>0. e \in Events /\ e.kind = "finished"
  BY EventTypes DEF Kinds
<1>e. queue' = Append(q, e)
  OBVIOUS
<1> HIDE DEF e
<1>1. /\ q \in Seq(Events) /\ QueuedOnce(q) /\ OneOfWorkflow(q)
      /\ \A r \in Requests : RequestQueued(q, r) <=> RequestQueued(queue, r)
      /\ \A K \in SUBSET OfWorkflow : Queued(q, K) <=> Queued(queue, K)
  BY PlainRestQueued DEF IInv, TypeOK, NoRequestLost, EndsFindTheirWorkflow
<1>2. ~Queued(queue, {"start"}) /\ ~Queued(queue, {"finished", "complete"})
  BY DEF IInv, EndsFindTheirWorkflow
<1>3. ~Queued(queue, OfWorkflow)
  BY <1>2 DEF Queued, OfWorkflow
<1>4. /\ QueuedOnce(queue') /\ OneOfWorkflow(queue')
      /\ \A r \in Requests : RequestQueued(queue', r) <=> RequestQueued(q, r)
  BY <1>0, <1>e, <1>1, <1>3, AppendQueued, WorkflowKinds
<1>5. ~Queued(queue', {"start"}) /\ Queued(queue', {"finished", "complete"})
  BY <1>0, <1>e, <1>1, <1>2, AppendQueued, WorkflowKinds
<1>6. NoRequestLost'
  <2>1. \A r \in Requests : fate[r] = "waiting" <=> waiting = r
    BY DEF IInv, NoRequestLost
  <2>2. ASSUME NEW r \in Requests
        PROVE  /\ fate'[r] = "waiting" <=> waiting' = r
               /\ fate'[r] = "started" <=> fate[r] = "started"
               /\ fate'[r] = "posted" <=> fate[r] = "posted"
    <3>1. CASE UNCHANGED <<waiting, fate>>
      BY <2>1, <3>1
    <3>2. CASE waiting = None /\ waiting' = None /\ fate' = fate
      BY <2>1, <3>2, ConstantsAssumption
    <3>3. CASE /\ waiting # None /\ waiting' = None
               /\ fate' = [fate EXCEPT ![waiting] = "dropped"]
      BY <2>1, <3>3, ConstantsAssumption DEF IInv, TypeOK
    <3> QED
      BY <3>1, <3>2, <3>3
  <2>3. \A r \in Requests : RequestQueued(queue', r) <=> RequestQueued(queue, r)
    BY <1>1, <1>4
  <2> QED
    BY <1>4, <2>2, <2>3 DEF IInv, NoRequestLost
<1>7. EndsFindTheirWorkflow'
  BY <1>4, <1>5 DEF EndsFindTheirWorkflow
<1>8. WaitingIsNext'
  BY DEF IInv, WaitingIsNext
<1> QED
  BY <1>6, <1>7, <1>8 DEF IInv, LoopEnds

(* A workflow is started for the request r, after an event that left no    *)
(* event of a workflow behind.                                             *)
LEMMA NewWorkflowStep ==
  ASSUME IInv, NEW q \in Seq(Events), NEW r \in Requests, startNewWorkflow(r, q),
         QueuedOnce(q), ~Queued(q, OfWorkflow), waiting' = None, closing' # "quit",
         \A x \in Requests : /\ fate'[x] # "waiting"
                             /\ fate'[x] = "started" <=> x = r
                             /\ fate'[x] = "posted" <=> RequestQueued(q, x)
  PROVE  LoopEnds' /\ NoRequestLost' /\ EndsFindTheirWorkflow' /\ WaitingIsNext'
<1> DEFINE e == Event("start", None)
<1>0. e \in Events /\ e.kind = "start"
  BY EventTypes DEF Kinds
<1>1. queue' = Append(q, e) /\ current' = r /\ stage' = "initial"
  BY DEF startNewWorkflow
<1> HIDE DEF e
<1>2. OneOfWorkflow(q) /\ ~Queued(q, {"finished", "complete"})
  BY DEF OneOfWorkflow, Queued, OfWorkflow
<1>3. /\ QueuedOnce(queue') /\ OneOfWorkflow(queue')
      /\ \A x \in Requests : RequestQueued(queue', x) <=> RequestQueued(q, x)
      /\ Queued(queue', {"start"}) /\ ~Queued(queue', {"finished", "complete"})
  BY <1>0, <1>1, <1>2, AppendQueued
<1>4. NoRequestLost'
  <2>1. ASSUME NEW x \in Requests
        PROVE  /\ fate'[x] = "waiting" <=> waiting' = x
               /\ fate'[x] = "started" <=> current' = x
               /\ fate'[x] = "posted" <=> RequestQueued(queue', x)
    <3>1. waiting' # x /\ fate'[x] # "waiting"
      BY ConstantsAssumption
    <3>2. fate'[x] = "started" <=> current' = x
      BY <1>1
    <3>3. fate'[x] = "posted" <=> RequestQueued(queue', x)
      BY <1>3
    <3> QED
      BY <3>1, <3>2, <3>3
  <2> QED
    BY <1>3, <2>1 DEF NoRequestLost
<1>5. EndsFindTheirWorkflow'
  BY <1>1, <1>3, ConstantsAssumption DEF EndsFindTheirWorkflow
<1> QED
  BY <1>4, <1>5 DEF WaitingIsNext, LoopEnds

(* A request is posted.                                                    *)
LEMMA PostStep ==
  ASSUME IInv, NEW r \in Requests, PostRequest(r)
  PROVE  LoopEnds' /\ NoRequestLost' /\ EndsFindTheirWorkflow' /\ WaitingIsNext'
<1> DEFINE e == Event("request", r)
<1>0. e \in Events /\ e.kind = "request" /\ e.req = r /\ queue \in Seq(Events)
  BY EventTypes DEF IInv, TypeOK
<1>1. /\ queue' = Append(queue, e) /\ fate' = [fate EXCEPT ![r] = "posted"]
      /\ fate[r] = "unsent" /\ closing # "quit"
      /\ UNCHANGED <<current, stage, waiting, closing>>
  BY DEF PostRequest
<1> HIDE DEF e
<1>2. ~RequestQueued(queue, r)
  BY <1>1 DEF IInv, NoRequestLost
<1>3. "request" \notin OfWorkflow
  BY DEF OfWorkflow
<1>4. /\ QueuedOnce(queue') /\ OneOfWorkflow(queue')
      /\ \A x \in Requests : RequestQueued(queue', x) <=> RequestQueued(queue, x) \/ x = r
      /\ \A K \in SUBSET OfWorkflow : Queued(queue', K) <=> Queued(queue, K)
  BY <1>0, <1>1, <1>2, <1>3, AppendQueued
     DEF IInv, NoRequestLost, EndsFindTheirWorkflow
<1>5. \A x \in Requests : fate'[x] = IF x = r THEN "posted" ELSE fate[x]
  BY <1>1 DEF IInv, TypeOK
<1>6. NoRequestLost'
  BY <1>1, <1>4, <1>5 DEF IInv, NoRequestLost
<1>7. EndsFindTheirWorkflow'
  BY <1>1, <1>4, WorkflowKinds DEF IInv, EndsFindTheirWorkflow
<1>8. WaitingIsNext'
  BY <1>1 DEF IInv, WaitingIsNext
<1> QED
  BY <1>1, <1>6, <1>7, <1>8 DEF LoopEnds

(* A request is delivered: it is started, answered or waits.               *)
LEMMA RequestStep ==
  ASSUME IInv, HandleRequest
  PROVE  LoopEnds' /\ NoRequestLost' /\ EndsFindTheirWorkflow' /\ WaitingIsNext'
<1> DEFINE r == Head(queue).req
           q == Tail(queue)
<1>0. /\ queue \in Seq(Events) /\ queue # <<>> /\ Head(queue).kind = "request"
      /\ closing # "quit" /\ closing' = closing
  BY RequestCases DEF IInv, TypeOK, LoopEnds
<1>1. r \in Requests /\ q \in Seq(Events)
  BY <1>0, QueueType
<1>2. "request" \notin OfWorkflow
  BY DEF OfWorkflow
<1>3. /\ QueuedOnce(q) /\ OneOfWorkflow(q)
      /\ \A x \in Requests : RequestQueued(q, x) <=> RequestQueued(queue, x) /\ x # r
      /\ \A K \in SUBSET OfWorkflow : Queued(q, K) <=> Queued(queue, K)
  BY <1>0, <1>2, TailQueued DEF IInv, NoRequestLost, EndsFindTheirWorkflow
<1>4. RequestQueued(queue, r) /\ fate[r] = "posted"
  <2>1. 1 \in 1 .. Len(queue) /\ queue[1] = Head(queue)
    BY <1>0, TailFacts
  <2>2. RequestQueued(queue, r)
    BY <1>0, <2>1 DEF RequestQueued
  <2> QED
    BY <1>0, <1>1, <2>2 DEF IInv, NoRequestLost
<1>5. Start(r) \/ Answer(r, "ignored") \/ Answer(r, "refused") \/ Waits(r)
  BY RequestCases
<1>i. ASSUME NEW x \in Requests
      PROVE  /\ fate[x] = "waiting" <=> waiting = x
             /\ fate[x] = "started" <=> current = x
             /\ fate[x] = "posted" <=> RequestQueued(queue, x)
             /\ x # None
  BY <1>0, ConstantsAssumption DEF IInv, NoRequestLost
<1>f. \A f : \A x \in Requests :
        [fate EXCEPT ![r] = f][x] = IF x = r THEN f ELSE fate[x]
  BY DEF IInv, TypeOK
<1> HIDE DEF r, q
<1>6. CASE Start(r)
  <2>1. current = None /\ waiting = None /\ waiting' = None
    BY <1>6 DEF Start, canStartNewAction, IInv, WaitingIsNext
  <2>2. startNewWorkflow(r, q) /\ fate' = [fate EXCEPT ![r] = "started"]
    BY <1>6 DEF Start, q
  <2>3. ~Queued(q, OfWorkflow)
    BY <1>3, <2>1, WorkflowKinds DEF IInv, EndsFindTheirWorkflow
  <2>4. ASSUME NEW x \in Requests
        PROVE  /\ fate'[x] # "waiting"
               /\ fate'[x] = "started" <=> x = r
               /\ fate'[x] = "posted" <=> RequestQueued(q, x)
    BY <1>3, <1>i, <1>f, <2>1, <2>2
  <2> QED
    <3>1. closing' # "quit" /\ QueuedOnce(q)
      BY <1>0, <1>3
    <3> QED
      BY <1>1, <2>1, <2>2, <2>3, <2>4, <3>1, NewWorkflowStep
<1>7. CASE Answer(r, "ignored") \/ Answer(r, "refused")
  <2>1. PICK o \in {"ignored", "refused"} :
          queue' = q /\ fate' = [fate EXCEPT ![r] = o]
    BY <1>7 DEF Answer, q
  <2>2. UNCHANGED <<current, stage, waiting>>
    BY <1>7 DEF Answer
  <2>3. NoRequestLost'
    <3>1. ASSUME NEW x \in Requests
          PROVE  /\ fate'[x] = "waiting" <=> waiting' = x
                 /\ fate'[x] = "started" <=> current' = x
                 /\ fate'[x] = "posted" <=> RequestQueued(queue', x)
      BY <1>3, <1>4, <1>i, <1>f, <2>1, <2>2
    <3> QED
      BY <1>3, <2>1, <3>1 DEF NoRequestLost
  <2>4. EndsFindTheirWorkflow'
    BY <1>0, <1>3, <2>1, <2>2, WorkflowKinds DEF IInv, EndsFindTheirWorkflow
  <2>5. WaitingIsNext'
    BY <2>2 DEF IInv, WaitingIsNext
  <2> QED
    BY <1>0, <2>3, <2>4, <2>5 DEF LoopEnds
<1>8. CASE Waits(r)
  <2>1. /\ current # None /\ current' = current /\ waiting = None /\ waiting' = r
        /\ fate' = [fate EXCEPT ![r] = "waiting"]
    BY <1>8 DEF Waits
  <2>2. \/ queue' = q /\ stage' = stage
        \/ stage = "final" /\ stage' = "done" /\ queue' = Append(q, Event("finished", None))
    BY <1>8 DEF Waits, q
  <2>3. /\ QueuedOnce(queue')
        /\ \A x \in Requests : RequestQueued(queue', x) <=> RequestQueued(q, x)
        /\ EndsFindTheirWorkflow'
    <3>1. CASE queue' = q /\ stage' = stage
      BY <1>0, <1>3, <2>1, <3>1, WorkflowKinds DEF IInv, EndsFindTheirWorkflow
    <3>2. CASE stage = "final" /\ stage' = "done"
               /\ queue' = Append(q, Event("finished", None))
      <4> DEFINE e == Event("finished", None)
      <4>1. e \in Events /\ e.kind = "finished" /\ queue' = Append(q, e)
        BY <3>2, EventTypes DEF Kinds
      <4> HIDE DEF e
      <4>2. ~Queued(q, {"start"}) /\ ~Queued(q, {"finished", "complete"})
        BY <1>0, <1>3, <2>1, <3>2, WorkflowKinds DEF IInv, EndsFindTheirWorkflow
      <4>3. ~Queued(q, OfWorkflow)
        BY <4>2 DEF Queued, OfWorkflow
      <4>4. /\ QueuedOnce(queue') /\ OneOfWorkflow(queue')
            /\ \A x \in Requests : RequestQueued(queue', x) <=> RequestQueued(q, x)
            /\ ~Queued(queue', {"start"}) /\ Queued(queue', {"finished", "complete"})
        BY <1>1, <1>3, <4>1, <4>2, <4>3, AppendQueued
      <4> QED
        BY <2>1, <3>2, <4>4 DEF EndsFindTheirWorkflow
    <3> QED
      BY <2>2, <3>1, <3>2
  <2>4. NoRequestLost'
    <3>1. ASSUME NEW x \in Requests
          PROVE  /\ fate'[x] = "waiting" <=> waiting' = x
                 /\ fate'[x] = "started" <=> current' = x
                 /\ fate'[x] = "posted" <=> RequestQueued(queue', x)
      BY <1>3, <1>4, <1>i, <1>f, <2>1, <2>3
    <3> QED
      BY <2>3, <3>1 DEF NoRequestLost
  <2>5. WaitingIsNext'
    BY <1>8 DEF Waits, WaitingIsNext
  <2> QED
    BY <1>0, <2>3, <2>4, <2>5 DEF LoopEnds
<1> QED
  BY <1>5, <1>6, <1>7, <1>8

(* The queued start of the workflow is delivered: it is initial no more.   *)
LEMMA StartMachineStep ==
  ASSUME IInv, StartMachine
  PROVE  LoopEnds' /\ NoRequestLost' /\ EndsFindTheirWorkflow' /\ WaitingIsNext'
<1>0. /\ queue \in Seq(Events) /\ queue # <<>> /\ Head(queue).kind = "start"
      /\ queue' = Tail(queue) /\ stage = "initial" /\ stage' \in {"deaf", "running"}
      /\ closing # "quit"
      /\ UNCHANGED <<current, waiting, closing, fate>>
  BY DEF StartMachine, Delivered, W!Start, IInv, TypeOK, LoopEnds
<1>1. Head(queue).kind \in OfWorkflow /\ Head(queue).kind # "request"
  BY <1>0 DEF OfWorkflow
<1>2. /\ QueuedOnce(queue') /\ OneOfWorkflow(queue') /\ ~Queued(queue', OfWorkflow)
      /\ \A r \in Requests : RequestQueued(queue', r) <=> RequestQueued(queue, r)
  BY <1>0, <1>1, TailQueued DEF IInv, NoRequestLost, EndsFindTheirWorkflow
<1>3. ~Queued(queue', {"start"}) /\ ~Queued(queue', {"finished", "complete"})
  BY <1>2 DEF Queued, OfWorkflow
<1>4. NoRequestLost'
  BY <1>0, <1>2 DEF IInv, NoRequestLost
<1>5. EndsFindTheirWorkflow'
  BY <1>0, <1>2, <1>3 DEF EndsFindTheirWorkflow
<1>6. WaitingIsNext'
  BY <1>0 DEF IInv, WaitingIsNext
<1> QED
  BY <1>0, <1>4, <1>5, <1>6 DEF LoopEnds

(* The end of the machine becomes the end of its controller.               *)
LEMMA MachineFinishedStep ==
  ASSUME IInv, MachineFinished
  PROVE  LoopEnds' /\ NoRequestLost' /\ EndsFindTheirWorkflow' /\ WaitingIsNext'
<1> DEFINE q == Tail(queue)
           e == Event("complete", None)
<1>0. /\ queue \in Seq(Events) /\ queue # <<>> /\ Head(queue).kind = "finished"
      /\ queue' = Append(q, e) /\ closing # "quit"
      /\ UNCHANGED <<current, stage, waiting, closing, fate>>
  BY DEF MachineFinished, Delivered, workflow, IInv, TypeOK, LoopEnds
<1>1. q \in Seq(Events) /\ e \in Events /\ e.kind = "complete"
  BY <1>0, TailFacts, EventTypes DEF Kinds
<1>2. Head(queue).kind \in OfWorkflow /\ Head(queue).kind # "request"
  BY <1>0 DEF OfWorkflow
<1>3. /\ QueuedOnce(q) /\ OneOfWorkflow(q) /\ ~Queued(q, OfWorkflow)
      /\ \A r \in Requests : RequestQueued(q, r) <=> RequestQueued(queue, r)
      /\ Queued(queue, {"finished", "complete"}) /\ Queued(queue, OfWorkflow)
  BY <1>0, <1>2, TailQueued DEF IInv, NoRequestLost, EndsFindTheirWorkflow
<1>4. ~Queued(q, {"start"})
  BY <1>3 DEF Queued, OfWorkflow
<1>5. current # None /\ stage = "done"
  BY <1>0, <1>3 DEF IInv, EndsFindTheirWorkflow
<1> HIDE DEF q, e
<1>6. /\ QueuedOnce(queue') /\ OneOfWorkflow(queue')
      /\ \A r \in Requests : RequestQueued(queue', r) <=> RequestQueued(queue, r)
      /\ Queued(queue', {"finished", "complete"}) /\ ~Queued(queue', {"start"})
  BY <1>0, <1>1, <1>3, <1>4, AppendQueued
<1>7. NoRequestLost'
  BY <1>0, <1>6 DEF IInv, NoRequestLost
<1>8. EndsFindTheirWorkflow'
  BY <1>0, <1>5, <1>6 DEF EndsFindTheirWorkflow
<1>9. WaitingIsNext'
  BY <1>0 DEF IInv, WaitingIsNext
<1> QED
  BY <1>0, <1>7, <1>8, <1>9 DEF LoopEnds

(* The controller drops the workflow and starts the waiting request.       *)
LEMMA WorkflowFinishedStep ==
  ASSUME IInv, onWorkflowFinished
  PROVE  LoopEnds' /\ NoRequestLost' /\ EndsFindTheirWorkflow' /\ WaitingIsNext'
<1> DEFINE q == Tail(queue)
<1>0. /\ queue \in Seq(Events) /\ queue # <<>> /\ Head(queue).kind = "complete"
      /\ closing # "quit" /\ closing' # "quit" /\ waiting' = None
  BY DEF onWorkflowFinished, completeShutdown, Delivered, IInv, TypeOK, LoopEnds
<1>1. q \in Seq(Events) /\ Head(queue).kind \in OfWorkflow /\ Head(queue).kind # "request"
  BY <1>0, TailFacts DEF OfWorkflow
<1>2. /\ QueuedOnce(q) /\ OneOfWorkflow(q) /\ ~Queued(q, OfWorkflow)
      /\ \A r \in Requests : RequestQueued(q, r) <=> RequestQueued(queue, r)
      /\ Queued(queue, OfWorkflow)
  BY <1>0, <1>1, TailQueued DEF IInv, NoRequestLost, EndsFindTheirWorkflow
<1>3. current \in Requests
  BY <1>2 DEF IInv, EndsFindTheirWorkflow, TypeOK
<1>i. ASSUME NEW x \in Requests
      PROVE  /\ fate[x] = "waiting" <=> waiting = x
             /\ fate[x] = "started" <=> current = x
             /\ fate[x] = "posted" <=> RequestQueued(q, x)
             /\ x # None
  BY <1>0, <1>2, ConstantsAssumption DEF IInv, NoRequestLost
<1> HIDE DEF q
<1>4. CASE waiting = None
  <2>1. current' = None /\ queue' = q /\ fate' = [fate EXCEPT ![current] = "finished"]
    BY <1>4 DEF onWorkflowFinished, q
  <2>2. ASSUME NEW x \in Requests
        PROVE  /\ fate'[x] = "waiting" <=> waiting' = x
               /\ fate'[x] = "started" <=> current' = x
               /\ fate'[x] = "posted" <=> RequestQueued(queue', x)
    <3>1. fate'[x] = IF x = current THEN "finished" ELSE fate[x]
      BY <1>3, <2>1 DEF IInv, TypeOK
    <3> QED
      BY <1>0, <1>3, <1>4, <1>i, <2>1, <3>1
  <2>3. NoRequestLost'
    BY <1>2, <2>1, <2>2 DEF NoRequestLost
  <2>4. EndsFindTheirWorkflow'
    BY <1>2, <2>1 DEF EndsFindTheirWorkflow
  <2> QED
    BY <1>0, <2>3, <2>4 DEF WaitingIsNext, LoopEnds
<1>5. CASE waiting # None
  <2>1. /\ startNewWorkflow(waiting, q)
        /\ fate' = [fate EXCEPT ![current] = "finished", ![waiting] = "started"]
    BY <1>5 DEF onWorkflowFinished, q
  <2>2. waiting \in Requests
    BY <1>5 DEF IInv, TypeOK
  <2>3. ASSUME NEW x \in Requests
        PROVE  /\ fate'[x] # "waiting"
               /\ fate'[x] = "started" <=> x = waiting
               /\ fate'[x] = "posted" <=> RequestQueued(q, x)
    <3>1. waiting # current
      BY <1>3, <1>i, <2>2
    <3>2. fate'[x] = IF x = waiting THEN "started"
                       ELSE IF x = current THEN "finished" ELSE fate[x]
      BY <1>3, <2>1, <2>2, <3>1 DEF IInv, TypeOK
    <3> QED
      BY <1>3, <1>i, <2>2, <3>1, <3>2
  <2> QED
    BY <1>0, <1>1, <1>2, <2>1, <2>2, <2>3, NewWorkflowStep
<1> QED
  BY <1>4, <1>5

(* A shutdown that leaves the events q in the queue.                       *)
LEMMA ShutdownStep ==
  ASSUME IInv, NEW q, PlainRest(q), doShutdown(q), closing # "quit"
  PROVE  LoopEnds' /\ NoRequestLost' /\ EndsFindTheirWorkflow' /\ WaitingIsNext'
<1>1. CASE current = None
  <2>1. /\ queue' = q /\ closing' # "quit"
        /\ UNCHANGED <<current, workflow, waiting, fate>>
    BY <1>1 DEF doShutdown, completeShutdown, IInv, TypeOK
  <2> QED
    BY <2>1, PlainStep
<1>2. CASE current # None
  <2>1. /\ stage' = W!AfterKill /\ waiting' = None
        /\ queue' = IF stage = "final" THEN Append(q, Event("finished", None)) ELSE q
        /\ fate' = IF waiting = None THEN fate
                                     ELSE [fate EXCEPT ![waiting] = "dropped"]
        /\ UNCHANGED <<current, closing>>
    BY <1>2 DEF doShutdown, W!Kill
  <2>2. CASE stage = "final"
    <3>1. stage' = "done" /\ queue' = Append(q, Event("finished", None))
      BY <2>1, <2>2 DEF W!AfterKill
    <3> QED
      BY <1>2, <2>1, <2>2, <3>1, EndStep
  <2>3. CASE stage # "final"
    <3>1. /\ queue' = q
          /\ stage' = "initial" <=> stage = "initial"
          /\ stage' = "done" <=> stage = "done"
      BY <2>1, <2>3 DEF W!AfterKill
    <3>2. /\ QueuedOnce(q) /\ OneOfWorkflow(q)
          /\ \A r \in Requests : RequestQueued(q, r) <=> RequestQueued(queue, r)
          /\ \A K \in SUBSET OfWorkflow : Queued(q, K) <=> Queued(queue, K)
      BY PlainRestQueued DEF IInv, TypeOK, NoRequestLost, EndsFindTheirWorkflow
    <3>3. ASSUME NEW r \in Requests
          PROVE  /\ fate'[r] = "waiting" <=> waiting' = r
                 /\ fate'[r] = "started" <=> current' = r
                 /\ fate'[r] = "posted" <=> RequestQueued(queue', r)
      <4>1. /\ fate[r] = "waiting" <=> waiting = r
            /\ fate[r] = "started" <=> current = r
            /\ fate[r] = "posted" <=> RequestQueued(queue', r)
            /\ r # None
        BY <3>1, <3>2, ConstantsAssumption DEF IInv, NoRequestLost
      <4>2. fate'[r] = IF r = waiting THEN "dropped" ELSE fate[r]
        BY <2>1, <4>1 DEF IInv, TypeOK
      <4> QED
        BY <2>1, <4>1, <4>2
    <3>4. NoRequestLost'
      BY <3>1, <3>2, <3>3 DEF NoRequestLost
    <3>5. EndsFindTheirWorkflow'
      BY <1>2, <2>1, <3>1, <3>2, WorkflowKinds DEF IInv, EndsFindTheirWorkflow
    <3> QED
      BY <2>1, <3>4, <3>5 DEF WaitingIsNext, LoopEnds
  <2> QED
    BY <2>2, <2>3
<1> QED
  BY <1>1, <1>2

(* Once the main loop has ended nothing is delivered any more.             *)
LEMMA NothingDelivered ==
  ASSUME IInv, NEW k, Delivered(k)
  PROVE  closing # "quit"
  BY DEF Delivered, IInv, LoopEnds

(* No action breaks the order.                                             *)
LEMMA OrderStep ==
  ASSUME IInv, [Next]_vars
  PROVE  LoopEnds' /\ NoRequestLost' /\ EndsFindTheirWorkflow' /\ WaitingIsNext'
<1>r. PlainRest(queue)
  BY DEF PlainRest
<1>t. ASSUME NEW k \in {"restart", "uiShutdown", "quit"}, Delivered(k)
      PROVE  PlainRest(Tail(queue)) /\ closing # "quit"
  BY <1>t, NothingDelivered DEF PlainRest, Delivered, OfWorkflow
<1>c. closing \in {"open", "stopping", "uiGone", "quit"}
  BY DEF IInv, TypeOK
<1>1. CASE \E r \in Requests : PostRequest(r)
  BY <1>1, PostStep
<1>2. CASE HandleRequest
  BY <1>2, RequestStep
<1>3. CASE StartMachine
  BY <1>3, StartMachineStep
<1>4. CASE MachineFinished
  BY <1>4, MachineFinishedStep
<1>5. CASE onWorkflowFinished
  BY <1>5, WorkflowFinishedStep
<1>6. CASE onRestartApplicationRequested
  BY <1>6, <1>t, ShutdownStep DEF onRestartApplicationRequested
<1>7. CASE UILoaderShutdown
  <2>1. /\ queue' = Tail(queue) \/ queue' = Append(Tail(queue), Event("quit", None))
        /\ closing' = "uiGone"
        /\ UNCHANGED <<current, workflow, waiting, fate>>
        /\ Delivered("uiShutdown")
    BY <1>7 DEF UILoaderShutdown
  <2> QED
    BY <1>t, <2>1, PlainStep
<1>8. CASE onUILoaderShutdownComplete
  <2>1. /\ queue' = <<>> /\ closing' = "quit" /\ UNCHANGED <<current, waiting, stage, fate>>
        /\ \A i \in 1 .. Len(queue') : FALSE
    BY <1>8 DEF onUILoaderShutdownComplete, workflow
  <2>2. QueuedOnce(queue') /\ OneOfWorkflow(queue') /\ ~Queued(queue', OfWorkflow)
    BY <2>1 DEF QueuedOnce, OneOfWorkflow, Queued
  <2>3. NoRequestLost'
    BY <2>1, <2>2 DEF IInv, NoRequestLost
  <2>4. EndsFindTheirWorkflow'
    BY <2>1, <2>2 DEF EndsFindTheirWorkflow
  <2>5. WaitingIsNext'
    BY <2>1 DEF IInv, WaitingIsNext
  <2> QED
    BY <2>1, <2>3, <2>4, <2>5 DEF LoopEnds
<1>9. CASE ReachFinalState
  <2>1. /\ current # None /\ closing # "quit" /\ stage = "running"
        /\ UNCHANGED <<current, waiting, closing, fate>>
        /\ \/ stage' = "done" /\ queue' = Append(queue, Event("finished", None))
           \/ stage' = "final" /\ queue' = queue
    BY <1>9 DEF ReachFinalState, W!Finish
  <2>2. CASE stage' = "done" /\ queue' = Append(queue, Event("finished", None))
    BY <1>r, <2>1, <2>2, EndStep
  <2>3. CASE stage' = "final" /\ queue' = queue
    BY <2>1, <2>3, LifeStep
  <2> QED
    BY <2>1, <2>2, <2>3
<1>10. CASE LeaveFinalState
  <2>1. /\ current # None /\ closing # "quit" /\ stage = "final" /\ stage' = "done"
        /\ queue' = Append(queue, Event("finished", None))
        /\ UNCHANGED <<current, waiting, closing, fate>>
    BY <1>10 DEF LeaveFinalState, W!Leave
  <2> QED
    BY <1>r, <2>1, EndStep
<1>11. CASE CancelDeaf
  BY <1>11, LifeStep DEF CancelDeaf, W!Cancel
<1>12. CASE Quit
  BY <1>12, <1>r, ShutdownStep DEF Quit
<1>13. CASE PostRestart
  <2>1. /\ queue' = Append(queue, Event("restart", None)) /\ closing # "quit"
        /\ UNCHANGED <<current, workflow, waiting, closing, fate>>
    BY <1>13 DEF PostRestart
  <2> QED
    BY <1>r, <2>1, PlainStep
<1>14. CASE TimerDone
  <2>1. /\ queue' = Append(queue, Event("uiShutdown", None)) /\ closing # "quit"
        /\ UNCHANGED <<current, workflow, waiting, closing, fate>>
    BY <1>14 DEF TimerDone
  <2> QED
    BY <1>r, <2>1, PlainStep
<1>15. CASE onUiDominationRequested \/ onUiDominationRelease
  BY <1>15, LifeStep DEF onUiDominationRequested, onUiDominationRelease, workflow
<1>16. CASE Terminated \/ UNCHANGED vars
  BY <1>16, LifeStep DEF Terminated, vars
<1> QED
  BY <1>1, <1>2, <1>3, <1>4, <1>5, <1>6, <1>7, <1>8, <1>9, <1>10, <1>11, <1>12,
     <1>13, <1>14, <1>15, <1>16 DEF Next, Loop

(***************************************************************************)
(* The theorems.                                                           *)
(***************************************************************************)

(* The invariant holds in every state of every behaviour.                  *)
LEMMA Inductive == Spec => []IInv
<1>1. IInv /\ [Next]_vars => IInv'
  BY TypeStep, OrderStep DEF IInv
<1> QED
  BY <1>1, InitInv, PTL DEF Spec

(* However plug-ins, activation handlers and quits interleave, the one slot*)
(* of mWaitingRequest is never overwritten and no request is queued twice. *)
THEOREM RequestsKept == Spec => []NoRequestLost
  BY Inductive, PTL DEF IInv

(* onWorkflowFinished never finds mActiveController null, and the end of a *)
(* workflow is never taken for that of its successor.                      *)
THEOREM EndsMatched == Spec => []EndsFindTheirWorkflow
  BY Inductive, PTL DEF IInv

(* Whoever waits is served by the end of a workflow that is there.         *)
THEOREM WaitingServed == Spec => []WaitingIsNext
  BY Inductive, PTL DEF IInv
=============================================================================
