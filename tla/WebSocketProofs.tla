--------------------------- MODULE WebSocketProofs ---------------------------
(***************************************************************************)
(* What a client of the web socket may rely on, for any number of clients, *)
(* requests and browsers.                                                  *)
(***************************************************************************)
EXTENDS WebSocket, TLAPS

(* The main loop's events are those of the AppController and the handshake *)
(* of the web socket.                                                      *)
SocketEvents == App!Events \cup {App!Event("handshake", None)}

IsHandshake(e) == e.kind = "handshake"

HandshakeQueued(q) == \E i \in 1 .. Len(q) : IsHandshake(q[i])

OneHandshake(q) ==
  \A i, j \in 1 .. Len(q) : IsHandshake(q[i]) /\ IsHandshake(q[j]) => i = j

AppTypeOK ==
  /\ current \in Requests \cup {None} /\ waiting \in Requests \cup {None}
  /\ queue \in Seq(SocketEvents)

(* A handshake is that of the request that has taken the domination; until *)
(* it is read there is no connection and no workflow is followed.          *)
HandshakeIsAwaited ==
  /\ OneHandshake(queue)
  /\ HandshakeQueued(queue) => request # None /\ connection = None /\ context = None

(* What the dispatcher has recorded is what the workflow last said; a      *)
(* workflow asks only while it runs.                                       *)
LastIsTold ==
  /\ last = IF context # None THEN dialogue ELSE "INTERNAL_ERROR"
  /\ dialogue \in Questions => stage = "running"

(* The properties need each other: the connection that a handshake opens   *)
(* is not told of a workflow that is followed already.                     *)
IInv ==
  /\ TypeOK /\ AppTypeOK
  /\ DominationMatchesConnection /\ HandshakeIsAwaited
  /\ LastIsTold /\ ClientHearsItsOwn

(***************************************************************************)
(* The queue.                                                              *)
(***************************************************************************)

(* The events that are posted, and which of them is a handshake.           *)
LEMMA EventTypes ==
  /\ \A r \in Requests : /\ App!Event("request", r) \in SocketEvents
                         /\ ~IsHandshake(App!Event("request", r))
  /\ \A k \in {"start", "finished", "complete"} :
       /\ App!Event(k, None) \in SocketEvents
       /\ ~IsHandshake(App!Event(k, None))
  /\ App!Event("handshake", None) \in SocketEvents
  /\ IsHandshake(App!Event("handshake", None))
  BY DEF SocketEvents, App!Events, App!Event, IsHandshake

(* An appended event.                                                      *)
LEMMA Appended ==
  ASSUME NEW q \in Seq(SocketEvents), NEW e \in SocketEvents
  PROVE  /\ Append(q, e) \in Seq(SocketEvents)
         /\ HandshakeQueued(Append(q, e)) <=> HandshakeQueued(q) \/ IsHandshake(e)
         /\ OneHandshake(q) /\ ~(HandshakeQueued(q) /\ IsHandshake(e))
              => OneHandshake(Append(q, e))
<1>1. /\ Append(q, e) \in Seq(SocketEvents)
      /\ Len(q) \in Nat /\ Len(Append(q, e)) = Len(q) + 1
      /\ \A i \in 1 .. Len(q) : Append(q, e)[i] = q[i]
      /\ Append(q, e)[Len(q) + 1] = e
  OBVIOUS
<1>2. \A i : i \in 1 .. Len(q) + 1 <=> i \in 1 .. Len(q) \/ i = Len(q) + 1
  BY <1>1
<1> HIDE DEF IsHandshake
<1>3. HandshakeQueued(Append(q, e)) <=> HandshakeQueued(q) \/ IsHandshake(e)
  BY <1>1, <1>2 DEF HandshakeQueued
<1>4. ASSUME OneHandshake(q), ~(HandshakeQueued(q) /\ IsHandshake(e))
      PROVE  OneHandshake(Append(q, e))
  BY <1>1, <1>2, <1>4 DEF OneHandshake, HandshakeQueued
<1> QED
  BY <1>1, <1>3, <1>4

(* A delivered event.                                                      *)
LEMMA Removed ==
  ASSUME NEW q \in Seq(SocketEvents), q # <<>>
  PROVE  /\ Tail(q) \in Seq(SocketEvents) /\ Head(q) \in SocketEvents
         /\ HandshakeQueued(Tail(q)) => HandshakeQueued(q)
         /\ IsHandshake(Head(q)) => HandshakeQueued(q)
         /\ OneHandshake(q) =>
              /\ OneHandshake(Tail(q))
              /\ IsHandshake(Head(q)) => ~HandshakeQueued(Tail(q))
<1>1. /\ Tail(q) \in Seq(SocketEvents) /\ Head(q) \in SocketEvents
      /\ Len(q) \in Nat \ {0} /\ Len(Tail(q)) = Len(q) - 1
      /\ \A i \in 1 .. Len(q) - 1 : Tail(q)[i] = q[i + 1]
      /\ Head(q) = q[1]
  OBVIOUS
<1>2. /\ 1 \in 1 .. Len(q)
      /\ \A i \in 1 .. Len(q) - 1 : i + 1 \in 1 .. Len(q) /\ i + 1 # 1
      /\ \A i, j \in 1 .. Len(q) - 1 : i + 1 = j + 1 => i = j
  BY <1>1
<1>3. /\ HandshakeQueued(Tail(q)) => HandshakeQueued(q)
      /\ IsHandshake(Head(q)) => HandshakeQueued(q)
  BY <1>1, <1>2 DEF HandshakeQueued
<1>4. ASSUME OneHandshake(q) PROVE OneHandshake(Tail(q))
  BY <1>1, <1>2, <1>4 DEF OneHandshake
<1>5. ASSUME OneHandshake(q), IsHandshake(Head(q)) PROVE ~HandshakeQueued(Tail(q))
  BY <1>1, <1>2, <1>5 DEF OneHandshake, HandshakeQueued
<1> QED
  BY <1>1, <1>3, <1>4, <1>5

(***************************************************************************)
(* The steps.                                                              *)
(***************************************************************************)

(* What IInv says of the web socket and of the JSON interface; the rest of *)
(* it is about the main loop.                                              *)
SocketInv ==
  /\ TypeOK /\ DominationMatchesConnection /\ LastIsTold /\ ClientHearsItsOwn

LEMMA InitInv == Fresh => IInv
<1> SUFFICES ASSUME Fresh PROVE IInv
  OBVIOUS
<1>1. queue = <<>> /\ current = None /\ waiting = None /\ ~dominated
  BY DEF Fresh, App!Init
<1>2. HandshakeIsAwaited /\ AppTypeOK
  BY <1>1 DEF HandshakeIsAwaited, AppTypeOK, OneHandshake, HandshakeQueued
<1>3. TypeOK /\ LastIsTold
  BY DEF Fresh, Init, TypeOK, LastIsTold, StateMsgs, Questions
<1> QED
  BY <1>1, <1>2, <1>3
     DEF Fresh, Init, IInv, DominationMatchesConnection, ClientHearsItsOwn

(* A message of the workflow while it runs, or one that asks nothing.      *)
LEMMA Told ==
  ASSUME SocketInv, NEW type \in StateMsgs, onStateChanged(type),
         UNCHANGED <<current, dominated, socket, wsContext, master>>,
         cancelled' \in BOOLEAN,
         type \in Questions => stage' = "running"
  PROVE  SocketInv'
  BY DEF SocketInv, TypeOK, DominationMatchesConnection, LastIsTold,
         ClientHearsItsOwn, onStateChanged, socket, StateMsgs, Questions

(* A step that leaves the web socket and the workflow's words alone.       *)
LEMMA Untouched ==
  ASSUME SocketInv,
         UNCHANGED <<current, dominated, json, dialogue, socket, following>>,
         stage = "running" => stage' = "running"
  PROVE  SocketInv'
  BY DEF SocketInv, TypeOK, DominationMatchesConnection, LastIsTold,
         ClientHearsItsOwn, json, socket, following

(* The main loop's part, when a step posts no handshake and follows no new *)
(* workflow while one is awaited.                                          *)
LEMMA NoHandshakePosted ==
  ASSUME IInv, AppTypeOK', request' = request,
         connection' \in {connection, None},
         OneHandshake(queue'), HandshakeQueued(queue') => HandshakeQueued(queue),
         HandshakeQueued(queue) => context' = None
  PROVE  HandshakeIsAwaited'
  BY DEF IInv, HandshakeIsAwaited, OneHandshake, HandshakeQueued, IsHandshake

(* The queues that the steps of the main loop leave behind.                *)
LEMMA Queues ==
  ASSUME AppTypeOK, OneHandshake(queue),
         NEW e \in SocketEvents, ~IsHandshake(e)
  PROVE  /\ /\ Append(queue, e) \in Seq(SocketEvents)
            /\ OneHandshake(Append(queue, e))
            /\ HandshakeQueued(Append(queue, e)) => HandshakeQueued(queue)
         /\ queue # <<>> =>
              /\ Tail(queue) \in Seq(SocketEvents) /\ OneHandshake(Tail(queue))
              /\ HandshakeQueued(Tail(queue)) => HandshakeQueued(queue)
              /\ Append(Tail(queue), e) \in Seq(SocketEvents)
              /\ OneHandshake(Append(Tail(queue), e))
              /\ HandshakeQueued(Append(Tail(queue), e)) => HandshakeQueued(queue)
              /\ Head(queue).kind = "request" => Head(queue).req \in Requests
<1>1. queue \in Seq(SocketEvents)
  BY DEF AppTypeOK
<1>2. ASSUME queue # <<>>, Head(queue).kind = "request"
      PROVE  Head(queue).req \in Requests
  BY <1>1, <1>2, Removed DEF SocketEvents, App!Events, App!Event
<1>3. ASSUME queue # <<>>
      PROVE  /\ Tail(queue) \in Seq(SocketEvents) /\ OneHandshake(Tail(queue))
             /\ HandshakeQueued(Tail(queue)) => HandshakeQueued(queue)
  BY <1>1, <1>3, Removed
<1>4. ASSUME NEW q \in Seq(SocketEvents), OneHandshake(q)
      PROVE  /\ Append(q, e) \in Seq(SocketEvents) /\ OneHandshake(Append(q, e))
             /\ HandshakeQueued(Append(q, e)) => HandshakeQueued(q)
  BY <1>4, Appended
<1> QED
  BY <1>1, <1>2, <1>3, <1>4

(* A workflow starts, with or without a client.                            *)
LEMMA StartedKeeps ==
  ASSUME IInv, NEW w \in Requests, Started(w), current' = w,
         context = None, UNCHANGED <<dominated, enabled, socket>>
  PROVE  SocketInv'
  BY DEF IInv, SocketInv, TypeOK, DominationMatchesConnection, LastIsTold,
         ClientHearsItsOwn, Started, onWorkflowStarted, socket, StateMsgs,
         Questions

LEMMA HandleRequestKeeps ==
  ASSUME IInv, HandleRequest PROVE IInv'
<1> DEFINE r == Head(queue).req
<1>1. /\ queue # <<>> /\ Head(queue).kind = "request"
      /\ \/ App!onChangePinRequested(r) \/ App!onUiRequested(r)
         \/ App!onAuthenticationRequest(r)
      /\ IF current' # current THEN Started(current')
           ELSE UNCHANGED <<context, last, dialogue, following>>
      /\ UNCHANGED <<dominated, enabled, socket>>
  BY DEF HandleRequest, App!HandleRequest, App!Delivered
<1>2. AppTypeOK /\ HandshakeIsAwaited /\ SocketInv /\ r \in Requests
  BY <1>1, EventTypes, Queues DEF IInv, SocketInv, HandshakeIsAwaited
<1>3. CASE current = None /\ current' = r
           /\ queue' = Append(Tail(queue), App!Event("start", None))
           /\ waiting' = waiting
  <2>1. current' # current /\ context = None
    BY <1>2, <1>3, ClientAssumption DEF SocketInv, TypeOK
  <2>2. SocketInv'
    BY <1>1, <1>2, <1>3, <2>1, StartedKeeps
  <2>3. /\ AppTypeOK' /\ OneHandshake(queue')
        /\ HandshakeQueued(queue') => HandshakeQueued(queue)
    BY <1>1, <1>2, <1>3, EventTypes, Queues DEF AppTypeOK, HandshakeIsAwaited
  <2>4. HandshakeQueued(queue) => context' = None
    BY <1>1, <1>2, <2>1
       DEF HandshakeIsAwaited, SocketInv, DominationMatchesConnection, Started,
           onWorkflowStarted
  <2>5. HandshakeIsAwaited'
    BY <1>1, <2>3, <2>4, NoHandshakePosted DEF socket
  <2> QED
    BY <2>2, <2>3, <2>5 DEF IInv, SocketInv
<1>4. CASE /\ current' = current /\ waiting' \in {waiting, r}
           /\ stage = "running" => stage' = "running"
           /\ queue' \in {Tail(queue), Append(Tail(queue), App!Event("finished", None))}
  <2>1. SocketInv'
    BY <1>1, <1>2, <1>4, Untouched DEF json
  <2>2. /\ AppTypeOK' /\ OneHandshake(queue')
        /\ HandshakeQueued(queue') => HandshakeQueued(queue)
    BY <1>1, <1>2, <1>4, EventTypes, Queues DEF AppTypeOK, HandshakeIsAwaited
  <2>3. HandshakeIsAwaited'
    BY <1>1, <1>2, <1>4, <2>2, NoHandshakePosted DEF socket, HandshakeIsAwaited
  <2> QED
    BY <2>1, <2>2, <2>3 DEF IInv, SocketInv
<1> HIDE DEF r
<1>5. ASSUME App!Start(r)
      PROVE  current = None /\ current' = r /\ waiting' = waiting
             /\ queue' = Append(Tail(queue), App!Event("start", None))
  BY <1>5 DEF App!Start, App!startNewWorkflow, App!canStartNewAction
<1>6. ASSUME NEW outcome, App!Answer(r, outcome)
      PROVE  current' = current /\ waiting' = waiting /\ queue' = Tail(queue)
             /\ stage' = stage
  BY <1>6 DEF App!Answer
<1>7. CASE App!onChangePinRequested(r)
  BY <1>3, <1>4, <1>5, <1>6, <1>7 DEF App!onChangePinRequested
<1>8. CASE App!onUiRequested(r)
  BY <1>3, <1>4, <1>5, <1>6, <1>8 DEF App!onUiRequested
<1>9. CASE App!onAuthenticationRequest(r)
  BY <1>3, <1>4, <1>5, <1>6, <1>9
     DEF App!onAuthenticationRequest, App!W!Leave, App!workflow
<1> QED
  BY <1>1, <1>7, <1>8, <1>9

LEMMA onWorkflowFinishedKeeps ==
  ASSUME IInv, onWorkflowFinished PROVE IInv'
<1>1. /\ queue # <<>> /\ waiting' = None
      /\ IF waiting = None
           THEN current' = None /\ queue' = Tail(queue)
           ELSE /\ current' = waiting
                /\ queue' = Append(Tail(queue), App!Event("start", None))
      /\ IF waiting # None /\ enabled
           THEN context' = waiting /\ last' = "INTERNAL_ERROR"
           ELSE context' = None /\ last' = "INTERNAL_ERROR"
      /\ UNCHANGED <<dominated, enabled, socket>>
  BY DEF onWorkflowFinished, App!onWorkflowFinished, App!Delivered,
         App!startNewWorkflow, reset
<1>2. AppTypeOK /\ HandshakeIsAwaited
  BY DEF IInv
<1>3. SocketInv'
  <2>1. /\ wsContext' = IF dominated THEN waiting ELSE None
        /\ master' = IF waiting = None THEN None ELSE request
        /\ cancelled' = FALSE /\ dialogue' = "INTERNAL_ERROR"
    BY DEF onWorkflowFinished
  <2>2. TypeOK' /\ DominationMatchesConnection'
    BY <1>1, <1>2, <2>1
       DEF IInv, TypeOK, AppTypeOK, DominationMatchesConnection, socket, StateMsgs
  <2>3. LastIsTold'
    BY <1>1, <2>1 DEF LastIsTold, Questions
  <2>4. ClientHearsItsOwn'
    BY <1>1, <2>1 DEF IInv, ClientHearsItsOwn, DominationMatchesConnection, socket
  <2> QED
    BY <2>2, <2>3, <2>4 DEF SocketInv
<1>4. /\ AppTypeOK' /\ OneHandshake(queue')
      /\ HandshakeQueued(queue') => HandshakeQueued(queue)
  BY <1>1, <1>2, EventTypes, Queues DEF AppTypeOK, HandshakeIsAwaited
<1>5. HandshakeQueued(queue) => context' = None
  BY <1>1, <1>2 DEF IInv, HandshakeIsAwaited, DominationMatchesConnection
<1>6. HandshakeIsAwaited'
  BY <1>1, <1>4, <1>5, NoHandshakePosted DEF socket
<1> QED
  BY <1>3, <1>4, <1>6 DEF IInv, SocketInv

(* StartMachine, ReachFinalState, LeaveFinalState and MachineFinished leave*)
(* one of these queues behind.                                             *)
LEMMA LoopQueues ==
  ASSUME IInv, UNCHANGED <<current, waiting, context, socket>>,
         NEW e \in {App!Event(k, None) : k \in {"finished", "complete"}},
         \/ queue' \in {queue, Append(queue, e)}
         \/ queue # <<>> /\ queue' \in {Tail(queue), Append(Tail(queue), e)}
  PROVE  AppTypeOK' /\ HandshakeIsAwaited'
<1>1. AppTypeOK /\ HandshakeIsAwaited /\ e \in SocketEvents /\ ~IsHandshake(e)
  BY EventTypes DEF IInv
<1>2. /\ queue' \in Seq(SocketEvents) /\ OneHandshake(queue')
      /\ HandshakeQueued(queue') => HandshakeQueued(queue)
  BY <1>1, Queues DEF AppTypeOK, HandshakeIsAwaited
<1>3. AppTypeOK'
  BY <1>1, <1>2 DEF AppTypeOK
<1> QED
  BY <1>1, <1>2, <1>3, NoHandshakePosted DEF socket, HandshakeIsAwaited

LEMMA WorkflowKeeps ==
  ASSUME IInv,
         \/ StartMachine \/ ReachFinalState \/ LeaveFinalState \/ MachineFinished
  PROVE  IInv'
<1>0. SocketInv /\ "INTERNAL_ERROR" \in StateMsgs /\ "INTERNAL_ERROR" \notin Questions
  BY DEF IInv, SocketInv, StateMsgs, Questions
<1> DEFINE Event(k) == App!Event(k, None)
<1>q. ASSUME SocketInv', UNCHANGED <<current, waiting, context, socket>>,
             \/ queue' \in {queue, Append(queue, Event("finished"))}
             \/ queue # <<>> /\ queue' \in {Tail(queue), Append(Tail(queue), Event("complete"))}
      PROVE  IInv'
  <2>1. AppTypeOK' /\ HandshakeIsAwaited'
    BY <1>q, LoopQueues
  <2> QED
    BY <1>q, <2>1 DEF IInv, SocketInv
<1>1. CASE StartMachine
  <2>1. SocketInv'
    BY <1>0, <1>1, Told
       DEF StartMachine, App!StartMachine, following, IInv, TypeOK
  <2> QED
    BY <1>1, <1>q, <2>1
       DEF StartMachine, App!StartMachine, App!Delivered, onStateChanged
<1>2. CASE ReachFinalState
  <2>1. SocketInv'
    BY <1>0, <1>2, Told
       DEF ReachFinalState, App!ReachFinalState, following, IInv, TypeOK
  <2> QED
    BY <1>2, <1>q, <2>1 DEF ReachFinalState, App!ReachFinalState, onStateChanged
<1>3. CASE LeaveFinalState
  <2>1. SocketInv'
    BY <1>0, <1>3, Untouched
       DEF LeaveFinalState, App!LeaveFinalState, App!W!Leave
  <2> QED
    BY <1>3, <1>q, <2>1 DEF LeaveFinalState, App!LeaveFinalState, json
<1>4. CASE MachineFinished
  <2>1. SocketInv'
    BY <1>0, <1>4, Untouched
       DEF MachineFinished, App!MachineFinished, App!workflow
  <2> QED
    BY <1>4, <1>q, <2>1
       DEF MachineFinished, App!MachineFinished, App!Delivered, json
<1> QED
  BY <1>1, <1>2, <1>3, <1>4

(* A step that leaves the main loop alone and follows no workflow anew.    *)
LEMMA LoopUntouched ==
  ASSUME IInv, SocketInv', UNCHANGED app, request' = request,
         connection' \in {connection, None}, context' = context
  PROVE  IInv'
<1>1. AppTypeOK' /\ UNCHANGED queue
  BY DEF IInv, AppTypeOK, app
<1>2. HandshakeIsAwaited'
  BY <1>1 DEF IInv, HandshakeIsAwaited
<1> QED
  BY <1>1, <1>2 DEF IInv, SocketInv

(* The states of the running workflow, and a cancel of it.                 *)
LEMMA StatesKeep ==
  ASSUME IInv,
         \/ NextState \/ CancelCommand
         \/ \E cmd \in DOMAIN Needs : Answer(cmd)
  PROVE  IInv'
<1>0. SocketInv
  BY DEF IInv, SocketInv
<1>1. ASSUME stage = "running", GoOn PROVE IInv'
  <2>1. PICK type \in StateMsgs : onStateChanged(type)
    BY <1>1 DEF GoOn, StateMsgs
  <2>2. UNCHANGED <<app, socket, following>>
    BY <1>1 DEF GoOn
  <2>3. SocketInv'
    BY <1>0, <1>1, <2>1, <2>2, Told DEF app, following, SocketInv, TypeOK
  <2> QED
    BY <2>1, <2>2, <2>3, LoopUntouched DEF onStateChanged, socket
<1>2. CASE NextState
  BY <1>1, <1>2 DEF NextState
<1>3. ASSUME NEW cmd \in DOMAIN Needs, Answer(cmd) PROVE IInv'
  <2>1. CASE UNCHANGED vars
    <3>1. SocketInv'
      BY <1>0, <2>1, Untouched DEF vars, app, json
    <3> QED
      BY <2>1, <3>1, LoopUntouched DEF vars, socket, json
  <2> QED
    BY <1>1, <1>3, <2>1 DEF Answer
<1>4. CASE CancelCommand
  <2>1. UNCHANGED <<app, socket, wsContext, master>> /\ Cancelled
    BY <1>4 DEF CancelCommand
  <2>2. CASE stage = "running"
    <3>1. onStateChanged("INTERNAL_ERROR") /\ cancelled' = TRUE
      BY <2>1, <2>2 DEF Cancelled
    <3>2. "INTERNAL_ERROR" \in StateMsgs /\ "INTERNAL_ERROR" \notin Questions
      BY DEF StateMsgs, Questions
    <3>3. SocketInv'
      BY <1>0, <2>1, <3>1, <3>2, Told DEF app
    <3> QED
      BY <2>1, <3>1, <3>3, LoopUntouched DEF onStateChanged, socket
  <2>3. CASE stage # "running"
    <3>1. UNCHANGED <<json, dialogue, following>>
      BY <2>1, <2>3 DEF Cancelled, following
    <3>2. SocketInv'
      BY <1>0, <2>1, <3>1, Untouched DEF app
    <3> QED
      BY <2>1, <3>1, <3>2, LoopUntouched DEF json, socket
  <2> QED
    BY <2>2, <2>3
<1> QED
  BY <1>2, <1>3, <1>4

(* A request is posted to the main loop.                                   *)
LEMMA RunKeeps ==
  ASSUME IInv, NEW r \in Requests, Run(r) PROVE IInv'
<1>1. /\ queue' = Append(queue, App!Event("request", r))
      /\ UNCHANGED <<current, stage, waiting, dominated, json, dialogue, socket,
                     following>>
  BY DEF Run, App!PostRequest
<1>2. AppTypeOK /\ HandshakeIsAwaited /\ SocketInv
  BY DEF IInv, SocketInv
<1>3. SocketInv'
  BY <1>1, <1>2, Untouched
<1>4. /\ queue' \in Seq(SocketEvents) /\ OneHandshake(queue')
      /\ HandshakeQueued(queue') => HandshakeQueued(queue)
  BY <1>1, <1>2, EventTypes, Queues DEF HandshakeIsAwaited
<1>5. AppTypeOK'
  BY <1>1, <1>2, <1>4 DEF AppTypeOK
<1>6. HandshakeIsAwaited'
  BY <1>1, <1>2, <1>4, <1>5, NoHandshakePosted
     DEF socket, json, HandshakeIsAwaited
<1> QED
  BY <1>3, <1>5, <1>6 DEF IInv, SocketInv

(* A client knocks: it takes the domination when nothing runs.             *)
LEMMA onNewWebSocketRequestKeeps ==
  ASSUME IInv, NEW c \in Clients, onNewWebSocketRequest(c) PROVE IInv'
<1>0. AppTypeOK /\ HandshakeIsAwaited /\ SocketInv
  BY DEF IInv, SocketInv
<1>1. CASE /\ client' = [client EXCEPT ![c] = "refused"]
           /\ UNCHANGED <<request, dominated, queue>>
  <2>1. UNCHANGED <<current, waiting, stage, json, dialogue, connection, following>>
    BY DEF onNewWebSocketRequest
  <2>2. SocketInv'
    BY <1>0, <1>1, <2>1
       DEF SocketInv, TypeOK, DominationMatchesConnection, LastIsTold,
           ClientHearsItsOwn, json, following
  <2> QED
    BY <1>0, <1>1, <2>1, <2>2
       DEF IInv, SocketInv, AppTypeOK, HandshakeIsAwaited, json
<1>2. CASE /\ ~(request # None \/ dominated \/ current # None)
           /\ client' = [client EXCEPT ![c] = "upgrading"]
           /\ request' = c /\ dominated' = TRUE
           /\ queue' = Append(queue, App!Event("handshake", None))
  <2>1. UNCHANGED <<current, waiting, stage, json, dialogue, connection, following>>
    BY DEF onNewWebSocketRequest
  <2>2. c # None /\ connection = None /\ context = None /\ ~HandshakeQueued(queue)
    BY <1>0, <1>2, ClientAssumption
       DEF SocketInv, TypeOK, DominationMatchesConnection, HandshakeIsAwaited
  <2>3. SocketInv'
    BY <1>0, <1>2, <2>1, <2>2
       DEF SocketInv, TypeOK, DominationMatchesConnection, LastIsTold,
           ClientHearsItsOwn, json, following
  <2>4. queue' \in Seq(SocketEvents) /\ OneHandshake(queue')
    BY <1>0, <1>2, <2>2, EventTypes, Appended DEF AppTypeOK, HandshakeIsAwaited
  <2> QED
    BY <1>0, <1>2, <2>1, <2>2, <2>3, <2>4
       DEF IInv, SocketInv, AppTypeOK, HandshakeIsAwaited, json
<1> QED
  BY <1>1, <1>2 DEF onNewWebSocketRequest

(* The handshake is read, once, for the client that waits for it.          *)
LEMMA HandshakeKeeps ==
  ASSUME IInv, Handshake PROVE IInv'
<1>1. AppTypeOK /\ HandshakeIsAwaited /\ SocketInv
  BY DEF IInv, SocketInv
<1>2. /\ queue # <<>> /\ IsHandshake(Head(queue)) /\ queue' = Tail(queue)
      /\ UNCHANGED <<current, stage, waiting, dominated, context, last, dialogue,
                     request, following>>
  BY DEF Handshake, App!Delivered, IsHandshake
<1>3. /\ queue' \in Seq(SocketEvents) /\ OneHandshake(queue')
      /\ HandshakeQueued(queue) /\ ~HandshakeQueued(queue')
  BY <1>1, <1>2, Removed DEF AppTypeOK, HandshakeIsAwaited
<1>4. request \in Clients /\ connection = None /\ context = None
  BY <1>1, <1>3 DEF HandshakeIsAwaited, SocketInv, TypeOK
<1>a. \/ connection' = request /\ enabled' = TRUE
      \/ UNCHANGED <<connection, enabled>>
  BY DEF Handshake
<1>b. \E outcome \in {"connected", "failed"} :
        client' = [client EXCEPT ![request] = outcome]
  BY DEF Handshake
<1>5. SocketInv'
  <2>1. client' \in [Clients -> {"new", "refused", "upgrading", "connected",
                                 "failed", "gone"}]
    BY <1>1, <1>b DEF SocketInv, TypeOK
  <2>2. TypeOK'
    BY <1>1, <1>2, <1>4, <1>a, <2>1 DEF SocketInv, TypeOK, following
  <2>3. DominationMatchesConnection'
    BY <1>1, <1>2, <1>4, <1>a, ClientAssumption
       DEF SocketInv, DominationMatchesConnection
  <2>4. LastIsTold' /\ ClientHearsItsOwn'
    BY <1>1, <1>2, <1>4 DEF SocketInv, LastIsTold, ClientHearsItsOwn
  <2> QED
    BY <2>2, <2>3, <2>4 DEF SocketInv
<1> QED
  BY <1>1, <1>2, <1>3, <1>5 DEF IInv, SocketInv, AppTypeOK, HandshakeIsAwaited

(* A client vanishes: what it has left behind is followed, not heard.      *)
LEMMA onClientDisconnectedKeeps ==
  ASSUME IInv, onClientDisconnected PROVE IInv'
<1>1. AppTypeOK /\ HandshakeIsAwaited /\ SocketInv
  BY DEF IInv, SocketInv
<1>2. /\ connection # None /\ client' = [client EXCEPT ![connection] = "gone"]
      /\ dialogue' \in {dialogue, "INTERNAL_ERROR"} /\ cancelled' \in BOOLEAN
      /\ last' = IF context # None THEN dialogue' ELSE last
      /\ enabled' = FALSE /\ connection' = None /\ request' = None
      /\ dominated' = FALSE
      /\ UNCHANGED <<current, stage, waiting, queue, context, wsContext, master>>
  BY <1>1 DEF onClientDisconnected, SocketInv, TypeOK
<1>3. ~HandshakeQueued(queue)
  BY <1>1, <1>2 DEF HandshakeIsAwaited
<1>4. SocketInv'
  BY <1>1, <1>2
     DEF SocketInv, TypeOK, DominationMatchesConnection, LastIsTold,
         ClientHearsItsOwn, StateMsgs, Questions
<1> QED
  BY <1>1, <1>2, <1>3, <1>4 DEF IInv, SocketInv, AppTypeOK, HandshakeIsAwaited

LEMMA StepKeeps == IInv /\ [Next]_vars => IInv'
<1>1. ASSUME IInv, UNCHANGED vars PROVE IInv'
  <2>1. SocketInv
    BY <1>1 DEF IInv, SocketInv
  <2>2. SocketInv'
    BY <1>1, <2>1, Untouched DEF vars, app, json
  <2> QED
    BY <1>1, <2>2, LoopUntouched DEF vars, socket, json
<1> QED
  BY <1>1, HandleRequestKeeps, onWorkflowFinishedKeeps, WorkflowKeeps,
     StatesKeep, RunKeeps, onNewWebSocketRequestKeeps, HandshakeKeeps,
     onClientDisconnectedKeeps DEF Next, Loop

(***************************************************************************)
(* The theorems.                                                           *)
(***************************************************************************)

(* The web socket and the JSON interface keep their types; the dispatcher  *)
(* follows the active workflow or none.                                    *)
THEOREM Invariant == Spec => []IInv
<1>1. Fresh => IInv
  BY InitInv
<1>2. IInv /\ [Next]_vars => IInv'
  BY StepKeeps
<1> QED
  BY <1>1, <1>2, PTL DEF Spec

(* A command that answers a question finds the workflow in the state that  *)
(* asks it (MessageDispatcher::handleCurrentState).                        *)
THEOREM CommandsMeet == Spec => []CommandsMeetTheirState
<1>1. IInv => CommandsMeetTheirState
  BY DEF IInv, CommandsMeetTheirState, Accepted, Needs, LastIsTold, TypeOK,
         Questions
<1> QED
  BY <1>1, Invariant, PTL

(* A client follows and commands only workflows of its own domination      *)
(* (UIPlugInWebSocket::onWorkflowStarted and onNewConnection).             *)
THEOREM HearsItsOwn == Spec => []ClientHearsItsOwn
<1>1. IInv => ClientHearsItsOwn
  BY DEF IInv
<1> QED
  BY <1>1, Invariant, PTL

(* The domination, the plug-in's request and connection and the enabled    *)
(* JSON interface agree.                                                   *)
THEOREM DominationMatches == Spec => []DominationMatchesConnection
<1>1. IInv => DominationMatchesConnection
  BY DEF IInv
<1> QED
  BY <1>1, Invariant, PTL
=============================================================================
