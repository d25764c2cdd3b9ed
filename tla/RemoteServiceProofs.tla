------------------------- MODULE RemoteServiceProofs -------------------------
(***************************************************************************)
(* The remote reader protocol at both ends.  The phone: whoever the user   *)
(* is asked for is the client that is connected, what is typed never       *)
(* reaches the next client, and answers go to who asked and are taken for  *)
(* the request they answer.  The device that uses it: a reader on its list *)
(* is watched.  For any number of clients, requests, cards and attempts.   *)
(***************************************************************************)
EXTENDS RemoteCard, RemoteClient, WellFoundedInduction, TLAPS

(* The requests of the connection h, and what is reported of requests.     *)
Mine(f, h) == {m \in [kind : Kinds, id : 1..Len(f)] : f[m.id] = h}

OfRequest == {"Connected", "Transmitted"}
OfState == {"Changed", "Counter", "PaceDone", "PaceWrong", "PinChanged"}
Reports(f) ==
  [op : OfRequest, id : 1..Len(f), ok : BOOLEAN]
    \cup [op : OfState, id : {None}, ok : BOOLEAN]

Contexts == [pace : Nat, modify : Nat, connection : BOOLEAN,
             pin : Pins, newPin : Pins]
Views == [dialog : Dialogs, asked : 1..MaxConnections]

Network ==
  /\ connections \in 0..MaxConnections /\ handler \in {None, connections}
  /\ from \in Seq(1..MaxConnections)
  /\ toServer \in Seq(Mine(from, handler)) /\ toClient \in Seq(Mine(from, handler))
  /\ posted \in Seq(Reports(from))

Workflow ==
  /\ state \in Live \cup {"Final", "Crashed"}
  /\ ctx \in Contexts
  /\ views \in Seq(Views)

(* The messages in the context are the present client's.                   *)
Asked(id) == id # None => handler # None /\ id \in 1..Len(from) /\ from[id] = handler
ContextOfClient == state # "Final" => Asked(ctx.pace) /\ Asked(ctx.modify)

(* A workflow that will ask or answer has its message.                     *)
HasMessage ==
  /\ state = "EnterPacePassword" => ctx.pace # None
  /\ state = "EnterNewPacePin" => ctx.modify # None
  /\ state \in PaceStates /\ ctx.connection => ctx.pace # None

(* What was typed without a client is gone when the next one comes.        *)
Typed(p) == p # NoPin => p.typed = handler
TypedForClient ==
  handler # None /\ state # "Crashed" => Typed(ctx.pin) /\ Typed(ctx.newPin)
NothingBefore == connections = 0 => ctx = NoContext /\ views = <<>>

IInv ==
  Network /\ Workflow /\ ContextOfClient /\ HasMessage /\ TypedForClient /\ NothingBefore

(***************************************************************************)
(* Lemmas on sequences.                                                    *)
(***************************************************************************)

(* What the queues' operations leave is made of the same elements.         *)
LEMMA Queues ==
  ASSUME NEW S, NEW s \in Seq(S)
  PROVE  /\ \A e \in S : Append(s, e) \in Seq(S)
         /\ s # <<>> => /\ Head(s) \in S /\ Tail(s) \in Seq(S)
                        /\ Last(s) \in S /\ Front(s) \in Seq(S)
         /\ \A i \in 1..Len(s) : RemoveAt(s, i) \in Seq(S)
         /\ <<>> \in Seq(S)
PROOF
  <1>1. s # <<>> => /\ Head(s) \in S /\ Tail(s) \in Seq(S)
                    /\ Last(s) \in S /\ Front(s) \in Seq(S)
    BY DEF Last, Front
  <1>2. ASSUME NEW i \in 1..Len(s)
        PROVE  RemoveAt(s, i) \in Seq(S)
    BY DEF RemoveAt
  <1>3. QED
    BY <1>1, <1>2

(* A sequence over a set is one over a larger set.                         *)
LEMMA Larger ==
  ASSUME NEW S, NEW T, S \subseteq T, NEW s \in Seq(S)
  PROVE  s \in Seq(T)
OBVIOUS

(* One more request leaves those that were sent as they are.               *)
LEMMA OneMore ==
  ASSUME NEW f \in Seq(1..MaxConnections), NEW c \in 1..MaxConnections
  PROVE  LET g == Append(f, c)
         IN /\ g \in Seq(1..MaxConnections) /\ Len(g) = Len(f) + 1 /\ g[Len(g)] = c
            /\ \A i \in 1..Len(f) : i \in 1..Len(g) /\ g[i] = f[i]
            /\ \A h : Mine(f, h) \subseteq Mine(g, h)
            /\ Reports(f) \subseteq Reports(g)
PROOF
  <1> DEFINE g == Append(f, c)
  <1>1. /\ g \in Seq(1..MaxConnections) /\ Len(g) = Len(f) + 1 /\ g[Len(g)] = c
        /\ Len(f) \in Nat
        /\ \A i \in 1..Len(f) : i \in 1..Len(g) /\ g[i] = f[i]
    OBVIOUS
  <1> HIDE DEF g
  <1>2. \A h : Mine(f, h) \subseteq Mine(g, h)
    BY <1>1 DEF Mine
  <1>3. Reports(f) \subseteq Reports(g)
    BY <1>1 DEF Reports
  <1>4. QED
    BY <1>1, <1>2, <1>3 DEF g

(* What the queues hold and take.                                          *)
LEMMA Elements ==
  ASSUME Network
  PROVE  LET M == Mine(from, handler)
             P == Reports(from)
         IN /\ \A m \in M : m.id \in 1..Len(from) /\ from[m.id] = handler /\ m.kind \in Kinds
            /\ \A id \in 1..Len(from), k \in Kinds :
                 from[id] = handler => [kind |-> k, id |-> id] \in M
            /\ \A m \in M : Append(toClient, m) \in Seq(M) /\ Append(toServer, m) \in Seq(M)
            /\ toServer # <<>> => Head(toServer) \in M /\ Tail(toServer) \in Seq(M)
            /\ toClient # <<>> => Head(toClient) \in M /\ Tail(toClient) \in Seq(M)
            /\ <<>> \in Seq(M)
PROOF
  <1> DEFINE M == Mine(from, handler)
  <1>1. toServer \in Seq(M) /\ toClient \in Seq(M)
    BY DEF Network
  <1>2. /\ \A m \in M : m.id \in 1..Len(from) /\ from[m.id] = handler /\ m.kind \in Kinds
        /\ \A id \in 1..Len(from), k \in Kinds :
             from[id] = handler => [kind |-> k, id |-> id] \in M
    BY DEF Mine
  <1>3. QED
    BY <1>1, <1>2, Queues

LEMMA Posting ==
  ASSUME Network
  PROVE  LET P == Reports(from)
         IN /\ \A op \in OfRequest, id \in 1..Len(from), ok \in BOOLEAN :
                 Report(op, id, ok) \in P
            /\ \A op \in OfState, ok \in BOOLEAN : Report(op, None, ok) \in P
            /\ \A p \in P : p.ok \in BOOLEAN /\ (p.op \in OfRequest => p.id \in 1..Len(from))
            /\ \A p \in P : Append(posted, p) \in Seq(P)
            /\ posted # <<>> => /\ Head(posted) \in P /\ Tail(posted) \in Seq(P)
                                /\ \A p \in P : Append(Tail(posted), p) \in Seq(P)
            /\ Unheard \in Seq(P)
PROOF
  <1> DEFINE P == Reports(from)
  <1>1. posted \in Seq(P)
    BY DEF Network
  <1>2. /\ \A op \in OfRequest, id \in 1..Len(from), ok \in BOOLEAN :
             Report(op, id, ok) \in P
        /\ \A op \in OfState, ok \in BOOLEAN : Report(op, None, ok) \in P
        /\ \A p \in P : p.ok \in BOOLEAN /\ (p.op \in OfRequest => p.id \in 1..Len(from))
    BY DEF Reports, Report, OfRequest, OfState
  <1> HIDE DEF P
  <1>3. Unheard \in Seq(P)
    <2> DEFINE own == {i \in DOMAIN posted : ForState(posted[i])}
    <2>1. CASE own = {}
      BY <1>1, <2>1 DEF Unheard
    <2>2. CASE own # {}
      <3> DEFINE i == CHOOSE j \in own : TRUE
      <3>1. i \in 1..Len(posted)
        BY <1>1, <2>2
      <3>2. Unheard = RemoveAt(posted, i)
        BY <2>2 DEF Unheard
      <3> HIDE DEF i
      <3>3. QED
        BY <1>1, <3>1, <3>2, Queues
    <2>3. QED
      BY <2>1, <2>2
  <1>4. QED
    BY <1>1, <1>2, <1>3, Queues DEF P

(* No password and no message is left in the context that is reset.        *)
LEMMA ResetContext ==
  /\ NoContext \in Contexts /\ NoPin \in Pins /\ None \in Nat
  /\ NoContext.pace = None /\ NoContext.modify = None /\ ~NoContext.connection
  /\ NoContext.pin = NoPin /\ NoContext.newPin = NoPin
  /\ \A c \in Contexts :
       /\ onResetMessageHandler(c) = NoContext
       /\ resetPacePasswords(c) \in Contexts
       /\ resetPacePasswords(c).pace = c.pace /\ resetPacePasswords(c).modify = c.modify
       /\ resetPacePasswords(c).connection = c.connection
       /\ resetPacePasswords(c).pin = NoPin /\ resetPacePasswords(c).newPin = NoPin
PROOF
  <1>1. NoPin \in Pins
    BY RemoteAssumption DEF Pins, NoPin, None
  <1>2. ASSUME NEW c \in Contexts
        PROVE  /\ resetPacePasswords(c) \in Contexts
               /\ resetPacePasswords(c).pace = c.pace
               /\ resetPacePasswords(c).modify = c.modify
               /\ resetPacePasswords(c).connection = c.connection
               /\ resetPacePasswords(c).pin = NoPin
               /\ resetPacePasswords(c).newPin = NoPin
    BY <1>1 DEF Contexts, resetPacePasswords
  <1>3. QED
    BY <1>1, <1>2 DEF NoContext, Contexts, None, onResetMessageHandler

(* Without a client nothing is under way.                                  *)
LEMMA NobodyAsked == Network /\ handler = None => toServer = <<>> /\ toClient = <<>>
PROOF
  <1> SUFFICES ASSUME Network, handler = None
               PROVE  toServer = <<>> /\ toClient = <<>>
    OBVIOUS
  <1>1. ASSUME NEW m \in Mine(from, handler)
        PROVE  FALSE
    <2>1. m.id \in 1..Len(from) /\ from[m.id] = 0
      BY Elements DEF None
    <2>2. from \in Seq(1..MaxConnections) /\ MaxConnections \in Nat
      BY RemoteAssumption DEF Network
    <2>3. \A i \in 1..Len(from) : from[i] # 0
      BY <2>2
    <2>4. QED
      BY <2>1, <2>3
  <1>2. QED
    BY <1>1 DEF Network

(***************************************************************************)
(* The steps.                                                              *)
(***************************************************************************)
LEMMA Initially == RInit => IInv
PROOF
  <1> SUFFICES ASSUME RInit PROVE IInv
    OBVIOUS
  <1>1. Network
    BY RemoteAssumption DEF RInit, Init, Network, None
  <1>2. Workflow
    BY ResetContext DEF RInit, Init, Workflow, Live
  <1>3. ContextOfClient /\ HasMessage /\ TypedForClient /\ NothingBefore
    BY ResetContext DEF RInit, Init, ContextOfClient, Asked, HasMessage, TypedForClient,
       Typed, NothingBefore, PaceStates
  <1>4. QED
    BY <1>1, <1>2, <1>3 DEF IInv

(* A client comes: what the last one left is gone.                         *)
LEMMA ClientComes == ASSUME IInv, onWebsocketConnection PROVE IInv'
PROOF
  <1> USE DEF IInv
  <1>1. /\ connections' = connections + 1 /\ handler' = connections' /\ handler = None
        /\ connections \in Nat /\ connections' \in 0..MaxConnections /\ connections' # 0
    BY RemoteAssumption DEF onWebsocketConnection, Network
  <1>2. ctx' = NoContext
    BY ResetContext DEF onWebsocketConnection, Workflow, NothingBefore
  <1>3. toServer = <<>> /\ toClient = <<>>
    BY <1>1, NobodyAsked
  <1>4. Network'
    BY <1>1, <1>3, Elements DEF onWebsocketConnection, Network
  <1>5. Workflow'
    BY <1>2, ResetContext DEF onWebsocketConnection, Workflow
  <1>6. (ContextOfClient /\ HasMessage /\ TypedForClient /\ NothingBefore)'
    BY <1>1, <1>2, ResetContext DEF onWebsocketConnection, ContextOfClient, Asked, HasMessage,
       TypedForClient, Typed, NothingBefore, Dialogs
  <1>7. QED
    BY <1>4, <1>5, <1>6

(* A connection goes: its messages and the context go with it.             *)
LEMMA ClientGoes == ASSUME IInv, onConnectionClosed PROVE IInv'
PROOF
  <1> USE DEF IInv
  <1>1. /\ handler' = None /\ toServer' = <<>> /\ toClient' = <<>>
        /\ UNCHANGED <<connections, from, posted, views>>
        /\ ctx' = NoContext
    BY ResetContext DEF onConnectionClosed, LinkDown, Workflow
  <1>2. state' \in Live /\ state' \notin Dialogs
    BY DEF onConnectionClosed, Live, Dialogs
  <1>3. Network'
    BY <1>1, Queues DEF Network
  <1>4. Workflow'
    BY <1>1, <1>2, ResetContext DEF Workflow
  <1>5. (ContextOfClient /\ HasMessage /\ TypedForClient /\ NothingBefore)'
    BY <1>1, <1>2, ResetContext DEF ContextOfClient, Asked, HasMessage,
       TypedForClient, Typed, NothingBefore, Dialogs
  <1>6. QED
    BY <1>3, <1>4, <1>5

(* An answer, a reset or the failed assertion; the workflow is over.       *)
LEMMA Responding ==
  ASSUME IInv, NEW kind \in {"ModifyPIN", "EstablishPACEChannel"}, NEW clear \in BOOLEAN,
         NEW c \in Contexts, Respond(kind, c, clear),
         c.pace = ctx.pace, c.modify = ctx.modify, c.pin = ctx.pin, c.newPin = ctx.newPin,
         connections = 0 => c = NoContext,
         state \in Live, UNCHANGED <<handler, connections, from, toServer>>,
         posted' \in Seq(Reports(from))
  PROVE  IInv'
PROOF
  <1> USE DEF IInv
  <1> DEFINE id == IF kind = "ModifyPIN" THEN c.modify ELSE c.pace
  <1>1. UNCHANGED views /\ (id # None => id \in 1..Len(from) /\ from[id] = handler)
    BY DEF Respond, ContextOfClient, Asked, Live, PaceStates, ModifyStates
  <1>2. Network'
    <2>1. toClient' \in Seq(Mine(from, handler))
      <3>1. CASE id # None
        <4>1. [kind |-> kind, id |-> id] \in Mine(from, handler)
          BY <1>1, <3>1, Elements DEF Kinds
        <4>2. QED
          BY <4>1, Elements DEF Respond, Answer, Network
      <3>2. CASE id = None
        BY <3>2 DEF Respond, Network
      <3>3. QED
        BY <3>1, <3>2
    <2>2. QED
      BY <2>1 DEF Network
  <1>3. ctx' \in {NoContext, c, resetPacePasswords(c)} /\ state' \in {"Process", "Crashed"}
    BY ResetContext DEF Respond
  <1>4. Workflow'
    BY <1>1, <1>3, ResetContext DEF Workflow, Live
  <1>5. (ContextOfClient /\ TypedForClient)'
    BY <1>1, <1>3, ResetContext DEF ContextOfClient, Asked, TypedForClient, Typed, Respond,
       Live, PaceStates, ModifyStates
  <1>6. HasMessage'
    BY <1>3 DEF HasMessage, PaceStates
  <1>7. NothingBefore'
    <2>1. connections = 0 => handler = None
      BY DEF Network, None
    <2>2. QED
      BY <1>1, <2>1, ResetContext DEF NothingBefore, Respond
  <1>8. QED
    BY <1>2, <1>4, <1>5, <1>6, <1>7

(* The user stops the service or its workflow.                             *)
LEMMA UserCancels == ASSUME IInv, onUserCancelled PROVE IInv'
PROOF
  <1> USE DEF IInv
  <1>1. CASE state = "Process" /\ LinkDown /\ state' = "Final" /\ UNCHANGED ctx
    <2>1. Network'
      BY <1>1, Queues DEF Network, LinkDown
    <2>2. (Workflow /\ ContextOfClient /\ HasMessage /\ TypedForClient /\ NothingBefore)'
      BY <1>1 DEF Workflow, LinkDown, ContextOfClient, HasMessage, PaceStates,
         TypedForClient, NothingBefore
    <2>3. QED
      BY <2>1, <2>2
  <1>2. CASE /\ state \in PaceStates /\ Respond("EstablishPACEChannel", ctx, FALSE)
             /\ posted' = Unheard /\ UNCHANGED Unanswered
    <2>1. posted' \in Seq(Reports(from)) /\ state \in Live
      BY <1>2, Posting DEF Live
    <2>2. QED
      BY <1>2, <2>1, Responding DEF Unanswered, Workflow, NothingBefore
  <1>3. CASE /\ state \in ModifyStates /\ Respond("ModifyPIN", ctx, FALSE)
             /\ posted' = Unheard /\ UNCHANGED Unanswered
    <2>1. posted' \in Seq(Reports(from)) /\ state \in Live
      BY <1>3, Posting DEF Live
    <2>2. QED
      BY <1>3, <2>1, Responding DEF Unanswered, Workflow, NothingBefore
  <1>4. QED
    BY <1>1, <1>2, <1>3 DEF onUserCancelled

(***************************************************************************)
(* Steps that leave the clients as they are.                               *)
(***************************************************************************)
Queued ==
  /\ UNCHANGED <<handler, connections, from>>
  /\ toServer' \in Seq(Mine(from, handler)) /\ toClient' \in Seq(Mine(from, handler))
  /\ posted' \in Seq(Reports(from))

(* The workflow stays where it is.                                         *)
LEMMA Stays == ASSUME IInv, Queued, UNCHANGED workflow PROVE IInv'
PROOF
  <1> USE DEF IInv
  <1>1. Network'
    BY DEF Network, Queued
  <1>2. (Workflow /\ ContextOfClient /\ HasMessage /\ TypedForClient /\ NothingBefore)'
    BY DEF Workflow, workflow, Queued, ContextOfClient, Asked, HasMessage,
       TypedForClient, Typed, NothingBefore
  <1>3. QED
    BY <1>1, <1>2

(* The workflow goes on with a context of the present client.              *)
LEMMA Moves ==
  ASSUME IInv, Queued, connections # 0, NEW c \in Contexts,
         ctx' = c, state' \in Live, views' \in Seq(Views),
         Asked(c.pace), Asked(c.modify),
         handler # None => Typed(c.pin) /\ Typed(c.newPin),
         state' = "EnterPacePassword" => c.pace # None,
         state' = "EnterNewPacePin" => c.modify # None,
         state' \in PaceStates /\ c.connection => c.pace # None
  PROVE  IInv'
PROOF
  <1> USE DEF IInv
  <1>1. Network'
    BY DEF Network, Queued
  <1>2. (Workflow /\ HasMessage)'
    BY DEF Workflow, HasMessage
  <1>3. (ContextOfClient /\ TypedForClient)'
    BY DEF ContextOfClient, Asked, TypedForClient, Typed, Queued
  <1>4. NothingBefore'
    BY DEF NothingBefore, Queued
  <1>5. QED
    BY <1>1, <1>2, <1>3, <1>4

(* The user is asked.                                                      *)
LEMMA Asking ==
  ASSUME IInv, Queued, handler # None, NEW c \in Contexts,
         NEW dialog \in Dialogs, AskUser(dialog, c),
         Asked(c.pace), Asked(c.modify), Typed(c.pin), Typed(c.newPin),
         dialog = "EnterPacePassword" => c.pace # None,
         dialog = "EnterNewPacePin" => c.modify # None
  PROVE  IInv'
PROOF
  <1> USE DEF IInv
  <1>1. connections # 0 /\ handler \in 1..MaxConnections
    BY RemoteAssumption DEF Network, None
  <1>2. views' \in Seq(Views)
    <2>1. [dialog |-> dialog, asked |-> handler] \in Views
      BY <1>1 DEF Views
    <2>2. QED
      BY <2>1, Queues DEF AskUser, Workflow
  <1>3. ctx' = c /\ state' = dialog /\ state' \in Live
    BY DEF AskUser, Live, PaceStates, ModifyStates, Dialogs
  <1>4. dialog \in PaceStates => dialog = "EnterPacePassword"
    BY DEF Dialogs, PaceStates
  <1>5. QED
    BY <1>1, <1>2, <1>3, <1>4, Moves

(* PACE or the PIN change is ordered.                                      *)
LEMMA Ordering ==
  ASSUME IInv, Queued, connections # 0, NEW c \in Contexts,
         ctx' = c, state' \in {"EstablishPaceChannel", "ChangePin"},
         views' \in Seq(Views), Asked(c.pace), Asked(c.modify),
         handler # None => Typed(c.pin) /\ Typed(c.newPin),
         state' = "EstablishPaceChannel" /\ c.connection => c.pace # None
  PROVE  IInv'
PROOF
  <1>1. state' \in Live /\ (state' \in PaceStates => state' = "EstablishPaceChannel")
    BY DEF Live, PaceStates, ModifyStates
  <1>2. QED
    BY <1>1, Moves

(* The client's side and the card.                                         *)
LEMMA ClientAndCard ==
  ASSUME IInv, CardMoves \/ TimedOut \/ onMessageReceived PROVE IInv'
PROOF
  <1>1. CASE CardMoves
    <2>1. posted' \in Seq(Reports(from))
      BY <1>1, Posting DEF IInv, CardMoves, OfState
    <2>2. QED
      BY <1>1, <2>1, Stays DEF IInv, Network, Queued, CardMoves, network
  <1>2. CASE TimedOut
    BY <1>2, Stays DEF IInv, Network, Queued, TimedOut, vars, network, workflow
  <1>3. CASE onMessageReceived
    <2>1. toClient' \in Seq(Mine(from, handler))
      BY <1>3, Elements DEF IInv, onMessageReceived
    <2>2. QED
      BY <1>3, <2>1, Stays DEF IInv, Network, Queued, onMessageReceived
  <1>4. QED
    BY <1>1, <1>2, <1>3

(* A request is sent: only the number of requests grows.                   *)
LEMMA Sends == ASSUME IInv, NEW kind \in Kinds, sendMessage(kind) PROVE IInv'
PROOF
  <1> USE DEF IInv
  <1>1. /\ handler \in 1..MaxConnections /\ from \in Seq(1..MaxConnections)
        /\ from' = Append(from, handler)
        /\ toServer' = Append(toServer, [kind |-> kind, id |-> Len(from')])
        /\ UNCHANGED <<handler, connections, toClient, posted, workflow>>
    BY RemoteAssumption DEF sendMessage, Network, None
  <1>2. /\ from' \in Seq(1..MaxConnections) /\ Len(from') = Len(from) + 1
        /\ from'[Len(from')] = handler /\ Len(from) \in Nat
        /\ \A i \in 1..Len(from) : i \in 1..Len(from') /\ from'[i] = from[i]
        /\ Mine(from, handler) \subseteq Mine(from', handler)
        /\ Reports(from) \subseteq Reports(from')
    BY <1>1, OneMore
  <1>3. [kind |-> kind, id |-> Len(from')] \in Mine(from', handler)
    BY <1>2 DEF Mine
  <1>4. /\ toServer \in Seq(Mine(from', handler)) /\ toClient \in Seq(Mine(from', handler))
        /\ posted \in Seq(Reports(from'))
    BY <1>2, Larger DEF Network
  <1>5. Network'
    BY <1>1, <1>2, <1>3, <1>4, Queues DEF Network
  <1>6. (Workflow /\ HasMessage /\ TypedForClient /\ NothingBefore)'
    BY <1>1 DEF Workflow, workflow, HasMessage, TypedForClient, Typed, NothingBefore
  <1>7. ContextOfClient'
    BY <1>1, <1>2 DEF workflow, ContextOfClient, Asked
  <1>8. QED
    BY <1>5, <1>6, <1>7

(***************************************************************************)
(* The requests.                                                           *)
(***************************************************************************)

(* A request is taken: it is the client's, and it can be answered.         *)
LEMMA Taken ==
  ASSUME IInv, NEW kind \in Kinds, Receives(kind)
  PROVE  /\ UNCHANGED <<handler, connections, from>> /\ state \in Live
         /\ toServer' \in Seq(Mine(from, handler))
         /\ toClient \in Seq(Mine(from, handler)) /\ posted \in Seq(Reports(from))
         /\ handler # None /\ connections # 0
         /\ Id \in 1..Len(from) /\ Id \in Nat \ {0} /\ Asked(Id)
         /\ \A k \in Kinds : Answer(k, Id) => toClient' \in Seq(Mine(from, handler))
PROOF
  <1> USE DEF IInv
  <1>1. /\ UNCHANGED <<handler, connections, from>> /\ handler # None /\ state \in Live
        /\ toServer # <<>> /\ toServer' = Tail(toServer)
    BY DEF Receives
  <1>2. handler # None /\ connections # 0
    BY <1>1 DEF Network, None
  <1>3. /\ Id \in 1..Len(from) /\ from[Id] = handler
        /\ toServer' \in Seq(Mine(from, handler))
    BY <1>1, Elements DEF Id
  <1>4. Len(from) \in Nat
    BY DEF Network
  <1>5. \A k \in Kinds : Answer(k, Id) => toClient' \in Seq(Mine(from, handler))
    BY <1>3, Elements DEF Answer
  <1>6. QED
    BY <1>1, <1>2, <1>3, <1>4, <1>5 DEF Asked, Network, None

LEMMA Connects == ASSUME IInv, handleIfdConnect \/ handleIfdDisconnect PROVE IInv'
PROOF
  <1>1. CASE handleIfdConnect
    <2>1. Receives("Connect") /\ "Connect" \in Kinds /\ UNCHANGED workflow
      BY <1>1 DEF handleIfdConnect, Kinds
    <2>2. toClient' \in Seq(Mine(from, handler)) /\ posted' \in Seq(Reports(from))
      <3>1. CASE Answer("Connect", Id) /\ UNCHANGED posted
        BY <2>1, <3>1, Taken
      <3>2. CASE createCardConnectionWorker(Id) /\ UNCHANGED toClient
        BY <2>1, <3>2, Taken, Posting DEF createCardConnectionWorker, OfRequest, IInv
      <3>3. QED
        BY <1>1, <3>1, <3>2 DEF handleIfdConnect
    <2>3. QED
      BY <2>1, <2>2, Taken, Stays DEF Queued
  <1>2. CASE handleIfdDisconnect
    <2>1. /\ Receives("Disconnect") /\ "Disconnect" \in Kinds /\ UNCHANGED <<posted, workflow>>
          /\ Answer("Disconnect", Id)
      BY <1>2 DEF handleIfdDisconnect, Kinds
    <2>2. QED
      BY <2>1, Taken, Stays DEF Queued, Kinds
  <1>3. QED
    BY <1>1, <1>2

LEMMA Transmits == ASSUME IInv, handleIfdTransmit PROVE IInv'
PROOF
  <1>1. /\ Receives("Transmit") /\ "Transmit" \in Kinds /\ UNCHANGED <<state, views>>
    BY DEF handleIfdTransmit, Kinds
  <1>2. CASE Answer("Transmit", Id) /\ UNCHANGED <<posted, ctx>>
    BY <1>1, <1>2, Taken, Stays DEF Queued, workflow
  <1>3. CASE /\ UNCHANGED toClient /\ ctx' \in {ctx, resetPacePasswords(ctx)}
             /\ \E ok \in BOOLEAN : posted' = Append(posted, Report("Transmitted", Id, ok))
    <2>1. Queued
      BY <1>1, <1>3, Taken, Posting DEF IInv, Queued, OfRequest
    <2>2. CASE UNCHANGED ctx
      BY <1>1, <2>1, <2>2, Stays DEF workflow
    <2>3. CASE ctx' = resetPacePasswords(ctx)
      <3> DEFINE c == resetPacePasswords(ctx)
      <3>1. /\ c \in Contexts /\ c.pace = ctx.pace /\ c.modify = ctx.modify
            /\ c.connection = ctx.connection /\ c.pin = NoPin /\ c.newPin = NoPin
        BY ResetContext DEF IInv, Workflow
      <3> HIDE DEF c
      <3>2. connections # 0 /\ state' \in Live /\ views' \in Seq(Views) /\ ctx' = c
        BY <1>1, <2>3, Taken DEF IInv, Workflow, c
      <3>3. Asked(c.pace) /\ Asked(c.modify) /\ Typed(c.pin) /\ Typed(c.newPin)
        BY <1>1, <3>1, Taken DEF IInv, ContextOfClient, Typed, Live, PaceStates, ModifyStates
      <3>4. QED
        BY <1>1, <2>1, <3>1, <3>2, <3>3, Moves DEF IInv, HasMessage
    <2>4. QED
      BY <1>3, <2>2, <2>3
  <1>4. QED
    BY <1>1, <1>2, <1>3 DEF handleIfdTransmit, Outcomes

LEMMA OrdersPace == ASSUME IInv, handleIfdEstablishPaceChannel PROVE IInv'
PROOF
  <1>1. Receives("EstablishPACEChannel") /\ "EstablishPACEChannel" \in Kinds
    BY DEF handleIfdEstablishPaceChannel, Kinds
  <1>2. CASE Answer("EstablishPACEChannel", Id) /\ UNCHANGED <<posted, workflow>>
    BY <1>1, <1>2, Taken, Stays DEF Queued
  <1>3. CASE UNCHANGED <<toClient, posted, workflow>>
    BY <1>1, <1>3, Taken, Stays DEF Queued
  <1>4. CASE /\ UNCHANGED <<toClient, views>> /\ state = "Process"
             /\ state' = "UpdateRetryCounter"
             /\ ctx' = [ctx EXCEPT !.pace = Id, !.connection = TRUE]
             /\ \E ok \in BOOLEAN : posted' = Append(posted, Report("Counter", None, ok))
    <2> DEFINE c == [ctx EXCEPT !.pace = Id, !.connection = TRUE]
    <2>1. Queued
      BY <1>1, <1>4, Taken, Posting DEF IInv, Queued, OfState
    <2>2. /\ c \in Contexts /\ c.pace = Id /\ c.modify = ctx.modify
          /\ c.pin = ctx.pin /\ c.newPin = ctx.newPin
      BY <1>1, Taken DEF IInv, Workflow, Contexts
    <2> HIDE DEF c
    <2>3. /\ connections # 0 /\ state' \in Live /\ views' \in Seq(Views) /\ ctx' = c
          /\ Id # None
      BY <1>1, <1>4, Taken DEF IInv, Workflow, c, Live, PaceStates, None
    <2>4. /\ Asked(c.pace) /\ Asked(c.modify)
          /\ handler # None => Typed(c.pin) /\ Typed(c.newPin)
      BY <1>1, <1>4, <2>2, Taken DEF IInv, ContextOfClient, TypedForClient
    <2>5. QED
      BY <1>4, <2>1, <2>2, <2>3, <2>4, Moves
  <1>5. QED
    BY <1>1, <1>2, <1>3, <1>4 DEF handleIfdEstablishPaceChannel, Outcomes, workflow

LEMMA OrdersPinChange == ASSUME IInv, handleIfdModifyPIN PROVE IInv'
PROOF
  <1> DEFINE c == [ctx EXCEPT !.modify = Id, !.connection = TRUE]
  <1>1. Receives("ModifyPIN") /\ "ModifyPIN" \in Kinds
    BY DEF handleIfdModifyPIN, Kinds
  <1>2. CASE Answer("ModifyPIN", Id) /\ UNCHANGED <<posted, workflow>>
    BY <1>1, <1>2, Taken, Stays DEF Queued
  <1>3. CASE UNCHANGED <<toClient, posted, workflow>>
    BY <1>1, <1>3, Taken, Stays DEF Queued
  <1>4. /\ c \in Contexts /\ c.pace = ctx.pace /\ c.modify = Id
        /\ c.pin = ctx.pin /\ c.newPin = ctx.newPin
    BY <1>1, Taken DEF IInv, Workflow, Contexts
  <1> HIDE DEF c
  <1>5. ASSUME state = "Process"
        PROVE  /\ Asked(c.pace) /\ Asked(c.modify) /\ Typed(c.pin) /\ Typed(c.newPin)
               /\ handler # None /\ connections # 0 /\ c.modify # None
    BY <1>1, <1>4, <1>5, Taken DEF IInv, ContextOfClient, TypedForClient, None
  <1>6. CASE /\ UNCHANGED <<toClient, views>> /\ state = "Process"
             /\ StateChangePinRemote(c)
    <2>1. Queued
      <3>1. \E ok \in BOOLEAN : posted' = Append(posted, Report("PinChanged", None, ok))
        BY <1>6 DEF StateChangePinRemote, Outcomes
      <3>2. QED
        BY <1>1, <1>6, <3>1, Taken, Posting DEF IInv, Queued, OfState
    <2>2. ctx' = c /\ state' = "ChangePin" /\ views' \in Seq(Views)
      BY <1>6 DEF IInv, Workflow, StateChangePinRemote
    <2>3. QED
      BY <1>4, <1>5, <1>6, <2>1, <2>2, Ordering
  <1>7. CASE /\ UNCHANGED <<toClient, posted>> /\ state = "Process"
             /\ AskUser("EnterNewPacePin", c)
    <2>1. Queued
      BY <1>1, <1>7, Taken DEF Queued
    <2>2. QED
      BY <1>4, <1>5, <1>7, <2>1, Asking DEF Dialogs
  <1>8. QED
    BY <1>1, <1>2, <1>3, <1>6, <1>7 DEF handleIfdModifyPIN, workflow, c

(***************************************************************************)
(* The interface.                                                          *)
(***************************************************************************)

(* A view is there only after a client has been; what it stored belongs to *)
(* the client that is connected when it is typed.                          *)
LEMMA Enters == ASSUME IInv, passwordEntered PROVE IInv'
PROOF
  <1> USE DEF IInv
  <1> DEFINE p == [asked |-> Last(views).asked, typed |-> handler]
  <1> DEFINE c == IF Last(views).dialog = "EnterNewPacePin"
                    THEN [ctx EXCEPT !.newPin = p] ELSE [ctx EXCEPT !.pin = p]
  <1>1. /\ views # <<>> /\ Last(views) \in Views /\ views' \in Seq(Views)
        /\ state \in Live /\ UNCHANGED network
    BY Queues DEF passwordEntered, Workflow
  <1>2. connections # 0 /\ handler \in 0..MaxConnections
    BY <1>1, RemoteAssumption DEF NothingBefore, Network, None
  <1>3. p \in Pins /\ Typed(p)
    BY <1>1, <1>2, RemoteAssumption DEF Views, Pins, Typed
  <1>4. /\ c \in Contexts /\ c.pace = ctx.pace /\ c.modify = ctx.modify
        /\ c.connection = ctx.connection
        /\ c.pin \in {ctx.pin, p} /\ c.newPin \in {ctx.newPin, p}
    BY <1>3 DEF Workflow, Contexts
  <1>5. /\ Asked(c.pace) /\ Asked(c.modify)
        /\ handler # None => Typed(c.pin) /\ Typed(c.newPin)
    BY <1>1, <1>3, <1>4 DEF ContextOfClient, TypedForClient, Live, PaceStates, ModifyStates
  <1>6. \/ state = "EnterPacePassword" /\ StateEstablishPaceChannelRemote(c, posted)
        \/ state = "EnterNewPacePin" /\ StateChangePinRemote(c)
        \/ ctx' = c /\ UNCHANGED <<state, posted>> /\ state \notin Dialogs
    BY DEF passwordEntered, Dialogs
  <1> HIDE DEF p, c
  <1>7. CASE state = "EnterPacePassword" /\ StateEstablishPaceChannelRemote(c, posted)
    <2>1. Queued
      <3>1. \E ok \in BOOLEAN, op \in {"PaceWrong", "PaceDone"} :
              posted' = Append(posted, Report(op, None, ok))
        BY <1>7 DEF StateEstablishPaceChannelRemote, Outcomes
      <3>2. QED
        BY <1>1, <3>1, Posting DEF Queued, network, Network, OfState
    <2>2. ctx' = c /\ state' = "EstablishPaceChannel" /\ c.pace # None
      BY <1>4, <1>7 DEF StateEstablishPaceChannelRemote, HasMessage
    <2>3. QED
      BY <1>1, <1>2, <1>4, <1>5, <2>1, <2>2, Ordering
  <1>8. CASE state = "EnterNewPacePin" /\ StateChangePinRemote(c)
    <2>1. Queued
      <3>1. \E ok \in BOOLEAN : posted' = Append(posted, Report("PinChanged", None, ok))
        BY <1>8 DEF StateChangePinRemote, Outcomes
      <3>2. QED
        BY <1>1, <3>1, Posting DEF Queued, network, Network, OfState
    <2>2. ctx' = c /\ state' = "ChangePin"
      BY <1>8 DEF StateChangePinRemote
    <2>3. QED
      BY <1>1, <1>2, <1>4, <1>5, <2>1, <2>2, Ordering
  <1>9. CASE ctx' = c /\ UNCHANGED <<state, posted>> /\ state \notin Dialogs
    <2>1. Queued
      BY <1>1, <1>9 DEF Queued, network, Network
    <2>2. state' \in PaceStates /\ c.connection => c.pace # None
      BY <1>4, <1>9 DEF HasMessage
    <2>3. QED
      BY <1>1, <1>2, <1>4, <1>5, <1>9, <2>1, <2>2, Moves DEF Dialogs
  <1>10. QED
    BY <1>6, <1>7, <1>8, <1>9

LEMMA Cancels == ASSUME IInv, cancelPasswordRequest PROVE IInv'
PROOF
  <1> USE DEF IInv
  <1>1. /\ views # <<>> /\ views' \in Seq(Views) /\ state \in Live
        /\ UNCHANGED <<handler, connections, from, toServer, posted, ctx>>
    BY Queues DEF cancelPasswordRequest, Workflow, Unanswered
  <1>2. connections # 0
    BY <1>1 DEF NothingBefore
  <1>3. ctx \in Contexts /\ Asked(ctx.pace) /\ Asked(ctx.modify)
    BY <1>1 DEF Workflow, ContextOfClient, Live, PaceStates, ModifyStates
  <1>4. handler # None => Typed(ctx.pin) /\ Typed(ctx.newPin)
    BY <1>1 DEF TypedForClient, Live, PaceStates, ModifyStates
  <1>5. CASE state' = "Process" /\ toClient' \in Seq(Mine(from, handler))
    BY <1>1, <1>2, <1>3, <1>4, <1>5, Moves DEF Queued, Network, Live, PaceStates
  <1>6. CASE UNCHANGED <<state, toClient>>
    BY <1>1, <1>2, <1>3, <1>4, <1>6, Moves DEF Queued, Network, HasMessage
  <1>7. \A id \in Nat, k \in Kinds :
          Asked(id) /\ id # None /\ Answer(k, id) => toClient' \in Seq(Mine(from, handler))
    BY Elements DEF Asked, Answer
  <1>8. ctx.pace \in Nat /\ ctx.modify \in Nat
    BY <1>3 DEF Contexts
  <1>9. CASE state = "EnterPacePassword"
    <2>1. state' = "Process" /\ Answer("EstablishPACEChannel", ctx.pace)
      BY <1>9 DEF cancelPasswordRequest
    <2>2. toClient' \in Seq(Mine(from, handler))
      BY <1>3, <1>7, <1>8, <1>9, <2>1 DEF HasMessage, Kinds
    <2>3. QED
      BY <1>5, <2>1, <2>2
  <1>10. CASE state = "EnterNewPacePin"
    <2>1. state' = "Process" /\ Answer("ModifyPIN", ctx.modify)
      BY <1>10 DEF cancelPasswordRequest
    <2>2. toClient' \in Seq(Mine(from, handler))
      BY <1>3, <1>7, <1>8, <1>10, <2>1 DEF HasMessage, Kinds
    <2>3. QED
      BY <1>5, <2>1, <2>2
  <1>11. QED
    BY <1>6, <1>9, <1>10 DEF cancelPasswordRequest

(***************************************************************************)
(* The reports of the ReaderManager thread.                                *)
(***************************************************************************)

(* A report is heard: it is of a request that was sent.                    *)
LEMMA Heard ==
  ASSUME IInv, NEW op \in OfRequest \cup OfState, Delivered(op)
  PROVE  /\ UNCHANGED <<handler, connections, from, toServer>> /\ state \in Live
         /\ Ok \in BOOLEAN /\ Tail(posted) \in Seq(Reports(from))
         /\ \A p \in Reports(from) : Append(Tail(posted), p) \in Seq(Reports(from))
         /\ op \in OfRequest => Head(posted).id \in 1..Len(from)
PROOF
  <1>1. Head(posted) \in Reports(from) /\ Head(posted).op = op
    BY Posting DEF IInv, Delivered
  <1>2. QED
    BY <1>1, Posting DEF IInv, Delivered, Ok

LEMMA OfReader ==
  ASSUME IInv,
         onReaderChanged \/ onCreateCardConnectionCommandDone \/ onTransmitCardCommandDone
  PROVE  IInv'
PROOF
  <1>1. CASE onReaderChanged
    <2>1. Delivered("Changed") /\ Dequeue /\ UNCHANGED <<toClient, workflow>>
      BY <1>1 DEF onReaderChanged
    <2>2. QED
      BY <2>1, Heard, Stays DEF IInv, Network, Queued, Dequeue, OfState
  <1>2. ASSUME NEW op \in OfRequest, NEW k \in Kinds,
               Delivered(op), Dequeue, UNCHANGED workflow,
               \/ from[Head(posted).id] = handler /\ Answer(k, Head(posted).id)
               \/ UNCHANGED toClient
        PROVE  IInv'
    <2>1. Head(posted).id \in 1..Len(from)
      BY <1>2, Heard
    <2>2. toClient' \in Seq(Mine(from, handler))
      BY <1>2, <2>1, Elements DEF IInv, Network, Answer
    <2>3. QED
      BY <1>2, <2>2, Heard, Stays DEF IInv, Network, Queued, Dequeue
  <1>3. CASE onCreateCardConnectionCommandDone
    BY <1>2, <1>3 DEF onCreateCardConnectionCommandDone, OfRequest, Kinds
  <1>4. CASE onTransmitCardCommandDone
    BY <1>2, <1>4 DEF onTransmitCardCommandDone, OfRequest, Kinds
  <1>5. QED
    BY <1>1, <1>3, <1>4

LEMMA OfWorkflow == ASSUME IInv, onEstablishConnectionDone \/ onChangePinDone PROVE IInv'
PROOF
  <1>1. ASSUME NEW op \in OfState, NEW kind \in {"ModifyPIN", "EstablishPACEChannel"},
               NEW clear \in BOOLEAN, Delivered(op), Dequeue, Respond(kind, ctx, clear)
        PROVE  IInv'
    BY <1>1, Heard, Responding DEF IInv, Workflow, NothingBefore, Dequeue
  <1>2. CASE onEstablishConnectionDone
    BY <1>1, <1>2 DEF onEstablishConnectionDone, OfState
  <1>3. CASE onChangePinDone
    <2>1. Ok \in BOOLEAN
      BY <1>3, Heard DEF onChangePinDone, OfState
    <2>2. QED
      BY <1>1, <1>3, <2>1 DEF onChangePinDone, OfState
  <1>4. QED
    BY <1>2, <1>3

(* The counter is known: PACE is given up, asked for or ordered.           *)
LEMMA CounterKnown == ASSUME IInv, onUpdateRetryCounterDone PROVE IInv'
PROOF
  <1> USE DEF IInv
  <1> DEFINE gone == [ctx EXCEPT !.connection = FALSE]
  <1>1. Delivered("Counter") /\ state = "UpdateRetryCounter" /\ UNCHANGED handles
    BY DEF onUpdateRetryCounterDone
  <1>2. /\ UNCHANGED <<handler, connections, from, toServer>> /\ state \in Live
        /\ Tail(posted) \in Seq(Reports(from))
        /\ \A p \in Reports(from) : Append(Tail(posted), p) \in Seq(Reports(from))
    BY <1>1, Heard DEF OfState
  <1>3. CASE Respond("EstablishPACEChannel", gone, FALSE) /\ Dequeue
    <2>1. /\ gone \in Contexts /\ gone.pace = ctx.pace /\ gone.modify = ctx.modify
          /\ gone.pin = ctx.pin /\ gone.newPin = ctx.newPin
          /\ connections = 0 => gone = NoContext
      BY ResetContext DEF Workflow, Contexts, NothingBefore, NoContext
    <2> HIDE DEF gone
    <2>2. QED
      BY <1>2, <1>3, <2>1, Responding DEF Dequeue
  <1>4. ASSUME NEW c \in {ctx, resetPacePasswords(ctx)}, ctx.connection, UNCHANGED toClient,
               \/ AskUser("EnterPacePassword", c) /\ Dequeue
               \/ StateEstablishPaceChannelRemote(c, Tail(posted)) /\ UNCHANGED views
        PROVE  IInv'
    <2>1. /\ c \in Contexts /\ c.pace = ctx.pace /\ c.modify = ctx.modify
          /\ \/ c.pin = ctx.pin /\ c.newPin = ctx.newPin
             \/ c.pin = NoPin /\ c.newPin = NoPin
      BY <1>4, ResetContext DEF Workflow
    <2>2. c.pace # None /\ Asked(c.pace) /\ Asked(c.modify) /\ handler # None
      BY <1>1, <1>4, <2>1 DEF HasMessage, ContextOfClient, Asked, PaceStates
    <2>3. Typed(c.pin) /\ Typed(c.newPin) /\ connections # 0
      BY <1>1, <2>1, <2>2 DEF TypedForClient, Typed, Network, None
    <2>4. CASE AskUser("EnterPacePassword", c) /\ Dequeue
      <3>1. Queued
        BY <1>2, <1>4, <2>4 DEF Queued, Network, Dequeue
      <3>2. QED
        BY <2>1, <2>2, <2>3, <2>4, <3>1, Asking DEF Dialogs
    <2>5. CASE StateEstablishPaceChannelRemote(c, Tail(posted)) /\ UNCHANGED views
      <3>1. Queued
        <4>1. \E ok \in BOOLEAN, op \in {"PaceWrong", "PaceDone"} :
                posted' = Append(Tail(posted), Report(op, None, ok))
          BY <2>5 DEF StateEstablishPaceChannelRemote, Outcomes
        <4>2. QED
          BY <1>2, <1>4, <4>1, Posting DEF Queued, Network, OfState
      <3>2. ctx' = c /\ state' = "EstablishPaceChannel" /\ views' \in Seq(Views)
        BY <2>5 DEF StateEstablishPaceChannelRemote, Workflow
      <3>3. QED
        BY <2>1, <2>2, <2>3, <3>1, <3>2, Ordering
    <2>6. QED
      BY <1>4, <2>4, <2>5
  <1>5. \/ Respond("EstablishPACEChannel", gone, FALSE) /\ Dequeue
        \/ \E c \in {ctx, resetPacePasswords(ctx)} :
             /\ ctx.connection /\ UNCHANGED toClient
             /\ \/ AskUser("EnterPacePassword", c) /\ Dequeue
                \/ StateEstablishPaceChannelRemote(c, Tail(posted)) /\ UNCHANGED views
    BY DEF onUpdateRetryCounterDone, Workflow, Contexts
  <1>6. QED
    BY <1>3, <1>4, <1>5

(***************************************************************************)
(* The theorems.                                                           *)
(***************************************************************************)

(* Every step keeps the invariant.                                         *)
LEMMA StepKeeps == IInv /\ [RNext]_rvars => IInv'
PROOF
  <1> SUFFICES ASSUME IInv, [RNext]_rvars PROVE IInv'
    OBVIOUS
  <1>1. CASE Service
    BY <1>1, ClientComes, ClientAndCard, Enters, Cancels, Connects, Transmits, OrdersPace,
       OrdersPinChange, OfReader, OfWorkflow, CounterKnown DEF Service, MainLoop
  <1>2. CASE Stopped \/ onDispatcherClosed
    BY <1>2, UserCancels, ClientGoes DEF Stopped, onDispatcherClosed
  <1>3. CASE (\E kind \in Kinds : sendMessage(kind)) \/ TimedOut \/ onMessageReceived
    BY <1>3, Sends, ClientAndCard
  <1>4. CASE UNCHANGED rvars
    BY <1>4, Stays DEF rvars, vars, network, workflow, IInv, Network, Queued
  <1>5. QED
    BY <1>1, <1>2, <1>3, <1>4 DEF RNext

LEMMA Invariant == Spec => []IInv
PROOF
  <1>1. QED
    BY Initially, StepKeeps, PTL DEF Spec

(* The user is asked on behalf of the client that is connected now         *)
(* (RemoteServiceController, RemoteServiceContext::onResetMessageHandler). *)
THEOREM Dialogues == Spec => []DialogHasItsClient
PROOF
  <1>1. IInv => DialogHasItsClient
    BY DEF IInv, HasMessage, ContextOfClient, Asked, DialogHasItsClient, Dialogs
  <1>2. QED
    BY <1>1, Invariant, PTL

(* A typed password never outlives its client in the context.              *)
THEOREM PasswordsKept == Spec => []PasswordStaysWithItsClient
PROOF
  <1>1. IInv => PasswordStaysWithItsClient
    BY DEF IInv, TypedForClient, Typed, PasswordStaysWithItsClient
  <1>2. QED
    BY <1>1, Invariant, PTL

(* A client gets answers to its own requests only (ServerMessageHandler).  *)
THEOREM AnswersReturn == Spec => []AnswersToRequester
PROOF
  <1>1. IInv => AnswersToRequester
    BY DEF IInv, Network, Mine, AnswersToRequester
  <1>2. QED
    BY <1>1, Invariant, PTL

(***************************************************************************)
(* The client takes the answer to its request.  A queue is looked at by    *)
(* whether it holds an element of a set, and not more than one.            *)
(***************************************************************************)
Holds(s, F) == \E i \in 1..Len(s) : s[i] \in F
Once(s, F) == \A i, j \in 1..Len(s) : s[i] \in F /\ s[j] \in F => i = j

(* What a concatenation is made of.                                        *)
LEMMA Joined ==
  ASSUME NEW S, NEW a \in Seq(S), NEW b \in Seq(S)
  PROVE  /\ Len(a) \in Nat /\ Len(a \o b) = Len(a) + Len(b)
         /\ \A i \in 1..(Len(a) + Len(b)) :
              (a \o b)[i] = IF i <= Len(a) THEN a[i] ELSE b[i - Len(a)]
OBVIOUS

(* What the queues' operations do to the elements that are in F.           *)
LEMMA Elsewhere ==
  ASSUME NEW S, NEW s \in Seq(S), NEW F
  PROVE  /\ \A e \in S : /\ Holds(Append(s, e), F) <=> Holds(s, F) \/ e \in F
                         /\ Once(s, F) /\ ~(Holds(s, F) /\ e \in F) => Once(Append(s, e), F)
         /\ s # <<>> => /\ Holds(s, F) <=> Head(s) \in F \/ Holds(Tail(s), F)
                        /\ Once(s, F) => /\ Once(Tail(s), F)
                                         /\ Head(s) \in F => ~Holds(Tail(s), F)
         /\ \A k \in 1..Len(s) : /\ Holds(RemoveAt(s, k), F) => Holds(s, F)
                                 /\ Once(s, F) => Once(RemoveAt(s, k), F)
         /\ ~Holds(<<>>, F) /\ Once(<<>>, F)
PROOF
  <1>1. ASSUME NEW e \in S
        PROVE  /\ Holds(Append(s, e), F) <=> Holds(s, F) \/ e \in F
               /\ Once(s, F) /\ ~(Holds(s, F) /\ e \in F) => Once(Append(s, e), F)
    <2> DEFINE t == Append(s, e)
    <2>1. /\ Len(s) \in Nat /\ Len(t) = Len(s) + 1 /\ t[Len(t)] = e
          /\ \A i \in 1..Len(s) : t[i] = s[i]
      OBVIOUS
    <2> HIDE DEF t
    <2>2. \A i \in 1..Len(t) : i \in 1..Len(s) \/ i = Len(t)
      BY <2>1
    <2>3. Holds(t, F) <=> Holds(s, F) \/ e \in F
      <3>1. ASSUME Holds(t, F) PROVE Holds(s, F) \/ e \in F
        BY <2>1, <2>2, <3>1 DEF Holds
      <3>2. ASSUME Holds(s, F) PROVE Holds(t, F)
        <4>1. PICK i \in 1..Len(s) : s[i] \in F
          BY <3>2 DEF Holds
        <4>2. i \in 1..Len(t) /\ t[i] \in F
          BY <2>1, <4>1
        <4>3. QED
          BY <4>2 DEF Holds
      <3>3. ASSUME e \in F PROVE Holds(t, F)
        <4>1. Len(t) \in 1..Len(t) /\ t[Len(t)] \in F
          BY <2>1, <3>3
        <4>2. QED
          BY <4>1 DEF Holds
      <3>4. QED
        BY <3>1, <3>2, <3>3
    <2>4. ASSUME Once(s, F), ~(Holds(s, F) /\ e \in F) PROVE Once(t, F)
      BY <2>1, <2>2, <2>4 DEF Once, Holds
    <2>5. QED
      BY <2>3, <2>4 DEF t
  <1>2. ASSUME s # <<>>
        PROVE  /\ Holds(s, F) <=> Head(s) \in F \/ Holds(Tail(s), F)
               /\ Once(s, F) => /\ Once(Tail(s), F)
                                /\ Head(s) \in F => ~Holds(Tail(s), F)
    <2> DEFINE t == Tail(s)
    <2>1. /\ Len(s) \in Nat \ {0} /\ Len(t) = Len(s) - 1 /\ s[1] = Head(s)
          /\ \A i \in 1..Len(t) : t[i] = s[i + 1]
      BY <1>2
    <2> HIDE DEF t
    <2>2. \A i \in 1..Len(t) : i + 1 \in 1..Len(s) /\ i + 1 # 1
      BY <2>1
    <2>3. ASSUME Holds(s, F) PROVE Head(s) \in F \/ Holds(t, F)
      <3>1. PICK i \in 1..Len(s) : s[i] \in F
        BY <2>3 DEF Holds
      <3>2. CASE i # 1
        <4>1. i - 1 \in 1..Len(t) /\ t[i - 1] = s[i]
          BY <2>1, <3>2
        <4>2. QED
          BY <3>1, <4>1 DEF Holds
      <3>3. QED
        BY <2>1, <3>1, <3>2
    <2>4. Head(s) \in F \/ Holds(t, F) => Holds(s, F)
      <3>1. 1 \in 1..Len(s)
        BY <2>1
      <3>2. QED
        BY <2>1, <2>2, <3>1 DEF Holds
    <2>5. ASSUME Once(s, F) PROVE Once(t, F) /\ (Head(s) \in F => ~Holds(t, F))
      <3>1. ASSUME NEW i \in 1..Len(t), NEW j \in 1..Len(t), t[i] \in F, t[j] \in F
            PROVE  i = j
        <4>1. i + 1 = j + 1
          BY <2>1, <2>2, <2>5, <3>1 DEF Once
        <4>2. QED
          BY <4>1
      <3>2. ASSUME Head(s) \in F, NEW i \in 1..Len(t), t[i] \in F PROVE FALSE
        <4>1. 1 \in 1..Len(s)
          BY <2>1
        <4>2. QED
          BY <2>1, <2>2, <2>5, <3>2, <4>1 DEF Once
      <3>3. QED
        BY <3>1, <3>2 DEF Once, Holds
    <2>6. QED
      BY <2>3, <2>4, <2>5 DEF t
  <1>3. ASSUME NEW k \in 1..Len(s)
        PROVE  /\ Holds(RemoveAt(s, k), F) => Holds(s, F)
               /\ Once(s, F) => Once(RemoveAt(s, k), F)
    <2> DEFINE t == RemoveAt(s, k)
    <2> DEFINE at(i) == IF i < k THEN i ELSE i + 1
    <2>1. /\ Len(s) \in Nat \ {0} /\ Len(t) = Len(s) - 1
          /\ \A i \in 1..Len(t) : t[i] = s[at(i)]
      <3> DEFINE a == SubSeq(s, 1, k - 1)
      <3> DEFINE b == SubSeq(s, k + 1, Len(s))
      <3>1. /\ Len(s) \in Nat \ {0} /\ a \in Seq(S) /\ b \in Seq(S)
            /\ Len(a) = k - 1 /\ Len(b) = Len(s) - k
            /\ \A i \in 1..Len(a) : a[i] = s[i]
            /\ \A i \in 1..Len(b) : b[i] = s[k + i]
        OBVIOUS
      <3>2. t = a \o b
        BY DEF RemoveAt
      <3> HIDE DEF a, b, t
      <3>3. /\ Len(t) = Len(a) + Len(b)
            /\ \A i \in 1..Len(t) : t[i] = IF i <= Len(a) THEN a[i] ELSE b[i - Len(a)]
        <4>1. /\ Len(a \o b) = Len(a) + Len(b) /\ Len(a) \in Nat
              /\ \A i \in 1..(Len(a) + Len(b)) :
                   (a \o b)[i] = IF i <= Len(a) THEN a[i] ELSE b[i - Len(a)]
          BY <3>1, Joined
        <4>2. QED
          BY <3>2, <4>1
      <3>4. ASSUME NEW i \in 1..Len(t) PROVE t[i] = s[at(i)]
        <4>1. CASE i < k
          BY <3>1, <3>3, <4>1
        <4>2. CASE i >= k
          <5>1. i - Len(a) \in 1..Len(b) /\ k + (i - Len(a)) = i + 1
            BY <3>1, <3>3, <4>2
          <5>2. t[i] = b[i - Len(a)]
            BY <3>1, <3>3, <4>2
          <5>3. b[i - Len(a)] = s[i + 1]
            BY <3>1, <5>1
          <5>4. QED
            BY <4>2, <5>2, <5>3
        <4>3. QED
          BY <3>1, <3>3, <4>1, <4>2
      <3>5. QED
        BY <3>1, <3>3, <3>4
    <2> HIDE DEF t
    <2>2. \A i \in 1..Len(t) : at(i) \in 1..Len(s)
      BY <2>1
    <2>3. \A i, j \in 1..Len(t) : at(i) = at(j) => i = j
      OBVIOUS
    <2> HIDE DEF at
    <2>4. Holds(t, F) => Holds(s, F)
      BY <2>1, <2>2 DEF Holds
    <2>5. Once(s, F) => Once(t, F)
      BY <2>1, <2>2, <2>3 DEF Once
    <2>6. QED
      BY <2>4, <2>5 DEF t
  <1>4. ~Holds(<<>>, F) /\ Once(<<>>, F)
    BY DEF Holds, Once
  <1>5. QED
    BY <1>1, <1>2, <1>3, <1>4

(***************************************************************************)
(* Where the request that the client waits for is.                         *)
(***************************************************************************)

(* The messages of kinds that were not given up, and the reports of them.  *)
Due == {m \in [kind : Kinds, id : Nat] : m.kind \notin givenUp}
RequestOf(p) == [kind |-> IF p.op = "Connected" THEN "Connect" ELSE "Transmit", id |-> p.id]
DueReports ==
  {p \in Reports(from) : p.op \in OfRequest /\ from[p.id] = handler /\ RequestOf(p) \in Due}

OtherDue == Due \ {waiting}
OtherReports == {p \in DueReports : RequestOf(p) # waiting}

PaceRequest == [kind |-> "EstablishPACEChannel", id |-> ctx.pace]
ModifyRequest == [kind |-> "ModifyPIN", id |-> ctx.modify]
PaceDue == state \in PaceStates /\ ctx.pace # None /\ PaceRequest \in Due
ModifyDue == state \in ModifyStates /\ ctx.modify # None /\ ModifyRequest \in Due

(* It is the only one that is due, and in one place.                       *)
OnlyTheAwaited ==
  /\ ~Holds(toServer, OtherDue) /\ ~Holds(toClient, OtherDue)
  /\ ~Holds(posted, OtherReports)
  /\ PaceDue => PaceRequest = waiting
  /\ ModifyDue => ModifyRequest = waiting

InOnePlace ==
  /\ Once(toServer, Due) /\ Once(toClient, Due) /\ Once(posted, DueReports)
  /\ Holds(toServer, Due) =>
       ~Holds(toClient, Due) /\ ~Holds(posted, DueReports) /\ ~PaceDue /\ ~ModifyDue
  /\ Holds(toClient, Due) => ~Holds(posted, DueReports) /\ ~PaceDue /\ ~ModifyDue
  /\ Holds(posted, DueReports) => ~PaceDue /\ ~ModifyDue

OfThePast == \A i \in 1..Len(from) : from[i] <= connections

Awaited == OnlyTheAwaited /\ InOnePlace /\ OfThePast

(* The sets depend on the connection and on what the client gave up only.  *)
LEMMA SameSets ==
  ASSUME UNCHANGED <<handler, from, waiting, givenUp>>
  PROVE  /\ Due' = Due /\ DueReports' = DueReports
         /\ OtherDue' = OtherDue /\ OtherReports' = OtherReports
PROOF
  <1>1. Due' = Due
    BY DEF Due
  <1>2. DueReports' = DueReports
    BY <1>1 DEF DueReports, Reports, RequestOf
  <1>3. QED
    BY <1>1, <1>2 DEF OtherDue, OtherReports

(* The messages of both queues are the client's; what it has due counts.   *)
LEMMA Members ==
  ASSUME IInv
  PROVE  /\ Mine(from, handler) \subseteq [kind : Kinds, id : Nat]
         /\ \A m \in Mine(from, handler) : m = [kind |-> m.kind, id |-> m.id]
         /\ \A m : m \in OtherDue <=> m \in Due /\ m # waiting
         /\ \A p : p \in OtherReports <=> p \in DueReports /\ RequestOf(p) # waiting
         /\ \A op \in OfState : \A ok : Report(op, None, ok) \notin DueReports
         /\ \A op \in OfRequest : \A id, ok :
              /\ RequestOf(Report(op, id, ok))
                   = [kind |-> IF op = "Connected" THEN "Connect" ELSE "Transmit", id |-> id]
              /\ Report(op, id, ok) \in DueReports => RequestOf(Report(op, id, ok)) \in Due
         /\ \A p \in Reports(from) :
              p.op \in OfRequest /\ from[p.id] = handler /\ RequestOf(p) \in Due
                => p \in DueReports
PROOF
  <1>1. Len(from) \in Nat
    BY DEF IInv, Network
  <1>2. Mine(from, handler) \subseteq [kind : Kinds, id : Nat]
    BY <1>1 DEF Mine
  <1>3. \A op \in OfState : op \notin OfRequest
    BY DEF OfState, OfRequest
  <1>4. QED
    BY <1>2, <1>3 DEF OtherDue, OtherReports, DueReports, RequestOf, Report

(* What is left of the reports when one is taken or withdrawn.             *)
Lessened(q) ==
  /\ q \in Seq(Reports(from)) /\ Once(q, DueReports) /\ ~Holds(q, OtherReports)
  /\ Holds(q, DueReports) => Holds(posted, DueReports)

LEMMA Lessening ==
  ASSUME IInv, Awaited
  PROVE  /\ Lessened(posted) /\ Lessened(Unheard)
         /\ posted # <<>> => Lessened(Tail(posted))
         /\ \A q : \A op \in OfState, ok \in BOOLEAN :
              Lessened(q) => Lessened(Append(q, Report(op, None, ok)))
PROOF
  <1> DEFINE P == Reports(from)
  <1>1. posted \in Seq(P)
    BY DEF IInv, Network
  <1>2. Lessened(posted)
    BY <1>1 DEF Lessened, Awaited, OnlyTheAwaited, InOnePlace
  <1>3. Lessened(Unheard)
    <2> DEFINE own == {i \in DOMAIN posted : ForState(posted[i])}
    <2>1. CASE own = {}
      BY <1>2, <2>1 DEF Unheard
    <2>2. CASE own # {}
      <3> DEFINE i == CHOOSE j \in own : TRUE
      <3>1. i \in 1..Len(posted) /\ Unheard = RemoveAt(posted, i)
        BY <1>1, <2>2 DEF Unheard
      <3> HIDE DEF i
      <3>2. RemoveAt(posted, i) \in Seq(P)
        BY <1>1, <3>1, Queues
      <3>3. QED
        BY <1>1, <1>2, <3>1, <3>2, Elsewhere DEF Lessened
    <2>3. QED
      BY <2>1, <2>2
  <1>4. posted # <<>> => Lessened(Tail(posted))
    <2>1. posted # <<>> => Tail(posted) \in Seq(P)
      BY <1>1
    <2>2. QED
      BY <1>1, <1>2, <2>1, Elsewhere DEF Lessened
  <1>5. ASSUME NEW q, NEW op \in OfState, NEW ok \in BOOLEAN, Lessened(q)
        PROVE  Lessened(Append(q, Report(op, None, ok)))
    <2> DEFINE e == Report(op, None, ok)
    <2>1. q \in Seq(P)
      BY <1>5 DEF Lessened
    <2>2. e \in P /\ e \notin DueReports /\ e \notin OtherReports
      BY Posting, Members DEF IInv
    <2> HIDE DEF e, P
    <2>3. Append(q, e) \in Seq(P)
      BY <2>1, <2>2
    <2>4. QED
      BY <1>5, <2>1, <2>2, <2>3, Elsewhere DEF Lessened, P, e
  <1>6. QED
    BY <1>2, <1>3, <1>4, <1>5

(* A step of the service that leaves the awaited request in one place.     *)
Settled ==
  /\ UNCHANGED <<handler, connections, from, waiting, givenUp>>
  /\ ~Holds(toServer', OtherDue) /\ Once(toServer', Due)
  /\ ~Holds(toClient', OtherDue) /\ Once(toClient', Due)
  /\ Once(posted', DueReports) /\ ~Holds(posted', OtherReports)
  /\ PaceDue' => PaceRequest' = waiting
  /\ ModifyDue' => ModifyRequest' = waiting
  /\ Holds(toServer', Due) =>
       ~Holds(toClient', Due) /\ ~Holds(posted', DueReports) /\ ~PaceDue' /\ ~ModifyDue'
  /\ Holds(toClient', Due) => ~Holds(posted', DueReports) /\ ~PaceDue' /\ ~ModifyDue'
  /\ Holds(posted', DueReports) => ~PaceDue' /\ ~ModifyDue'

LEMMA Settles == Settled /\ Awaited => Awaited'
PROOF
  <1> SUFFICES ASSUME Settled, Awaited PROVE Awaited'
    OBVIOUS
  <1>1. /\ Due' = Due /\ DueReports' = DueReports
        /\ OtherDue' = OtherDue /\ OtherReports' = OtherReports
    BY SameSets DEF Settled
  <1>2. OnlyTheAwaited' /\ InOnePlace'
    BY <1>1 DEF Settled, OnlyTheAwaited, InOnePlace, Holds, Once
  <1>3. OfThePast'
    BY DEF Settled, Awaited, OfThePast
  <1>4. QED
    BY <1>2, <1>3 DEF Awaited

(* The message m goes to the client, from where it was.                    *)
LEMMA Answering ==
  ASSUME IInv, Awaited, NEW m \in Mine(from, handler),
         m \in Due => m = waiting /\ ~Holds(toClient, Due),
         toClient' = Append(toClient, m)
  PROVE  /\ ~Holds(toClient', OtherDue) /\ Once(toClient', Due)
         /\ Holds(toClient', Due) => Holds(toClient, Due) \/ m \in Due
PROOF
  <1>1. toClient \in Seq(Mine(from, handler))
    BY DEF IInv, Network
  <1>2. QED
    BY <1>1, Elsewhere, Members DEF Awaited, OnlyTheAwaited, InOnePlace

(* A request is taken: if it is the awaited one, it is nowhere else.       *)
LEMMA TakenOnce ==
  ASSUME IInv, Awaited, NEW kind \in Kinds, Receives(kind)
  PROVE  LET m == [kind |-> kind, id |-> Id]
         IN /\ m \in Mine(from, handler) /\ UNCHANGED <<handler, connections, from>>
            /\ ~Holds(toServer', OtherDue) /\ Once(toServer', Due)
            /\ Holds(toServer', Due) => Holds(toServer, Due)
            /\ m \in Due => /\ m = waiting /\ ~Holds(toServer', Due)
                            /\ ~Holds(toClient, Due) /\ ~Holds(posted, DueReports)
                            /\ ~PaceDue /\ ~ModifyDue
            /\ \A k \in Kinds : Answer(k, Id) => toClient' = Append(toClient, [kind |-> k, id |-> Id])
PROOF
  <1> DEFINE m == [kind |-> kind, id |-> Id]
  <1>1. /\ toServer \in Seq(Mine(from, handler)) /\ toServer # <<>>
        /\ toServer' = Tail(toServer) /\ Head(toServer) \in Mine(from, handler)
        /\ UNCHANGED <<handler, connections, from>>
    BY DEF IInv, Network, Receives
  <1>2. Head(toServer) = m
    BY <1>1, Members DEF Receives, Id
  <1> HIDE DEF m
  <1>3. \A F : /\ Holds(toServer, F) <=> m \in F \/ Holds(toServer', F)
               /\ Once(toServer, F) => Once(toServer', F) /\ (m \in F => ~Holds(toServer', F))
    BY <1>1, <1>2, Elsewhere
  <1>4. /\ ~Holds(toServer', OtherDue) /\ Once(toServer', Due)
        /\ Holds(toServer', Due) => Holds(toServer, Due)
        /\ m \in Due => /\ m = waiting /\ ~Holds(toServer', Due)
                        /\ ~Holds(toClient, Due) /\ ~Holds(posted, DueReports)
                        /\ ~PaceDue /\ ~ModifyDue
    BY <1>3, Members DEF Awaited, OnlyTheAwaited, InOnePlace
  <1>5. QED
    BY <1>1, <1>2, <1>4 DEF m, Answer

(* The workflow owes the same as before, or nothing.                       *)
OwesNoMore ==
  /\ PaceDue' => PaceDue /\ PaceRequest' = PaceRequest
  /\ ModifyDue' => ModifyDue /\ ModifyRequest' = ModifyRequest

LEMMA OwesTheSame ==
  ASSUME UNCHANGED <<waiting, givenUp>>,
         state' = state \/ (state' \notin PaceStates /\ state' \notin ModifyStates)
           \/ (state \in PaceStates /\ state' \in PaceStates)
           \/ (state \in ModifyStates /\ state' \in ModifyStates),
         ctx'.pace = ctx.pace, ctx'.modify = ctx.modify
  PROVE  OwesNoMore
BY DEF OwesNoMore, PaceDue, ModifyDue, PaceRequest, ModifyRequest, Due, PaceStates, ModifyStates

(* A request is taken and answered at once, handed on, or dropped.         *)
LEMMA TakenAndAnswered ==
  ASSUME IInv, Awaited, NEW kind \in Kinds, Receives(kind), UNCHANGED <<waiting, givenUp>>,
         Answer(kind, Id) \/ UNCHANGED toClient, Lessened(posted'), OwesNoMore
  PROVE  Awaited'
PROOF
  <1> DEFINE m == [kind |-> kind, id |-> Id]
  <1>1. /\ m \in Mine(from, handler) /\ UNCHANGED <<handler, connections, from>>
        /\ ~Holds(toServer', OtherDue) /\ Once(toServer', Due)
        /\ Holds(toServer', Due) => Holds(toServer, Due)
        /\ m \in Due => /\ m = waiting /\ ~Holds(toServer', Due)
                        /\ ~Holds(toClient, Due) /\ ~Holds(posted, DueReports)
                        /\ ~PaceDue /\ ~ModifyDue
        /\ toClient' = Append(toClient, m) \/ UNCHANGED toClient
    BY TakenOnce
  <1> HIDE DEF m
  <1>2. /\ ~Holds(toClient', OtherDue) /\ Once(toClient', Due)
        /\ Holds(toClient', Due) => Holds(toClient, Due) \/ m \in Due
    BY <1>1, Answering DEF Awaited, OnlyTheAwaited, InOnePlace
  <1>3. Settled
    BY <1>1, <1>2 DEF Settled, Lessened, OwesNoMore, Awaited, OnlyTheAwaited, InOnePlace
  <1>4. QED
    BY <1>3, Settles

(* A request is handed to the reader's thread.                             *)
LEMMA TakenAndPosted ==
  ASSUME IInv, Awaited, NEW kind \in Kinds, Receives(kind), UNCHANGED <<waiting, givenUp>>,
         UNCHANGED toClient, OwesNoMore, NEW op \in OfRequest, NEW ok \in BOOLEAN,
         kind = IF op = "Connected" THEN "Connect" ELSE "Transmit",
         posted' = Append(posted, Report(op, Id, ok))
  PROVE  Awaited'
PROOF
  <1> DEFINE m == [kind |-> kind, id |-> Id]
  <1> DEFINE e == Report(op, Id, ok)
  <1>1. /\ m \in Mine(from, handler) /\ UNCHANGED <<handler, connections, from>>
        /\ ~Holds(toServer', OtherDue) /\ Once(toServer', Due)
        /\ Holds(toServer', Due) => Holds(toServer, Due)
        /\ m \in Due => /\ m = waiting /\ ~Holds(toServer', Due)
                        /\ ~Holds(toClient, Due) /\ ~Holds(posted, DueReports)
                        /\ ~PaceDue /\ ~ModifyDue
    BY TakenOnce
  <1>2. /\ e \in Reports(from) /\ RequestOf(e) = m
        /\ e \in DueReports => m \in Due
        /\ e \notin OtherReports \/ (m # waiting /\ m \in Due)
    BY Members, Posting, Taken DEF IInv
  <1> HIDE DEF m, e
  <1>3. posted \in Seq(Reports(from)) /\ posted' = Append(posted, e)
    BY DEF IInv, Network, e
  <1>4. /\ Once(posted', DueReports) /\ ~Holds(posted', OtherReports)
        /\ Holds(posted', DueReports) => Holds(posted, DueReports) \/ m \in Due
    BY <1>1, <1>2, <1>3, Elsewhere DEF Awaited, OnlyTheAwaited, InOnePlace
  <1>5. Settled
    BY <1>1, <1>4 DEF Settled, OwesNoMore, Awaited, OnlyTheAwaited, InOnePlace
  <1>6. QED
    BY <1>5, Settles

(* A request becomes the workflow's, which had none.                       *)
LEMMA TakenAndKept ==
  ASSUME IInv, Awaited, NEW kind \in Kinds, Receives(kind), UNCHANGED <<waiting, givenUp>>,
         UNCHANGED toClient, Lessened(posted'),
         \/ /\ kind = "EstablishPACEChannel" /\ state' \in PaceStates
            /\ PaceRequest' = [kind |-> kind, id |-> Id]
         \/ /\ kind = "ModifyPIN" /\ state' \in ModifyStates
            /\ ModifyRequest' = [kind |-> kind, id |-> Id]
  PROVE  Awaited'
PROOF
  <1> DEFINE m == [kind |-> kind, id |-> Id]
  <1>1. /\ m \in Mine(from, handler) /\ UNCHANGED <<handler, connections, from>>
        /\ ~Holds(toServer', OtherDue) /\ Once(toServer', Due)
        /\ Holds(toServer', Due) => Holds(toServer, Due)
        /\ m \in Due => /\ m = waiting /\ ~Holds(toServer', Due)
                        /\ ~Holds(toClient, Due) /\ ~Holds(posted, DueReports)
    BY TakenOnce
  <1>2. /\ PaceDue' => m \in Due /\ PaceRequest' = m
        /\ ModifyDue' => m \in Due /\ ModifyRequest' = m
        /\ ~(PaceDue' /\ ModifyDue')
    BY DEF PaceDue, ModifyDue, Due, PaceStates, ModifyStates
  <1> HIDE DEF m
  <1>3. Settled
    BY <1>1, <1>2 DEF Settled, Lessened, Awaited, OnlyTheAwaited, InOnePlace
  <1>4. QED
    BY <1>3, Settles

(* Nothing goes to or comes from the client.                               *)
LEMMA NothingSent ==
  ASSUME IInv, Awaited,
         UNCHANGED <<handler, connections, from, toServer, toClient, waiting, givenUp>>,
         Lessened(posted'), OwesNoMore
  PROVE  Awaited'
PROOF
  <1>1. Settled
    BY DEF Settled, Lessened, OwesNoMore, Awaited, OnlyTheAwaited, InOnePlace
  <1>2. QED
    BY <1>1, Settles

(* The workflow answers what it owes, or goes without an answer.           *)
LEMMA WorkflowAnswers ==
  ASSUME IInv, Awaited,
         UNCHANGED <<handler, connections, from, toServer, waiting, givenUp>>,
         Lessened(posted'), state' \notin PaceStates, state' \notin ModifyStates,
         \/ UNCHANGED toClient
         \/ /\ state \in PaceStates /\ ctx.pace # None
            /\ Answer("EstablishPACEChannel", ctx.pace)
         \/ /\ state \in ModifyStates /\ ctx.modify # None
            /\ Answer("ModifyPIN", ctx.modify)
  PROVE  Awaited'
PROOF
  <1>1. ~PaceDue' /\ ~ModifyDue'
    BY DEF PaceDue, ModifyDue
  <1>2. CASE UNCHANGED toClient
    <2>1. Settled
      BY <1>1, <1>2 DEF Settled, Lessened, Awaited, OnlyTheAwaited, InOnePlace
    <2>2. QED
      BY <2>1, Settles
  <1>3. ASSUME NEW m \in {PaceRequest, ModifyRequest},
               m = PaceRequest => state \in PaceStates /\ ctx.pace # None,
               m = ModifyRequest => state \in ModifyStates /\ ctx.modify # None,
               toClient' = Append(toClient, m)
        PROVE  Awaited'
    <2>1. state # "Final"
      BY <1>3 DEF PaceStates, ModifyStates
    <2>2. m \in Mine(from, handler)
      BY <1>3, <2>1 DEF IInv, ContextOfClient, Asked, Mine, PaceRequest, ModifyRequest, Kinds
    <2>3. m \in Due => (m = PaceRequest /\ PaceDue) \/ (m = ModifyRequest /\ ModifyDue)
      BY <1>3 DEF PaceDue, ModifyDue
    <2>4. m \in Due => /\ m = waiting /\ ~Holds(toServer, Due)
                       /\ ~Holds(toClient, Due) /\ ~Holds(posted, DueReports)
      BY <2>3 DEF Awaited, OnlyTheAwaited, InOnePlace
    <2>5. /\ ~Holds(toClient', OtherDue) /\ Once(toClient', Due)
          /\ Holds(toClient', Due) => Holds(toClient, Due) \/ m \in Due
      BY <1>3, <2>2, <2>4, Answering
    <2>6. Settled
      BY <1>1, <2>4, <2>5 DEF Settled, Lessened, Awaited, OnlyTheAwaited, InOnePlace
    <2>7. QED
      BY <2>6, Settles
  <1>4. PaceRequest # ModifyRequest
    BY DEF PaceRequest, ModifyRequest
  <1>5. CASE state \in PaceStates /\ ctx.pace # None /\ Answer("EstablishPACEChannel", ctx.pace)
    <2>1. toClient' = Append(toClient, PaceRequest)
      BY <1>5 DEF Answer, PaceRequest
    <2>2. QED
      BY <1>3, <1>4, <1>5, <2>1
  <1>6. CASE state \in ModifyStates /\ ctx.modify # None /\ Answer("ModifyPIN", ctx.modify)
    <2>1. toClient' = Append(toClient, ModifyRequest)
      BY <1>6 DEF Answer, ModifyRequest
    <2>2. QED
      BY <1>3, <1>4, <1>6, <2>1
  <1>7. QED
    BY <1>2, <1>5, <1>6

LEMMA RespondsOnce ==
  ASSUME IInv, Awaited, NEW kind \in {"ModifyPIN", "EstablishPACEChannel"},
         NEW c, NEW clear, Respond(kind, c, clear),
         c.pace = ctx.pace, c.modify = ctx.modify,
         state \in IF kind = "ModifyPIN" THEN ModifyStates ELSE PaceStates,
         UNCHANGED <<handler, connections, from, toServer, waiting, givenUp>>,
         Lessened(posted')
  PROVE  Awaited'
PROOF
  <1>1. state' \notin PaceStates /\ state' \notin ModifyStates
    BY DEF Respond, PaceStates, ModifyStates
  <1>2. CASE kind = "ModifyPIN"
    <2>1. UNCHANGED toClient \/ (ctx.modify # None /\ Answer("ModifyPIN", ctx.modify))
      BY <1>2 DEF Respond
    <2>2. QED
      BY <1>1, <1>2, <2>1, WorkflowAnswers
  <1>3. CASE kind = "EstablishPACEChannel"
    <2>1. UNCHANGED toClient \/ (ctx.pace # None /\ Answer("EstablishPACEChannel", ctx.pace))
      BY <1>3 DEF Respond
    <2>2. QED
      BY <1>1, <1>3, <2>1, WorkflowAnswers
  <1>4. QED
    BY <1>2, <1>3

(* What was reported of a request is answered, if its client is there.     *)
LEMMA ReportAnswered ==
  ASSUME IInv, Awaited, NEW op \in OfRequest, Delivered(op), Dequeue, UNCHANGED workflow,
         UNCHANGED <<waiting, givenUp>>,
         NEW kind, kind = IF op = "Connected" THEN "Connect" ELSE "Transmit",
         IF from[Head(posted).id] = handler THEN Answer(kind, Head(posted).id)
                                            ELSE UNCHANGED toClient
  PROVE  Awaited'
PROOF
  <1> DEFINE p == Head(posted)
  <1> DEFINE m == [kind |-> kind, id |-> p.id]
  <1>1. /\ posted \in Seq(Reports(from)) /\ posted # <<>> /\ posted' = Tail(posted)
        /\ p \in Reports(from) /\ p.op = op /\ p.id \in 1..Len(from)
        /\ UNCHANGED <<handler, connections, from, toServer>>
    BY Heard, Posting DEF IInv, Network, Delivered, Dequeue
  <1>2. RequestOf(p) = m
    BY <1>1 DEF RequestOf
  <1>3. OwesNoMore
    BY OwesTheSame DEF workflow
  <1>4. Lessened(posted')
    BY <1>1, Lessening
  <1>5. CASE from[p.id] # handler
    BY <1>1, <1>3, <1>4, <1>5, NothingSent
  <1>6. CASE from[p.id] = handler
    <2>1. m \in Mine(from, handler) /\ toClient' = Append(toClient, m)
      BY <1>1, <1>6 DEF Mine, Answer, Kinds
    <2>2. m \in Due => p \in DueReports
      BY <1>1, <1>2, <1>6, Members
    <2> HIDE DEF m, p
    <2>3. m \in Due => p \in DueReports /\ ~Holds(posted', DueReports) /\ Holds(posted, DueReports)
      BY <1>1, <2>2, Elsewhere DEF Awaited, InOnePlace, p
    <2>4. p \notin OtherReports
      BY <1>1, Elsewhere DEF Awaited, OnlyTheAwaited, p
    <2>5. m \in Due => /\ m = waiting /\ ~Holds(toServer, Due) /\ ~Holds(toClient, Due)
                       /\ ~PaceDue /\ ~ModifyDue
      BY <1>2, <2>3, <2>4, Members DEF Awaited, InOnePlace
    <2>6. /\ ~Holds(toClient', OtherDue) /\ Once(toClient', Due)
          /\ Holds(toClient', Due) => Holds(toClient, Due) \/ m \in Due
      BY <2>1, <2>5, Answering
    <2>7. Settled
      BY <1>1, <1>3, <1>4, <2>3, <2>5, <2>6
         DEF Settled, Lessened, OwesNoMore, Awaited, OnlyTheAwaited, InOnePlace
    <2>8. QED
      BY <2>7, Settles
  <1>7. QED
    BY <1>5, <1>6

LEMMA RequestsOnce ==
  ASSUME IInv, Awaited, UNCHANGED <<waiting, givenUp>>,
         \/ handleIfdConnect \/ handleIfdDisconnect \/ handleIfdTransmit
         \/ handleIfdEstablishPaceChannel \/ handleIfdModifyPIN
  PROVE  Awaited'
PROOF
  <1>1. Lessened(posted)
    BY Lessening
  <1>2. UNCHANGED workflow => OwesNoMore
    BY OwesTheSame DEF workflow
  <1>3. CASE handleIfdConnect
    <2>1. Receives("Connect") /\ "Connect" \in Kinds /\ OwesNoMore
      BY <1>2, <1>3 DEF handleIfdConnect, Kinds
    <2>2. CASE Answer("Connect", Id) /\ UNCHANGED posted
      BY <1>1, <2>1, <2>2, TakenAndAnswered
    <2>3. CASE createCardConnectionWorker(Id) /\ UNCHANGED toClient
      BY <2>1, <2>3, TakenAndPosted DEF createCardConnectionWorker, OfRequest
    <2>4. QED
      BY <1>3, <2>2, <2>3 DEF handleIfdConnect
  <1>4. CASE handleIfdDisconnect
    BY <1>1, <1>2, <1>4, TakenAndAnswered DEF handleIfdDisconnect, Kinds
  <1>5. CASE handleIfdTransmit
    <2>1. Receives("Transmit") /\ "Transmit" \in Kinds /\ UNCHANGED state
      BY <1>5 DEF handleIfdTransmit, Kinds
    <2>2. ctx' \in {ctx, resetPacePasswords(ctx)}
      BY <1>5 DEF handleIfdTransmit
    <2>3. OwesNoMore
      BY <2>1, <2>2, OwesTheSame, ResetContext DEF IInv, Workflow
    <2>4. \/ Answer("Transmit", Id) /\ UNCHANGED posted
          \/ /\ UNCHANGED toClient
             /\ \E ok \in BOOLEAN : posted' = Append(posted, Report("Transmitted", Id, ok))
      BY <1>5 DEF handleIfdTransmit, Outcomes
    <2>5. QED
      BY <1>1, <2>1, <2>3, <2>4, TakenAndAnswered, TakenAndPosted DEF OfRequest
  <1>6. CASE handleIfdEstablishPaceChannel
    <2>1. Receives("EstablishPACEChannel") /\ "EstablishPACEChannel" \in Kinds
      BY <1>6 DEF handleIfdEstablishPaceChannel, Kinds
    <2>2. CASE UNCHANGED <<posted, workflow>>
               /\ (Answer("EstablishPACEChannel", Id) \/ UNCHANGED toClient)
      BY <1>1, <1>2, <2>1, <2>2, TakenAndAnswered
    <2>3. CASE /\ UNCHANGED toClient /\ state' = "UpdateRetryCounter"
               /\ ctx' = [ctx EXCEPT !.pace = Id, !.connection = TRUE]
               /\ \E ok \in BOOLEAN : posted' = Append(posted, Report("Counter", None, ok))
      <3>1. Lessened(posted')
        BY <1>1, <2>3, Lessening DEF OfState
      <3>2. PaceRequest' = [kind |-> "EstablishPACEChannel", id |-> Id]
        BY <2>3 DEF PaceRequest, IInv, Workflow, Contexts
      <3>3. QED
        BY <2>1, <2>3, <3>1, <3>2, TakenAndKept DEF PaceStates
    <2>4. QED
      BY <1>6, <2>2, <2>3 DEF handleIfdEstablishPaceChannel, Outcomes, workflow
  <1>7. CASE handleIfdModifyPIN
    <2> DEFINE c == [ctx EXCEPT !.modify = Id, !.connection = TRUE]
    <2>1. Receives("ModifyPIN") /\ "ModifyPIN" \in Kinds /\ c.modify = Id
      BY <1>7 DEF handleIfdModifyPIN, Kinds, IInv, Workflow, Contexts
    <2> HIDE DEF c
    <2>2. CASE UNCHANGED <<posted, workflow>>
               /\ (Answer("ModifyPIN", Id) \/ UNCHANGED toClient)
      BY <1>1, <1>2, <2>1, <2>2, TakenAndAnswered
    <2>3. CASE /\ UNCHANGED toClient
               /\ \/ AskUser("EnterNewPacePin", c) /\ UNCHANGED posted
                  \/ StateChangePinRemote(c)
      <3>1. Lessened(posted')
        BY <1>1, <2>3, Lessening DEF StateChangePinRemote, Outcomes, OfState
      <3>2. state' \in ModifyStates /\ ModifyRequest' = [kind |-> "ModifyPIN", id |-> Id]
        BY <2>1, <2>3 DEF AskUser, StateChangePinRemote, ModifyRequest, ModifyStates
      <3>3. QED
        BY <2>1, <2>3, <3>1, <3>2, TakenAndKept
    <2>4. QED
      BY <1>7, <2>2, <2>3 DEF handleIfdModifyPIN, workflow, c
  <1>8. QED
    BY <1>3, <1>4, <1>5, <1>6, <1>7

LEMMA ReportsOnce ==
  ASSUME IInv, Awaited, UNCHANGED <<waiting, givenUp>>,
         \/ onReaderChanged \/ onCreateCardConnectionCommandDone \/ onTransmitCardCommandDone
         \/ onEstablishConnectionDone \/ onChangePinDone
  PROVE  Awaited'
PROOF
  <1>1. CASE onReaderChanged
    <2>1. Delivered("Changed") /\ Dequeue /\ UNCHANGED <<toClient, workflow>>
      BY <1>1 DEF onReaderChanged
    <2>2. Lessened(posted') /\ OwesNoMore
      BY <2>1, Lessening, OwesTheSame DEF Delivered, Dequeue, workflow
    <2>3. QED
      BY <2>1, <2>2, NothingSent DEF Delivered
  <1>2. CASE onCreateCardConnectionCommandDone
    BY <1>2, ReportAnswered DEF onCreateCardConnectionCommandDone, OfRequest
  <1>3. CASE onTransmitCardCommandDone
    BY <1>3, ReportAnswered DEF onTransmitCardCommandDone, OfRequest
  <1>4. ASSUME NEW op, NEW kind \in {"ModifyPIN", "EstablishPACEChannel"}, NEW clear,
               Delivered(op), Dequeue, Respond(kind, ctx, clear),
               state = IF kind = "ModifyPIN" THEN "ChangePin" ELSE "EstablishPaceChannel"
        PROVE  Awaited'
    <2>1. Lessened(posted')
      BY <1>4, Lessening DEF Delivered, Dequeue
    <2>2. QED
      BY <1>4, <2>1, RespondsOnce DEF Delivered, PaceStates, ModifyStates
  <1>5. CASE onEstablishConnectionDone
    BY <1>4, <1>5 DEF onEstablishConnectionDone
  <1>6. CASE onChangePinDone
    BY <1>4, <1>6 DEF onChangePinDone
  <1>7. QED
    BY <1>1, <1>2, <1>3, <1>5, <1>6

LEMMA CounterOnce ==
  ASSUME IInv, Awaited, UNCHANGED <<waiting, givenUp>>, onUpdateRetryCounterDone
  PROVE  Awaited'
PROOF
  <1> DEFINE gone == [ctx EXCEPT !.connection = FALSE]
  <1>1. /\ Delivered("Counter") /\ state = "UpdateRetryCounter"
        /\ UNCHANGED <<handler, connections, from, toServer>>
    BY DEF onUpdateRetryCounterDone, Delivered
  <1>2. Lessened(Tail(posted))
    BY <1>1, Lessening DEF Delivered
  <1>3. CASE Respond("EstablishPACEChannel", gone, FALSE) /\ Dequeue
    <2>1. gone.pace = ctx.pace /\ gone.modify = ctx.modify
      BY DEF IInv, Workflow, Contexts
    <2> HIDE DEF gone
    <2>2. QED
      BY <1>1, <1>2, <1>3, <2>1, RespondsOnce DEF Dequeue, PaceStates
  <1>4. ASSUME NEW c \in {ctx, resetPacePasswords(ctx)}, UNCHANGED toClient,
               \/ AskUser("EnterPacePassword", c) /\ Dequeue
               \/ StateEstablishPaceChannelRemote(c, Tail(posted))
        PROVE  Awaited'
    <2>1. c.pace = ctx.pace /\ c.modify = ctx.modify
      BY <1>4, ResetContext DEF IInv, Workflow
    <2>2. ctx' = c /\ state' \in PaceStates
      BY <1>4 DEF AskUser, StateEstablishPaceChannelRemote, PaceStates
    <2>3. Lessened(posted')
      BY <1>2, <1>4, Lessening
         DEF Dequeue, StateEstablishPaceChannelRemote, Outcomes, OfState
    <2>4. OwesNoMore
      BY <1>1, <2>1, <2>2, OwesTheSame DEF PaceStates
    <2>5. QED
      BY <1>1, <1>4, <2>3, <2>4, NothingSent
  <1>5. \/ Respond("EstablishPACEChannel", gone, FALSE) /\ Dequeue
        \/ \E c \in {ctx, resetPacePasswords(ctx)} :
             /\ UNCHANGED toClient
             /\ \/ AskUser("EnterPacePassword", c) /\ Dequeue
                \/ StateEstablishPaceChannelRemote(c, Tail(posted))
    BY DEF onUpdateRetryCounterDone
  <1>6. QED
    BY <1>3, <1>4, <1>5

(* The user's input goes to the workflow, the user's refusal to the client. *)
LEMMA InputOnce ==
  ASSUME IInv, Awaited, UNCHANGED <<waiting, givenUp>>,
         CardMoves \/ passwordEntered \/ cancelPasswordRequest
  PROVE  Awaited'
PROOF
  <1>1. CASE CardMoves
    <2>1. Lessened(posted')
      BY <1>1, Lessening DEF CardMoves, OfState
    <2>2. OwesNoMore /\ UNCHANGED network
      BY <1>1, OwesTheSame DEF CardMoves, workflow
    <2>3. QED
      BY <2>1, <2>2, NothingSent DEF network
  <1>2. CASE passwordEntered
    <2> DEFINE p == [asked |-> Last(views).asked, typed |-> handler]
    <2> DEFINE c == IF Last(views).dialog = "EnterNewPacePin"
                      THEN [ctx EXCEPT !.newPin = p] ELSE [ctx EXCEPT !.pin = p]
    <2>1. /\ UNCHANGED network
          /\ \/ state = "EnterPacePassword" /\ StateEstablishPaceChannelRemote(c, posted)
             \/ state = "EnterNewPacePin" /\ StateChangePinRemote(c)
             \/ ctx' = c /\ UNCHANGED <<state, posted>>
      BY <1>2 DEF passwordEntered
    <2>2. c.pace = ctx.pace /\ c.modify = ctx.modify
      BY DEF IInv, Workflow, Contexts
    <2> HIDE DEF c
    <2>3. Lessened(posted')
      BY <2>1, Lessening
         DEF StateEstablishPaceChannelRemote, StateChangePinRemote, Outcomes, OfState
    <2>4. /\ ctx' = c
          /\ \/ state' = state
             \/ state = "EnterPacePassword" /\ state' = "EstablishPaceChannel"
             \/ state = "EnterNewPacePin" /\ state' = "ChangePin"
      BY <2>1 DEF StateEstablishPaceChannelRemote, StateChangePinRemote
    <2>5. OwesNoMore
      BY <2>2, <2>4, OwesTheSame DEF PaceStates, ModifyStates
    <2>6. QED
      BY <2>1, <2>3, <2>5, NothingSent DEF network
  <1>3. CASE cancelPasswordRequest
    <2>1. /\ UNCHANGED <<handler, connections, from, toServer, posted, ctx>>
          /\ Lessened(posted')
      BY <1>3, Lessening DEF cancelPasswordRequest, Unanswered
    <2>2. CASE state = "EnterPacePassword"
      <3>1. state' = "Process" /\ Answer("EstablishPACEChannel", ctx.pace) /\ ctx.pace # None
        BY <1>3, <2>2 DEF cancelPasswordRequest, IInv, HasMessage
      <3>2. QED
        BY <2>1, <2>2, <3>1, WorkflowAnswers DEF PaceStates, ModifyStates
    <2>3. CASE state = "EnterNewPacePin"
      <3>1. state' = "Process" /\ Answer("ModifyPIN", ctx.modify) /\ ctx.modify # None
        BY <1>3, <2>3 DEF cancelPasswordRequest, IInv, HasMessage
      <3>2. QED
        BY <2>1, <2>3, <3>1, WorkflowAnswers DEF PaceStates, ModifyStates
    <2>4. CASE UNCHANGED <<state, toClient>>
      BY <2>1, <2>4, OwesTheSame, NothingSent
    <2>5. QED
      BY <1>3, <2>2, <2>3, <2>4 DEF cancelPasswordRequest
  <1>4. QED
    BY <1>1, <1>2, <1>3

(***************************************************************************)
(* The client's own steps, and those that begin or end its connection.     *)
(***************************************************************************)
NothingDue ==
  /\ ~Holds(toServer, Due) /\ ~Holds(toClient, Due) /\ ~Holds(posted, DueReports)
  /\ ~PaceDue /\ ~ModifyDue

LEMMA NothingToAwait ==
  /\ NothingDue /\ OfThePast => Awaited
  /\ NothingDue' /\ OfThePast' => Awaited'
BY DEF NothingDue, Awaited, OnlyTheAwaited, InOnePlace, OtherDue, OtherReports, Holds, Once

LEMMA NothingOnNoRequest == Awaited /\ waiting = NoRequest => NothingDue
PROOF
  <1>1. NoRequest \notin Due
    BY DEF NoRequest, Due, Kinds
  <1>2. waiting = NoRequest => OtherDue = Due /\ OtherReports = DueReports
    BY <1>1 DEF OtherDue, OtherReports, DueReports
  <1>3. QED
    BY <1>1, <1>2 DEF Awaited, OnlyTheAwaited, NothingDue, PaceDue, ModifyDue

LEMMA NothingAtFirst == RInit => Awaited
PROOF
  <1> SUFFICES ASSUME RInit PROVE Awaited
    OBVIOUS
  <1>1. NothingDue /\ OfThePast
    BY DEF RInit, Init, NothingDue, OfThePast, Holds, PaceDue, ModifyDue, PaceStates,
       ModifyStates
  <1>2. QED
    BY <1>1, NothingToAwait

(* What was asked for on an earlier connection is not due on the next.     *)
LEMMA NothingAtBeginning == ASSUME IInv, Awaited, onWebsocketConnection PROVE Awaited'
PROOF
  <1>1. /\ handler = None /\ handler' = connections + 1 /\ connections' = connections + 1
        /\ connections \in Nat /\ ctx' = NoContext
        /\ UNCHANGED <<toServer, toClient, from, posted>>
    BY RemoteAssumption, ResetContext DEF IInv, Network, Workflow, NothingBefore, onWebsocketConnection
  <1>2. toServer = <<>> /\ toClient = <<>>
    BY <1>1, NobodyAsked DEF IInv
  <1>3. \A p \in DueReports' : p.id \in 1..Len(from) /\ from[p.id] = connections + 1
    BY <1>1 DEF DueReports, Reports, OfRequest, OfState
  <1>4. from \in Seq(1..MaxConnections) /\ MaxConnections \in Nat
    BY RemoteAssumption DEF IInv, Network
  <1>5. DueReports' = {} /\ OfThePast'
    BY <1>1, <1>3, <1>4 DEF Awaited, OfThePast
  <1>6. NothingDue'
    BY <1>1, <1>2, <1>5, ResetContext DEF NothingDue, Holds, PaceDue, ModifyDue
  <1>7. QED
    BY <1>5, <1>6, NothingToAwait

(* Nothing is due to nobody.                                               *)
LEMMA NothingAtEnd ==
  ASSUME IInv, Awaited, LinkDown, ctx' = NoContext \/ state' = "Final"
  PROVE  Awaited'
PROOF
  <1>1. /\ handler' = 0 /\ toServer' = <<>> /\ toClient' = <<>>
        /\ UNCHANGED <<connections, from, posted>>
    BY DEF LinkDown, None
  <1>2. from \in Seq(1..MaxConnections) /\ MaxConnections \in Nat
    BY RemoteAssumption DEF IInv, Network
  <1>3. \A p \in DueReports' : p.id \in 1..Len(from) /\ from[p.id] = 0
    BY <1>1 DEF DueReports, Reports, OfRequest, OfState
  <1>4. DueReports' = {} /\ OfThePast'
    BY <1>1, <1>2, <1>3 DEF Awaited, OfThePast
  <1>5. ~PaceDue' /\ ~ModifyDue'
    BY ResetContext DEF PaceDue, ModifyDue, PaceStates, ModifyStates
  <1>6. NothingDue'
    BY <1>1, <1>4, <1>5 DEF NothingDue, Holds
  <1>7. QED
    BY <1>4, <1>6, NothingToAwait

LEMMA EndsOnce == ASSUME IInv, Awaited, Stopped \/ onDispatcherClosed PROVE Awaited'
PROOF
  <1>1. CASE onDispatcherClosed
    BY <1>1, NothingAtEnd, ResetContext DEF onDispatcherClosed, onConnectionClosed, IInv, Workflow
  <1>2. CASE Stopped
    <2>1. onUserCancelled
      BY <1>2 DEF Stopped
    <2>2. CASE LinkDown /\ state' = "Final"
      BY <2>2, NothingAtEnd
    <2>3. ASSUME NEW kind \in {"ModifyPIN", "EstablishPACEChannel"}, Respond(kind, ctx, FALSE),
                 state \in IF kind = "ModifyPIN" THEN ModifyStates ELSE PaceStates,
                 posted' = Unheard, UNCHANGED Unanswered
          PROVE  Awaited'
      <3>1. UNCHANGED <<waiting, givenUp>>
        BY <1>2, <2>3 DEF Stopped, Respond
      <3>2. QED
        BY <2>3, <3>1, Lessening, RespondsOnce DEF Unanswered
    <2>4. QED
      BY <2>1, <2>2, <2>3 DEF onUserCancelled
  <1>3. QED
    BY <1>1, <1>2

(* The new request is the only one.                                        *)
LEMMA SendsOnce == ASSUME IInv, Awaited, NEW kind \in Kinds, sendMessage(kind) PROVE Awaited'
PROOF
  <1> DEFINE m == [kind |-> kind, id |-> Len(from')]
  <1>1. /\ NothingDue /\ handler # None
        /\ UNCHANGED <<handler, connections, toClient, posted, workflow, givenUp>>
        /\ from' = Append(from, handler) /\ waiting' = m /\ toServer' = Append(toServer, m)
    BY NothingOnNoRequest DEF sendMessage
  <1>2. /\ handler \in 1..MaxConnections /\ handler = connections
        /\ from \in Seq(1..MaxConnections) /\ connections \in Nat
    BY <1>1, RemoteAssumption DEF IInv, Network, None
  <1>3. /\ Len(from') = Len(from) + 1 /\ from'[Len(from')] = handler /\ Len(from) \in Nat
        /\ \A i \in 1..Len(from) : i \in 1..Len(from') /\ from'[i] = from[i]
    BY <1>1, <1>2, OneMore
  <1>4. OfThePast'
    <2>1. \A i \in 1..Len(from') : i \in 1..Len(from) \/ i = Len(from')
      BY <1>3
    <2>2. QED
      BY <1>1, <1>2, <1>3, <2>1 DEF Awaited, OfThePast
  <1>5. Due' = Due
    BY <1>1 DEF Due
  <1>6. ~Holds(posted', DueReports')
    <2>1. posted \in Seq(Reports(from))
      BY DEF IInv, Network
    <2>2. ASSUME NEW i \in 1..Len(posted), posted[i] \in DueReports' PROVE FALSE
      <3> DEFINE p == posted[i]
      <3>0. p \in Reports(from) /\ p \in DueReports' /\ handler' = handler
        BY <1>1, <2>1, <2>2
      <3> HIDE DEF p
      <3>1. p \in Reports(from) /\ p.op \in OfRequest /\ from'[p.id] = handler /\ RequestOf(p) \in Due
        BY <1>5, <3>0 DEF DueReports, RequestOf
      <3>2. p.id \in 1..Len(from)
        BY <3>1, Posting DEF IInv
      <3>3. p \in DueReports
        BY <1>3, <3>1, <3>2 DEF DueReports
      <3>4. QED
        BY <1>1, <3>3 DEF NothingDue, Holds, p
    <2>3. QED
      BY <1>1, <2>2 DEF Holds
  <1>7. ~PaceDue' /\ ~ModifyDue'
    BY <1>1, <1>5 DEF NothingDue, PaceDue, ModifyDue, PaceRequest, ModifyRequest, workflow
  <1>8. toServer \in Seq([kind : Kinds, id : Nat]) /\ m \in [kind : Kinds, id : Nat]
    <2>1. toServer \in Seq(Mine(from, handler)) /\ Len(from') \in Nat
      BY <1>3 DEF IInv, Network
    <2>2. Mine(from, handler) \subseteq [kind : Kinds, id : Nat]
      BY Members
    <2>3. QED
      BY <2>1, <2>2, Larger
  <1> HIDE DEF m
  <1>9. /\ ~Holds(toServer', OtherDue') /\ Once(toServer', Due')
        /\ ~Holds(toClient', Due')
    BY <1>1, <1>5, <1>8, Elsewhere DEF NothingDue, OtherDue, Once, Holds
  <1>10. OnlyTheAwaited' /\ InOnePlace'
    <2>1. OtherDue' \subseteq Due' /\ OtherReports' \subseteq DueReports'
      BY DEF OtherDue, OtherReports
    <2>2. /\ ~Holds(toClient', OtherDue') /\ ~Holds(posted', OtherReports')
          /\ Once(toClient', Due') /\ Once(posted', DueReports')
      BY <1>6, <1>9, <2>1 DEF Holds, Once
    <2>3. QED
      BY <1>6, <1>7, <1>9, <2>2 DEF OnlyTheAwaited, InOnePlace
  <1>11. QED
    BY <1>4, <1>10 DEF Awaited

(* What is given up is not due any more.                                   *)
LEMMA GivesUp == ASSUME IInv, Awaited, TimedOut PROVE Awaited'
PROOF
  <1>1. Due' \subseteq OtherDue
    BY DEF TimedOut, Due, OtherDue
  <1>2. UNCHANGED <<toServer, toClient, posted, from, handler, connections, state, ctx>>
    BY DEF TimedOut, vars, network, workflow
  <1>3. DueReports' \subseteq OtherReports
    BY <1>1, <1>2 DEF DueReports, OtherReports, OtherDue, RequestOf, Reports
  <1>4. NothingDue'
    BY <1>1, <1>2, <1>3
       DEF NothingDue, Awaited, OnlyTheAwaited, Holds, PaceDue, ModifyDue, PaceRequest,
           ModifyRequest, OtherDue
  <1>5. OfThePast'
    BY <1>2 DEF Awaited, OfThePast
  <1>6. QED
    BY <1>4, <1>5, NothingToAwait

(* An answer is taken; it is the awaited one unless its kind was given up. *)
LEMMA TakesAnswer ==
  ASSUME IInv, Awaited, onMessageReceived
  PROVE  /\ Awaited'
         /\ waiting # NoRequest /\ waiting' = NoRequest =>
              Head(toClient).id = waiting.id \/ waiting.kind \in givenUp
PROOF
  <1> DEFINE h == Head(toClient)
  <1>1. /\ toClient \in Seq(Mine(from, handler)) /\ toClient # <<>> /\ toClient' = Tail(toClient)
        /\ h \in Mine(from, handler)
        /\ UNCHANGED <<handler, connections, from, toServer, posted, workflow, givenUp>>
        /\ waiting' = IF h.kind = waiting.kind THEN NoRequest ELSE waiting
    BY Elements DEF IInv, Network, onMessageReceived
  <1>2. h.kind \in Kinds /\ h.kind # NoRequest.kind /\ (h \in Due <=> h.kind \notin givenUp)
    BY <1>1, Members DEF Due, NoRequest, Kinds
  <1> HIDE DEF h
  <1>3. h \in Due => h = waiting
    BY <1>1, Elsewhere, Members DEF Awaited, OnlyTheAwaited, h
  <1>4. \A F : /\ Holds(toClient', F) => Holds(toClient, F)
               /\ Once(toClient, F) => Once(toClient', F)
               /\ h \in F => Holds(toClient, F)
               /\ Once(toClient, F) /\ h \in F => ~Holds(toClient', F)
    BY <1>1, Elsewhere DEF h
  <1>5. Due' = Due /\ DueReports' = DueReports
    BY <1>1 DEF Due, DueReports, Reports, RequestOf
  <1>6. UNCHANGED <<PaceDue, ModifyDue, PaceRequest, ModifyRequest>>
    BY <1>1, <1>5 DEF PaceDue, ModifyDue, PaceRequest, ModifyRequest, workflow
  <1>7. OfThePast'
    BY <1>1 DEF Awaited, OfThePast
  <1>8. CASE h.kind = waiting.kind
    <2>1. CASE h \in Due
      <3>1. NothingDue'
        BY <1>1, <1>4, <1>5, <1>6, <2>1 DEF NothingDue, Awaited, InOnePlace
      <3>2. QED
        BY <1>3, <1>7, <2>1, <3>1, NothingToAwait DEF h
    <2>2. CASE h \notin Due
      <3>1. waiting \notin Due
        BY <1>2, <1>8, <2>2 DEF Due
      <3>2. OtherDue = Due /\ OtherReports = DueReports
        BY <3>1 DEF OtherDue, OtherReports, DueReports
      <3>3. NothingDue'
        BY <1>1, <1>4, <1>5, <1>6, <3>1, <3>2
           DEF NothingDue, Awaited, OnlyTheAwaited, PaceDue, ModifyDue
      <3>4. QED
        BY <1>2, <1>7, <1>8, <2>2, <3>3, NothingToAwait
    <2>3. QED
      BY <2>1, <2>2
  <1>9. CASE h.kind # waiting.kind
    <2>1. UNCHANGED waiting
      BY <1>1, <1>9
    <2>2. /\ OtherDue' = OtherDue /\ OtherReports' = OtherReports
      BY <1>1, <2>1, SameSets
    <2>3. Settled
      BY <1>1, <1>4, <1>6, <2>1, <2>2
         DEF Settled, Awaited, OnlyTheAwaited, InOnePlace
    <2>4. QED
      BY <2>1, <2>3, Settles
  <1>10. QED
    BY <1>8, <1>9

(* Every step keeps it.                                                    *)
LEMMA StepAwaits == IInv /\ Awaited /\ [RNext]_rvars => Awaited'
PROOF
  <1> SUFFICES ASSUME IInv, Awaited, [RNext]_rvars PROVE Awaited'
    OBVIOUS
  <1>1. CASE Service /\ UNCHANGED <<waiting, givenUp>>
    BY <1>1, NothingAtBeginning, InputOnce, RequestsOnce, ReportsOnce, CounterOnce
       DEF Service, MainLoop
  <1>2. CASE Stopped \/ onDispatcherClosed
    BY <1>2, EndsOnce
  <1>3. CASE (\E kind \in Kinds : sendMessage(kind)) \/ TimedOut \/ onMessageReceived
    BY <1>3, SendsOnce, GivesUp, TakesAnswer
  <1>4. CASE UNCHANGED rvars
    BY <1>4, NothingSent, Lessening, OwesTheSame DEF rvars, vars, network, workflow
  <1>5. QED
    BY <1>1, <1>2, <1>3, <1>4 DEF RNext

(* The client takes the answer to its request and to no earlier one, but   *)
(* for those it gave up (RemoteCard::sendMessage, onMessageReceived).      *)
THEOREM AnswersMatch == Spec => AnswerFits
PROOF
  <1> DEFINE Fits ==
        waiting # NoRequest /\ waiting' = NoRequest
          /\ toClient # <<>> /\ toClient' = Tail(toClient) /\ UNCHANGED handler
        => Head(toClient).id = waiting.id \/ waiting.kind \in givenUp
  <1>1. ASSUME IInv, Awaited, [RNext]_rvars PROVE [Fits]_rvars
    <2>1. CASE onMessageReceived
      BY <1>1, <2>1, TakesAnswer
    <2>2. CASE TimedOut
      <3>1. toClient' = toClient /\ toClient \in Seq(Mine(from, handler))
        BY <1>1, <2>2 DEF TimedOut, vars, network, IInv, Network
      <3>2. toClient # <<>> => toClient' # Tail(toClient)
        <4>1. toClient # <<>> => Len(Tail(toClient)) = Len(toClient) - 1 /\ Len(toClient) \in Nat
          BY <3>1
        <4>2. QED
          BY <3>1, <4>1
      <3>3. QED
        BY <3>2
    <2>3. CASE Stopped \/ onDispatcherClosed
      <3>1. UNCHANGED waiting \/ LinkDown
        BY <2>3 DEF Stopped, onUserCancelled, onDispatcherClosed, onConnectionClosed, Respond
      <3>2. LinkDown /\ UNCHANGED handler => toClient = <<>>
        BY <1>1, NobodyAsked DEF LinkDown, IInv
      <3>3. QED
        BY <3>1, <3>2
    <2>4. CASE (Service /\ UNCHANGED <<waiting, givenUp>>) \/ UNCHANGED rvars
      BY <2>4 DEF rvars
    <2>5. CASE \E kind \in Kinds : sendMessage(kind)
      BY <2>5 DEF sendMessage
    <2>6. QED
      BY <1>1, <2>1, <2>2, <2>3, <2>4, <2>5 DEF RNext
  <1>2. Spec => [](IInv /\ Awaited)
    <2>1. IInv /\ Awaited /\ [RNext]_rvars => (IInv /\ Awaited)'
      BY StepKeeps, StepAwaits
    <2>2. QED
      BY Initially, NothingAtFirst, <2>1, PTL DEF Spec
  <1>3. QED
    BY <1>1, <1>2, PTL DEF Spec, AnswerFits

(***************************************************************************)
(* What is left of a queue whose events are dropped: induction on its      *)
(* length, by the least counterexample.                                    *)
(***************************************************************************)

(* Induction, for a set of numbers.                                        *)
LEMMA Counting ==
  ASSUME NEW T, T \subseteq Nat, 0 \in T, \A k \in T : k + 1 \in T
  PROVE  T = Nat
PROOF
  <1> DEFINE Missing == Nat \ T
  <1> SUFFICES ASSUME Missing # {} PROVE FALSE
    OBVIOUS
  <1> HIDE DEF Missing
  <1>1. Missing \subseteq Nat
    BY DEF Missing
  <1>2. PICK x \in Missing : \A y \in Missing : ~(<<y, x>> \in OpToRel(<, Nat))
    BY <1>1, WFMin, NatLessThanWellFounded, Zenon
  <1>3. \A y \in Nat : x \in Nat /\ y < x => <<y, x>> \in OpToRel(<, Nat)
    BY Zenon DEF OpToRel
  <1>4. x \in Nat /\ x \notin T
    BY <1>2 DEF Missing
  <1>5. x # 0
    BY <1>4
  <1>6. x - 1 \in Nat /\ x - 1 < x /\ (x - 1) + 1 = x
    BY <1>4, <1>5
  <1>7. x - 1 \in Missing
    BY <1>4, <1>6 DEF Missing
  <1>8. QED
    BY <1>2, <1>3, <1>4, <1>6, <1>7

(* What is left of a queue when the events of n are dropped.               *)
LEMMA Dropping ==
  ASSUME NEW S, NEW s \in Seq(S), NEW n
  PROVE  /\ Without(s, n) \in Seq(S)
         /\ \A F : /\ Holds(Without(s, n), F) => Holds(s, F)
                   /\ Once(s, F) => Once(Without(s, n), F)
PROOF
  <1> DEFINE Next(f, i) ==
        IF i = 0 THEN <<>>
        ELSE IF s[i].of = n THEN f[i - 1] ELSE Append(f[i - 1], s[i])
  <1> DEFINE Kept(k, f) == f = [i \in 0..k |-> Next(f, i)]
  <1>1. Len(s) \in Nat
    OBVIOUS
  <1>2. \E f : Kept(Len(s), f)
    <2> DEFINE T == {k \in Nat : \E f : Kept(k, f)}
    <2>1. 0 \in T
      <3>1. Kept(0, [i \in 0..0 |-> <<>>])
        OBVIOUS
      <3>2. QED
        BY <3>1
    <2>2. ASSUME NEW k \in T PROVE k + 1 \in T
      <3>1. PICK f : Kept(k, f)
        OBVIOUS
      <3> DEFINE g == [i \in 0..(k + 1) |-> IF i = k + 1 THEN Next(f, i) ELSE f[i]]
      <3>2. k \in Nat /\ \A i \in 0..k : f[i] = Next(f, i)
        BY <3>1
      <3>3. ASSUME NEW i \in 0..(k + 1) PROVE g[i] = Next(g, i)
        <4>1. g[i] = Next(f, i)
          BY <3>2
        <4>2. i # 0 => g[i - 1] = f[i - 1]
          BY <3>2
        <4>3. QED
          BY <4>1, <4>2
      <3>4. Kept(k + 1, g)
        BY <3>3, Zenon
      <3>5. k + 1 \in Nat
        BY <3>2
      <3>6. QED
        BY <3>4, <3>5, Zenon
    <2>3. T \subseteq Nat
      OBVIOUS
    <2> HIDE DEF T
    <2>4. T = Nat
      BY <2>1, <2>2, <2>3, Counting
    <2>5. QED
      BY <1>1, <2>4 DEF T
  <1> DEFINE f == CHOOSE f : Kept(Len(s), f)
  <1>3. Without(s, n) = f[Len(s)]
    BY Zenon DEF Without
  <1>4. Kept(Len(s), f)
    BY <1>2, Zenon
  <1> HIDE DEF f
  <1>5. \A i \in 0..Len(s) : f[i] = Next(f, i)
    BY <1>4
  <1> HIDE DEF Kept
  <1> DEFINE Part(k, F) ==
        /\ Holds(f[k], F) => \E i \in 1..k : s[i] \in F
        /\ (\A i, j \in 1..k : s[i] \in F /\ s[j] \in F => i = j) => Once(f[k], F)
  <1> DEFINE Fits(k) == f[k] \in Seq(S) /\ \A F : Part(k, F)
  <1>6. Fits(Len(s))
    <2> DEFINE T == {k \in Nat : k <= Len(s) => Fits(k)}
    <2>1. 0 \in T
      <3>1. f[0] = <<>>
        BY <1>1, <1>5
      <3>2. f[0] \in Seq(S) /\ \A F : ~Holds(f[0], F) /\ Once(f[0], F)
        BY <3>1 DEF Holds, Once
      <3>3. Fits(0)
        BY <3>2
      <3>4. QED
        BY <3>3, Zenon
    <2>2. ASSUME NEW k \in T PROVE k + 1 \in T
      <3> SUFFICES ASSUME k + 1 <= Len(s) PROVE Fits(k + 1)
        OBVIOUS
      <3>1. k \in Nat /\ Fits(k)
        BY <1>1
      <3> HIDE DEF T, Fits
      <3>2. k + 1 \in 1..Len(s) /\ s[k + 1] \in S
        BY <1>1, <3>1
      <3>3. f[k + 1] = f[k] \/ f[k + 1] = Append(f[k], s[k + 1])
        <4>1. f[k + 1] = Next(f, k + 1) /\ k + 1 # 0 /\ (k + 1) - 1 = k
          BY <1>1, <1>5, <3>1, <3>2
        <4>2. QED
          BY <4>1
      <3>4. f[k] \in Seq(S) /\ \A F : Part(k, F)
        BY <3>1 DEF Fits
      <3>5. f[k + 1] \in Seq(S)
        <4>1. \A a \in Seq(S), e \in S : Append(a, e) \in Seq(S)
          OBVIOUS
        <4>2. f[k] \in Seq(S)
          BY <3>4
        <4>3. QED
          BY <3>2, <3>3, <4>1, <4>2, Zenon
      <3>6. ASSUME NEW F PROVE Part(k + 1, F)
        <4>1. Part(k, F)
          BY <3>4
        <4>2. CASE f[k + 1] = f[k]
          <5>1. \A i \in 1..k : i \in 1..(k + 1)
            BY <3>1
          <5>2. QED
            BY <4>1, <4>2, <5>1
        <4>3. CASE f[k + 1] = Append(f[k], s[k + 1])
          <5> DEFINE u == Append(f[k], s[k + 1])
          <5>1. /\ Len(f[k]) \in Nat /\ Len(u) = Len(f[k]) + 1 /\ u[Len(u)] = s[k + 1]
                /\ \A i \in 1..Len(f[k]) : u[i] = f[k][i]
            BY <3>2, <3>4
          <5> HIDE DEF u
          <5>2. \A i \in 1..Len(u) : i \in 1..Len(f[k]) \/ i = Len(u)
            BY <5>1
          <5>3. Holds(u, F) => Holds(f[k], F) \/ s[k + 1] \in F
            BY <5>1, <5>2 DEF Holds
          <5>4. /\ \A i \in 1..k : i \in 1..(k + 1) /\ i # k + 1
                /\ k + 1 \in 1..(k + 1)
            BY <3>1
          <5>5. Holds(u, F) => \E i \in 1..(k + 1) : s[i] \in F
            BY <4>1, <5>3, <5>4
          <5>6. ASSUME \A i, j \in 1..(k + 1) : s[i] \in F /\ s[j] \in F => i = j
                PROVE  Once(u, F)
            <6>1. Once(f[k], F) /\ ~(Holds(f[k], F) /\ s[k + 1] \in F)
              BY <4>1, <5>4, <5>6
            <6>2. QED
              BY <5>1, <5>2, <6>1 DEF Once, Holds
          <5>7. QED
            BY <4>3, <5>5, <5>6 DEF u
        <4>4. QED
          BY <3>3, <4>2, <4>3
      <3>7. QED
        BY <3>5, <3>6 DEF Fits
    <2>3. T \subseteq Nat
      OBVIOUS
    <2> HIDE DEF T
    <2>4. T = Nat
      BY <2>1, <2>2, <2>3, Counting
    <2>5. QED
      BY <1>1, <2>4 DEF T
  <1>7. QED
    BY <1>3, <1>6 DEF Holds, Once

(***************************************************************************)
(* The client's end: what is posted for a connection that is not made.     *)
(***************************************************************************)
Stages == {"free", "posted", "connecting", "open", "closed"}
Conns == [at : Stages, psk : BOOLEAN, trusted : BOOLEAN, context : BOOLEAN,
          asked : {"nothing", "establishContext", "getStatus"}]
EventKinds ==
  {"requestRemoteDevices", "startDetection", "stopDetection", "establishConnection",
   "created", "refused", "failed", "seen", "notSeen", "newDispatcher", "closed",
   "contextEstablished", "reader", "noReader", "connect", "establishContext",
   "getStatus", "close"}
Events == [kind : EventKinds, of : Attempts \cup {Nobody}]

Made(n) == n \in Attempts /\ conn[n].at \in {"open", "closed"}
Posted(n) == n \in Attempts /\ conn[n].at = "posted"
Unmade(kind) == {e \in Events : e.kind = kind /\ ~Made(e.of)}
Unposted == {e \in Events : e.kind = "connect" /\ ~Posted(e.of)}
ConnectOf(n) == {Event("connect", n)}

(* A connection is told of when it is made, an attempt is made once.       *)
MainFits(q) == q \in Seq(Events) /\ ~Holds(q, Unmade("created"))
PlugFits(q) == q \in Seq(Events) /\ ~Holds(q, Unmade("newDispatcher"))
ConnFits(q) ==
  q \in Seq(Events) /\ ~Holds(q, Unposted) /\ \A n \in Attempts : Once(q, ConnectOf(n))
QueuesFit == MainFits(mainQ) /\ PlugFits(plugQ) /\ ConnFits(connQ)

(* The dispatcher in the list is one whose signals are connected.          *)
ListedIsHeard ==
  /\ listed = Nobody => readers = {}
  /\ listed \in Attempts => listed \in heard /\ Made(listed)

ClientInv ==
  ClientTypeOK /\ conn \in [Attempts -> Conns] /\ QueuesFit /\ ListedIsHeard

(* The numbers of the attempts stand for nothing else.                     *)
LEMMA Attempting ==
  /\ Nobody \notin Attempts /\ Null \notin Attempts /\ Other \notin Attempts
  /\ Null # Nobody /\ Other # Nobody
  /\ \A kind \in EventKinds : Signal(kind) \in Events
  /\ \A kind \in EventKinds : \A n \in Attempts : Event(kind, n) \in Events
PROOF
  <1>1. MaxAttempts \in Nat
    BY RemoteClientAssumption
  <1>2. QED
    BY <1>1 DEF Attempts, Nobody, Null, Other, Events, Event, Signal

(* A queue gains an event that is not in F, or loses its head.             *)
LEMMA Posts ==
  ASSUME NEW q \in Seq(Events), NEW F, ~Holds(q, F)
  PROVE  /\ \A e \in Events : e \notin F =>
              Append(q, e) \in Seq(Events) /\ ~Holds(Append(q, e), F)
         /\ q # <<>> => /\ Head(q) \in Events /\ Head(q) \notin F
                        /\ Tail(q) \in Seq(Events) /\ ~Holds(Tail(q), F)
PROOF
  <1>1. \A e \in Events : Append(q, e) \in Seq(Events)
    BY Queues
  <1>2. q # <<>> => Head(q) \in Events /\ Tail(q) \in Seq(Events)
    BY Queues
  <1>3. QED
    BY <1>1, <1>2, Elsewhere

(* The queues as a step leaves them, for the connections before it.        *)
QueuesWouldFit == MainFits(mainQ') /\ PlugFits(plugQ') /\ ConnFits(connQ')

(* No attempt and no connection is lost: what was told of them is true.    *)
LEMMA NothingLost ==
  ASSUME QueuesWouldFit,
         \A n \in Attempts : (Made(n) => Made(n)') /\ (Posted(n) => Posted(n)')
  PROVE  QueuesFit' /\ UNCHANGED <<Attempts, Events>>
PROOF
  <1>1. Attempts' = Attempts /\ Events' = Events
    BY DEF Attempts, Events
  <1>2. \A n : (Made(n) => Made(n)') /\ (Posted(n) => Posted(n)')
    BY <1>1 DEF Made, Posted
  <1>3. \A kind : Unmade(kind)' \subseteq Unmade(kind)
    BY <1>1, <1>2 DEF Unmade
  <1>4. Unposted' \subseteq Unposted
    BY <1>1, <1>2 DEF Unposted
  <1>5. /\ ~Holds(mainQ', Unmade("created")') /\ ~Holds(plugQ', Unmade("newDispatcher")')
        /\ ~Holds(connQ', Unposted')
    BY <1>3, <1>4 DEF QueuesWouldFit, MainFits, PlugFits, ConnFits, Holds
  <1>6. \A n \in Attempts : ConnectOf(n)' = ConnectOf(n)
    BY DEF ConnectOf, Event
  <1>7. QED
    BY <1>1, <1>5, <1>6 DEF QueuesWouldFit, QueuesFit, MainFits, PlugFits, ConnFits, Holds, Once

(* What is said besides these three kinds of event needs nothing.          *)
LEMMA Saying ==
  /\ \A q : MainFits(q) =>
       \A kind \in EventKinds : kind # "created" => MainFits(Append(q, Signal(kind)))
  /\ \A q : PlugFits(q) =>
       /\ \A kind \in EventKinds : kind # "newDispatcher" => PlugFits(Append(q, Signal(kind)))
       /\ \A n : Made(n) => PlugFits(Append(q, Event("newDispatcher", n)))
  /\ \A q : ConnFits(q) =>
       \A kind \in EventKinds : \A n \in Attempts :
         kind # "connect" => ConnFits(Append(q, Event(kind, n)))
PROOF
  <1>1. ASSUME NEW q, MainFits(q), NEW kind \in EventKinds, kind # "created"
        PROVE  MainFits(Append(q, Signal(kind)))
    <2>1. Signal(kind) \in Events /\ Signal(kind) \notin Unmade("created")
      BY <1>1, Attempting DEF Signal, Event, Unmade
    <2>2. QED
      BY <1>1, <2>1, Posts DEF MainFits
  <1>2. ASSUME NEW q, PlugFits(q), NEW kind \in EventKinds, kind # "newDispatcher"
        PROVE  PlugFits(Append(q, Signal(kind)))
    <2>1. Signal(kind) \in Events /\ Signal(kind) \notin Unmade("newDispatcher")
      BY <1>2, Attempting DEF Signal, Event, Unmade
    <2>2. QED
      BY <1>2, <2>1, Posts DEF PlugFits
  <1>3. ASSUME NEW q, PlugFits(q), NEW n, Made(n)
        PROVE  PlugFits(Append(q, Event("newDispatcher", n)))
    <2>1. /\ Event("newDispatcher", n) \in Events
          /\ Event("newDispatcher", n) \notin Unmade("newDispatcher")
      BY <1>3 DEF Event, Events, EventKinds, Unmade, Made
    <2>2. QED
      BY <1>3, <2>1, Posts DEF PlugFits
  <1>4. ASSUME NEW q, ConnFits(q), NEW kind \in EventKinds, NEW n \in Attempts, kind # "connect"
        PROVE  ConnFits(Append(q, Event(kind, n)))
    <2> DEFINE e == Event(kind, n)
    <2>1. e \in Events /\ e \notin Unposted /\ \A m : e \notin ConnectOf(m)
      BY <1>4 DEF Event, Events, Unposted, ConnectOf
    <2> HIDE DEF e
    <2>2. Append(q, e) \in Seq(Events) /\ ~Holds(Append(q, e), Unposted)
      BY <1>4, <2>1, Posts DEF ConnFits
    <2>3. ASSUME NEW m \in Attempts PROVE Once(Append(q, e), ConnectOf(m))
      BY <1>4, <2>1, Elsewhere DEF ConnFits
    <2>4. QED
      BY <2>2, <2>3 DEF ConnFits, e
  <1>5. QED
    BY <1>1, <1>2, <1>3, <1>4

(* A thread takes the first of its events.                                 *)
LEMMA Taking ==
  /\ \A q : MainFits(q) /\ q # <<>> =>
       /\ MainFits(Tail(q)) /\ Head(q) \in Events
       /\ Head(q).kind = "created" => Made(Head(q).of)
  /\ \A q : PlugFits(q) /\ q # <<>> =>
       /\ PlugFits(Tail(q)) /\ Head(q) \in Events
       /\ Head(q).kind = "newDispatcher" => Made(Head(q).of)
  /\ \A q : ConnFits(q) /\ q # <<>> =>
       /\ ConnFits(Tail(q)) /\ Head(q) \in Events
       /\ Head(q).kind = "connect" =>
            Posted(Head(q).of) /\ ~Holds(Tail(q), ConnectOf(Head(q).of))
PROOF
  <1>1. ASSUME NEW q, MainFits(q), q # <<>>
        PROVE  /\ MainFits(Tail(q)) /\ Head(q) \in Events
               /\ Head(q).kind = "created" => Made(Head(q).of)
    BY <1>1, Posts DEF MainFits, Unmade
  <1>2. ASSUME NEW q, PlugFits(q), q # <<>>
        PROVE  /\ PlugFits(Tail(q)) /\ Head(q) \in Events
               /\ Head(q).kind = "newDispatcher" => Made(Head(q).of)
    BY <1>2, Posts DEF PlugFits, Unmade
  <1>3. ASSUME NEW q, ConnFits(q), q # <<>>
        PROVE  /\ ConnFits(Tail(q)) /\ Head(q) \in Events
               /\ Head(q).kind = "connect" =>
                    Posted(Head(q).of) /\ ~Holds(Tail(q), ConnectOf(Head(q).of))
    <2> DEFINE e == Head(q)
    <2>1. /\ e \in Events /\ e \notin Unposted
          /\ Tail(q) \in Seq(Events) /\ ~Holds(Tail(q), Unposted)
      BY <1>3, Posts DEF ConnFits
    <2>2. \A F : Once(q, F) => Once(Tail(q), F) /\ (e \in F => ~Holds(Tail(q), F))
      BY <1>3, Elsewhere DEF ConnFits
    <2> HIDE DEF e
    <2>3. ConnFits(Tail(q))
      BY <1>3, <2>1, <2>2 DEF ConnFits
    <2>4. ASSUME e.kind = "connect" PROVE Posted(e.of) /\ ~Holds(Tail(q), ConnectOf(e.of))
      <3>1. Posted(e.of)
        BY <2>1, <2>4 DEF Unposted
      <3>2. e \in ConnectOf(e.of) /\ e.of \in Attempts
        BY <2>1, <2>4, <3>1 DEF Events, ConnectOf, Event, Posted
      <3>3. QED
        BY <1>3, <2>2, <3>1, <3>2 DEF ConnFits
    <2>5. QED
      BY <2>1, <2>3, <2>4 DEF e
  <1>4. QED
    BY <1>1, <1>2, <1>3

LEMMA SameConnections ==
  ASSUME QueuesWouldFit, UNCHANGED conn PROVE QueuesFit' /\ \A n : Made(n)' <=> Made(n)
PROOF
  <1>1. \A n : (Made(n)' <=> Made(n)) /\ (Posted(n)' <=> Posted(n))
    BY DEF Made, Posted, Attempts
  <1>2. QED
    BY <1>1, NothingLost

LEMMA ClientInitially == ClientInit => ClientInv
PROOF
  <1> SUFFICES ASSUME ClientInit PROVE ClientInv
    OBVIOUS
  <1>1. ClientTypeOK
    <2>1. {scanning, autoConnect, checking, detecting, paired, named, pairing} \subseteq BOOLEAN
      BY Zenon DEF ClientInit
    <2>2. QED
      BY <2>1, RemoteClientAssumption DEF ClientInit, ClientTypeOK
  <1>2. conn \in [Attempts -> Conns]
    BY DEF ClientInit, Free, Conns, Stages
  <1>3. ListedIsHeard
    BY Attempting DEF ClientInit, ListedIsHeard
  <1>4. QueuesFit
    <2> DEFINE a == Signal("startDetection")
    <2> DEFINE b == Signal("requestRemoteDevices")
    <2>1. /\ a \in Events /\ a \notin Unmade("created")
          /\ b \in Events /\ b \notin Unmade("created")
      BY Attempting DEF EventKinds, Signal, Event, Unmade
    <2> HIDE DEF a, b
    <2>2. mainQ = Append(Append(<<>>, a), b)
      BY DEF ClientInit, a, b
    <2>3. /\ <<>> \in Seq(Events) /\ \A F : ~Holds(<<>>, F) /\ Once(<<>>, F)
      BY DEF Holds, Once
    <2>4. MainFits(mainQ)
      <3>1. Append(<<>>, a) \in Seq(Events) /\ ~Holds(Append(<<>>, a), Unmade("created"))
        BY <2>1, <2>3, Posts
      <3>2. QED
        BY <2>1, <2>2, <3>1, Posts DEF MainFits
    <2>5. QED
      BY <2>3, <2>4 DEF ClientInit, QueuesFit, PlugFits, ConnFits
  <1>5. QED
    BY <1>1, <1>2, <1>3, <1>4 DEF ClientInv

(* The scan is started, stopped, or looks for the phone once more.         *)
LEMMA Scans ==
  ASSUME ClientInv,
         connectToPairedReaders \/ stopScan \/ \E auto \in BOOLEAN : startScan(auto)
  PROVE  ClientInv'
PROOF
  <1>1. UNCHANGED <<conn, serving, listed, heard, readers, client, settings, plugQ>>
    BY DEF connectToPairedReaders, stopScan, startScan, sockets
  <1>2. ClientTypeOK'
    BY <1>1 DEF ClientInv, ClientTypeOK, connectToPairedReaders, stopScan, startScan, Check,
                client, settings
  <1>3. QueuesWouldFit
    <2>1. connQ' = connQ \/ (listed \in Attempts /\ connQ' = Append(connQ, Event("close", listed)))
      BY DEF connectToPairedReaders, stopScan, startScan, removeAllDispatchers
    <2>2. ConnFits(connQ')
      BY <2>1, Saying DEF ClientInv, QueuesFit, EventKinds
    <2>3. \A q : MainFits(q) =>
            \A kind \in {"requestRemoteDevices", "startDetection", "stopDetection"} :
              MainFits(Append(q, Signal(kind)))
      BY Saying DEF EventKinds
    <2>4. MainFits(mainQ')
      BY <2>3 DEF ClientInv, QueuesFit, connectToPairedReaders, stopScan, startScan, Check
    <2>5. QED
      BY <1>1, <2>2, <2>4 DEF QueuesWouldFit, ClientInv, QueuesFit
  <1>4. QueuesFit' /\ \A n : Made(n)' <=> Made(n)
    BY <1>1, <1>3, SameConnections
  <1>5. ListedIsHeard'
    BY <1>1, <1>4 DEF ClientInv, ListedIsHeard, Attempts
  <1>6. QED
    BY <1>1, <1>2, <1>4, <1>5 DEF ClientInv, Attempts, Conns

(* The thread of the readers takes an event.                               *)
LEMMA PlugInTurns == ASSUME ClientInv, PlugInLoop PROVE ClientInv'
PROOF
  <1> DEFINE e == Head(plugQ)
  <1>1. /\ UNCHANGED <<conn, serving, scanning, autoConnect, client, paired>>
        /\ plugQ # <<>> /\ plugQ' = Tail(plugQ)
    BY DEF PlugInLoop, sockets
  <1>2. /\ PlugFits(plugQ') /\ MainFits(mainQ) /\ ConnFits(connQ)
        /\ e \in Events /\ (e.kind = "newDispatcher" => Made(e.of))
    BY <1>1, Taking DEF ClientInv, QueuesFit
  <1> DEFINE Keeps ==
        /\ {checking', named'} \subseteq BOOLEAN
        /\ listed' \in Attempts \cup {Nobody, Null} /\ heard' \subseteq Attempts
        /\ readers' \subseteq [by : Attempts, named : BOOLEAN]
        /\ MainFits(mainQ') /\ ConnFits(connQ')
        /\ listed' = Nobody => readers' = {}
        /\ listed' \in Attempts => listed' \in heard' /\ Made(listed')
  <1>3. Keeps
    <2> USE DEF ClientInv, ClientTypeOK, ListedIsHeard
    <2>1. CASE e.kind \in {"seen", "notSeen"} /\ continueConnectToPairedReaders(e)
      <3>1. UNCHANGED <<listed, heard, readers, named, connQ>> /\ checking' = FALSE
        BY <2>1 DEF continueConnectToPairedReaders
      <3>2. mainQ' = mainQ \/ mainQ' = Append(mainQ, Signal("establishConnection"))
        BY <2>1 DEF continueConnectToPairedReaders
      <3>3. MainFits(mainQ')
        BY <1>2, <3>2, Saying DEF EventKinds
      <3>4. QED
        BY <1>2, <3>1, <3>3
    <2>2. CASE e.kind = "newDispatcher" /\ addRemoteDispatcher(e.of)
      <3>1. Made(e.of) /\ e.of \in Attempts
        BY <1>2, <2>2 DEF Made
      <3>2. ConnFits(connQ')
        BY <1>2, <2>2, <3>1, Saying DEF addRemoteDispatcher, EventKinds
      <3>3. QED
        BY <1>2, <2>2, <3>1, <3>2, Attempting DEF addRemoteDispatcher
    <2>3. CASE removeDispatcher
      BY <1>2, <2>3, Attempting DEF removeDispatcher
    <2>4. CASE onContextEstablished
      <3>1. connQ' = connQ \/ /\ listed \in Attempts
                              /\ \E kind \in {"getStatus", "close"} :
                                   connQ' = Append(connQ, Event(kind, listed))
        BY <2>4 DEF onContextEstablished
      <3>2. ConnFits(connQ')
        BY <1>2, <3>1, Saying DEF EventKinds
      <3>3. QED
        BY <1>1, <1>2, <2>4, <3>2, Attempting DEF onContextEstablished
    <2>5. ASSUME NEW connected \in BOOLEAN, handleIFDStatus(connected) PROVE Keeps
      <3>1. listed \in Attempts => Reader \in [by : Attempts, named : BOOLEAN]
        BY DEF Reader, Conns
      <3>2. /\ readers' \subseteq [by : Attempts, named : BOOLEAN]
            /\ listed \notin Attempts => readers' = readers
        BY <2>5, <3>1 DEF handleIFDStatus
      <3>3. QED
        BY <1>2, <2>5, <3>2, Attempting DEF handleIFDStatus
    <2>6. QED
      BY <2>1, <2>2, <2>3, <2>4, <2>5 DEF PlugInLoop
  <1>4. QueuesFit' /\ \A n : Made(n)' <=> Made(n)
    BY <1>1, <1>2, <1>3, SameConnections DEF QueuesWouldFit
  <1>5. ClientTypeOK'
    BY <1>1, <1>3 DEF ClientInv, ClientTypeOK, client, Attempts, Null, Nobody, Other
  <1>6. ListedIsHeard'
    <2>1. \A n : Made(n) => Made(n)'
      BY <1>4
    <2>2. QED
      BY <1>3, <2>1 DEF ListedIsHeard, Attempts, Nobody
  <1>7. QED
    BY <1>1, <1>4, <1>5, <1>6 DEF ClientInv, Attempts, Conns

(* The queues fit the connections as the step leaves them.                 *)
LEMMA Assembled ==
  ASSUME mainQ' \in Seq(Events), ~Holds(mainQ', Unmade("created")'),
         plugQ' \in Seq(Events), ~Holds(plugQ', Unmade("newDispatcher")'),
         connQ' \in Seq(Events), ~Holds(connQ', Unposted'),
         \A n \in Attempts : Once(connQ', ConnectOf(n))
  PROVE  QueuesFit'
PROOF
  <1>1. Attempts' = Attempts /\ Events' = Events /\ \A n : ConnectOf(n)' = ConnectOf(n)
    BY DEF Attempts, Events, ConnectOf, Event
  <1>2. QED
    BY <1>1 DEF QueuesFit, MainFits, PlugFits, ConnFits, Holds, Once

(* A new attempt takes a number that nothing was posted for.               *)
LEMMA Establishes ==
  ASSUME ClientInv, NEW psk \in BOOLEAN, NEW n \in Attempts, establishConnection(psk, n),
         MainFits(mainQ'), PlugFits(plugQ')
  PROVE  conn' \in [Attempts -> Conns] /\ QueuesFit' /\ \A m : Made(m)' <=> Made(m)
PROOF
  <1> DEFINE e == Event("connect", n)
  <1>1. /\ conn \in [Attempts -> Conns] /\ conn[n].at = "free"
        /\ conn' = [conn EXCEPT ![n] = [Free EXCEPT !.at = "posted", !.psk = psk]]
        /\ connQ' = Append(connQ, e)
    BY DEF establishConnection, ClientInv
  <1>2. /\ conn' \in [Attempts -> Conns] /\ conn'[n].at = "posted"
        /\ \A m \in Attempts : m # n => conn'[m] = conn[m]
    BY <1>1 DEF Free, Conns, Stages
  <1>3. (\A m : Made(m)' <=> Made(m)) /\ (\A m : Posted(m)' <=> Posted(m) \/ m = n)
    BY <1>1, <1>2 DEF Made, Posted, Attempts
  <1>4. Events' = Events /\ e \in Events /\ e.kind = "connect" /\ e.of = n
    BY DEF Events, EventKinds, Event, Attempts, Nobody
  <1>5. (\A kind : Unmade(kind)' = Unmade(kind)) /\ Unposted' \subseteq Unposted /\ e \notin Unposted'
    BY <1>3, <1>4 DEF Unmade, Unposted
  <1>6. ConnFits(connQ) /\ ~Holds(connQ, ConnectOf(n))
    <2>1. ConnFits(connQ) /\ e \in Unposted /\ ConnectOf(n) = {e}
      BY <1>1, <1>4 DEF ClientInv, QueuesFit, Unposted, Posted, ConnectOf
    <2>2. QED
      BY <2>1 DEF ConnFits, Holds
  <1> HIDE DEF e
  <1>7. connQ' \in Seq(Events) /\ ~Holds(connQ', Unposted')
    <2>1. connQ \in Seq(Events) /\ ~Holds(connQ, Unposted')
      BY <1>5, <1>6 DEF ConnFits, Holds
    <2>2. QED
      BY <1>1, <1>4, <1>5, <2>1, Posts
  <1>8. ASSUME NEW m \in Attempts PROVE Once(connQ', ConnectOf(m))
    <2>1. m # n => e \notin ConnectOf(m)
      BY <1>4 DEF ConnectOf, Event
    <2>2. connQ \in Seq(Events) /\ Once(connQ, ConnectOf(m))
      BY <1>6 DEF ConnFits
    <2>3. ~(Holds(connQ, ConnectOf(m)) /\ e \in ConnectOf(m))
      BY <1>6, <2>1
    <2>4. QED
      BY <1>1, <1>4, <2>2, <2>3, Elsewhere
  <1>9. QueuesFit'
    BY <1>5, <1>7, <1>8, Assembled DEF MainFits, PlugFits
  <1>10. QED
    BY <1>2, <1>3, <1>9

(* What the list says stays true while no connection is lost.              *)
LEMMA StillListed ==
  ASSUME ListedIsHeard, UNCHANGED <<listed, readers>>, heard \subseteq heard',
         \A n \in Attempts : Made(n) => Made(n)'
  PROVE  ListedIsHeard'
BY DEF ListedIsHeard, Attempts, Nobody

(* The main thread takes an event.                                         *)
LEMMA ClientTurns == ASSUME ClientInv, RemoteClientLoop PROVE ClientInv'
PROOF
  <1> DEFINE e == Head(mainQ)
  <1>1. /\ UNCHANGED <<scanning, autoConnect, checking, listed, heard, readers, serving>>
        /\ mainQ # <<>> /\ mainQ' = Tail(mainQ)
    BY DEF RemoteClientLoop, plugIn
  <1>2. /\ MainFits(mainQ') /\ PlugFits(plugQ) /\ ConnFits(connQ)
        /\ e \in Events /\ (e.kind = "created" => Made(e.of))
    BY <1>1, Taking DEF ClientInv, QueuesFit
  <1> DEFINE Keeps ==
        /\ {detecting', pairing', paired', named'} \subseteq BOOLEAN
        /\ refusals' \in 0..(RefusalLimit - 1)
        /\ conn' \in [Attempts -> Conns] /\ QueuesFit'
        /\ \A n \in Attempts : Made(n) => Made(n)'
  <1>3. Keeps
    <2>1. /\ {detecting, pairing, paired, named} \subseteq BOOLEAN
          /\ refusals \in 0..(RefusalLimit - 1) /\ conn \in [Attempts -> Conns]
      BY DEF ClientInv, ClientTypeOK
    <2>2. ASSUME UNCHANGED conn, PlugFits(plugQ'), connQ' = connQ
          PROVE  QueuesFit' /\ \A n \in Attempts : Made(n) => Made(n)'
      BY <1>2, <2>2, SameConnections DEF QueuesWouldFit
    <2>3. CASE requestRemoteDevices
      <3>1. \E seen \in {"seen", "notSeen"} : plugQ' = Append(plugQ, Signal(seen))
        BY <2>3 DEF requestRemoteDevices
      <3>2. PlugFits(plugQ')
        BY <1>2, <3>1, Saying DEF EventKinds
      <3>3. QED
        BY <2>1, <2>2, <2>3, <3>2 DEF requestRemoteDevices, client, settings
    <2>4. ASSUME NEW on \in BOOLEAN, Detection(on) PROVE Keeps
      BY <1>2, <2>1, <2>2, <2>4 DEF Detection, settings
    <2>5. CASE /\ \E n \in Attempts : establishConnection(FALSE, n)
               /\ UNCHANGED <<detecting, refusals, pairing, settings, plugQ>>
      <3>1. PlugFits(plugQ')
        BY <1>2, <2>5
      <3>2. conn' \in [Attempts -> Conns] /\ QueuesFit' /\ \A m : Made(m)' <=> Made(m)
        BY <1>2, <2>5, <3>1, Establishes
      <3>3. QED
        BY <2>1, <2>5, <3>2 DEF settings
    <2>6. CASE e.kind = "created" /\ onRemoteDispatcherCreated(e.of)
      <3>1. PlugFits(plugQ')
        BY <1>2, <2>6, Saying DEF onRemoteDispatcherCreated
      <3>2. 0 \in 0..(RefusalLimit - 1)
        BY RemoteClientAssumption
      <3>3. QED
        BY <2>1, <2>2, <2>6, <3>1, <3>2
           DEF onRemoteDispatcherCreated, fireEstablishConnectionDone, settings
    <2>7. ASSUME NEW refused \in BOOLEAN, onRemoteDispatcherError(refused) PROVE Keeps
      <3>1. refusals' \in 0..(RefusalLimit - 1)
        BY <2>1, <2>7, RemoteClientAssumption DEF onRemoteDispatcherError
      <3>2. {pairing', paired', named'} \subseteq BOOLEAN
        BY <2>1, <2>7, Zenon DEF onRemoteDispatcherError, fireEstablishConnectionDone
      <3>3. QED
        BY <1>2, <2>1, <2>2, <2>7, <3>1, <3>2 DEF onRemoteDispatcherError
    <2>8. QED
      BY <2>3, <2>4, <2>5, <2>6, <2>7 DEF RemoteClientLoop
  <1>4. ClientTypeOK'
    BY <1>1, <1>3 DEF ClientInv, ClientTypeOK, Attempts, Null, Nobody, Other
  <1>5. ListedIsHeard'
    BY <1>1, <1>3, StillListed DEF ClientInv
  <1>6. QED
    BY <1>3, <1>4, <1>5 DEF ClientInv, Attempts, Conns

(* The user pairs or forgets the phone; it is taken by another device.     *)
LEMMA Interferes ==
  ASSUME ClientInv, Pair \/ Forget \/ PhoneTaken \/ PhoneDrops PROVE ClientInv'
PROOF
  <1>1. UNCHANGED <<scanning, autoConnect, checking, listed, heard, readers, detecting,
                    refusals, mainQ, plugQ>>
    BY DEF Pair, Forget, PhoneTaken, PhoneDrops, plugIn, client
  <1>2. /\ conn' \in [Attempts -> Conns] /\ QueuesFit'
        /\ \A n \in Attempts : Made(n) => Made(n)'
    <2>1. MainFits(mainQ') /\ PlugFits(plugQ') /\ ConnFits(connQ)
      BY <1>1 DEF ClientInv, QueuesFit
    <2>2. CASE Pair
      BY <2>1, <2>2, Establishes DEF Pair
    <2>3. CASE Forget \/ PhoneTaken \/ PhoneDrops
      <3>1. UNCHANGED <<conn, connQ>>
        BY <2>3 DEF Forget, PhoneTaken, PhoneDrops, sockets
      <3>2. QED
        BY <2>1, <3>1, SameConnections DEF QueuesWouldFit, ClientInv
    <2>4. QED
      BY <2>2, <2>3
  <1>3. ClientTypeOK'
    <2>1. {pairing', paired', named'} \subseteq BOOLEAN
      BY Zenon DEF ClientInv, ClientTypeOK, Pair, Forget, PhoneTaken, PhoneDrops, client, settings
    <2>2. serving' \in Attempts \cup {Nobody, Other}
      BY DEF ClientInv, ClientTypeOK, Pair, Forget, PhoneTaken, PhoneDrops, sockets
    <2>3. QED
      BY <1>1, <2>1, <2>2 DEF ClientInv, ClientTypeOK, Attempts, Null, Nobody, Other
  <1>4. ListedIsHeard'
    BY <1>1, <1>2, StillListed DEF ClientInv
  <1>5. QED
    BY <1>2, <1>3, <1>4 DEF ClientInv, Attempts, Conns

(* The thread of the connector takes an event.                             *)
LEMMA ConnectorTurns == ASSUME ClientInv, ConnectorLoop PROVE ClientInv'
PROOF
  <1> DEFINE e == Head(connQ)
  <1>1. /\ UNCHANGED <<plugIn, client, settings, mainQ, plugQ>>
        /\ connQ # <<>> /\ connQ' = Tail(connQ)
    BY DEF ConnectorLoop
  <1>2. /\ MainFits(mainQ) /\ PlugFits(plugQ) /\ ConnFits(connQ')
        /\ e \in Events
        /\ e.kind = "connect" => Posted(e.of) /\ ~Holds(connQ', ConnectOf(e.of))
    BY <1>1, Taking DEF ClientInv, QueuesFit
  <1>3. conn \in [Attempts -> Conns] /\ paired \in BOOLEAN /\ serving \in Attempts \cup {Nobody, Other}
    BY DEF ClientInv, ClientTypeOK
  <1> DEFINE Keeps ==
        /\ conn' \in [Attempts -> Conns] /\ QueuesFit'
        /\ \A n \in Attempts : Made(n) => Made(n)'
        /\ serving' \in Attempts \cup {Nobody, Other}
  <1>4. Keeps
    <2>1. CASE e.kind = "connect" /\ onConnectRequest(e.of)
      <3> DEFINE n == e.of
      <3>1. n \in Attempts /\ conn[n].at = "posted" /\ ~Holds(connQ', ConnectOf(n))
        BY <1>2, <2>1 DEF Posted
      <3> HIDE DEF n
      <3>2. conn' = [conn EXCEPT ![n].at = "connecting", ![n].trusted = conn[n].psk \/ paired]
        BY <2>1 DEF onConnectRequest, n
      <3>3. /\ conn' \in [Attempts -> Conns] /\ conn'[n].at = "connecting"
            /\ \A m \in Attempts : m # n => conn'[m] = conn[m]
        <4> DEFINE t == conn[n].psk \/ paired
        <4>1. t \in BOOLEAN
          OBVIOUS
        <4>2. conn' = [conn EXCEPT ![n].at = "connecting", ![n].trusted = t]
          BY <3>2
        <4> HIDE DEF t
        <4>3. QED
          BY <1>3, <3>1, <4>1, <4>2 DEF Conns, Stages
      <3>4. (\A m : Made(m)' <=> Made(m)) /\ (\A m : Posted(m)' <=> Posted(m) /\ m # n)
        BY <3>1, <3>3 DEF Made, Posted, Attempts
      <3>5. Events' = Events /\ \A kind : Unmade(kind)' = Unmade(kind)
        BY <3>4 DEF Unmade, Events, Attempts
      <3>6. Unposted' \subseteq Unposted \cup ConnectOf(n)
        BY <3>4, <3>5 DEF Unposted, ConnectOf, Event, Events
      <3>7. ~Holds(connQ', Unposted')
        BY <1>2, <3>1, <3>6 DEF ConnFits, Holds
      <3>8. QueuesFit'
        BY <1>1, <1>2, <3>5, <3>7, Assembled DEF MainFits, PlugFits, ConnFits
      <3>9. QED
        BY <1>3, <2>1, <3>3, <3>4, <3>8 DEF onConnectRequest
    <2>2. CASE e.kind \in {"establishContext", "getStatus"} /\ send(e.of, e.kind)
      <3>1. /\ UNCHANGED serving /\ conn' \in [Attempts -> Conns]
            /\ \A m \in Attempts : conn'[m].at = conn[m].at
        BY <1>3, <2>2 DEF send, Conns
      <3>2. \A n \in Attempts : (Made(n) => Made(n)') /\ (Posted(n) => Posted(n)')
        BY <3>1 DEF Made, Posted, Attempts
      <3>3. QueuesFit'
        BY <1>1, <1>2, <3>2, NothingLost DEF QueuesWouldFit
      <3>4. QED
        BY <1>3, <3>1, <3>2, <3>3
    <2>3. CASE close(e.of)
      <3>1. UNCHANGED conn /\ serving' \in Attempts \cup {Nobody, Other}
        BY <1>3, <2>3 DEF close
      <3>2. QED
        BY <1>1, <1>2, <1>3, <3>1, SameConnections DEF QueuesWouldFit
    <2>4. QED
      BY <2>1, <2>2, <2>3 DEF ConnectorLoop
  <1>5. ClientTypeOK'
    BY <1>1, <1>4 DEF ClientInv, ClientTypeOK, Attempts, Null, Nobody, Other, plugIn, client, settings
  <1>6. ListedIsHeard'
    BY <1>1, <1>4, StillListed DEF ClientInv, plugIn
  <1>7. QED
    BY <1>4, <1>5, <1>6 DEF ClientInv, Attempts, Conns

(* All requests end when one does; that changes nothing that is told.      *)
LEMMA RequestsEnd ==
  ASSUME conn \in [Attempts -> Conns]
  PROVE  /\ removeRequest \in [Attempts -> Conns]
         /\ \A m \in Attempts : removeRequest[m] = IF m \in Connecting THEN Free ELSE conn[m]
         /\ \A m \in Connecting : conn[m].at = "connecting" /\ m \in Attempts
PROOF
  <1>1. Free \in Conns
    BY DEF Free, Conns, Stages
  <1>2. QED
    BY <1>1 DEF removeRequest, Connecting

LEMMA Connected ==
  ASSUME ClientInv, NEW n \in Attempts, onConnected(n) PROVE ClientInv'
PROOF
  <1> DEFINE e == Event("created", n)
  <1>1. /\ UNCHANGED <<plugIn, client, named, plugQ, connQ>> /\ n \in Connecting
        /\ conn' = [removeRequest EXCEPT ![n] = [Free EXCEPT !.at = "open"]]
        /\ mainQ' = Append(mainQ, e)
    BY DEF onConnected
  <1>2. conn \in [Attempts -> Conns] /\ QueuesFit
    BY DEF ClientInv
  <1>3. conn[n].at = "connecting"
    BY <1>1, <1>2, RequestsEnd
  <1>4. /\ conn' \in [Attempts -> Conns] /\ conn'[n].at = "open"
        /\ \A m \in Attempts : m # n => conn'[m] = IF m \in Connecting THEN Free ELSE conn[m]
    BY <1>1, <1>2, RequestsEnd DEF Free, Conns, Stages
  <1>5. (\A m : Made(m)' <=> Made(m) \/ m = n) /\ (\A m : Posted(m)' <=> Posted(m))
    BY <1>2, <1>3, <1>4, RequestsEnd DEF Made, Posted, Free, Attempts
  <1>6. Events' = Events /\ e \in Events /\ e.of = n
    BY DEF Events, EventKinds, Event, Attempts, Nobody
  <1>7. (\A kind : Unmade(kind)' \subseteq Unmade(kind)) /\ Unposted' = Unposted
        /\ e \notin Unmade("created")'
    BY <1>5, <1>6 DEF Unmade, Unposted
  <1> HIDE DEF e
  <1>8. mainQ' \in Seq(Events) /\ ~Holds(mainQ', Unmade("created")')
    <2>1. mainQ \in Seq(Events) /\ ~Holds(mainQ, Unmade("created")')
      BY <1>2, <1>7 DEF QueuesFit, MainFits, Holds
    <2>2. QED
      BY <1>1, <1>6, <1>7, <2>1, Posts
  <1>9. QueuesFit'
    <2>1. plugQ' \in Seq(Events) /\ ~Holds(plugQ', Unmade("newDispatcher")')
      BY <1>1, <1>2, <1>7 DEF QueuesFit, PlugFits, Holds
    <2>2. ConnFits(connQ')
      BY <1>1, <1>2 DEF QueuesFit
    <2>3. QED
      BY <1>7, <1>8, <2>1, <2>2, Assembled DEF ConnFits
  <1>10. ClientTypeOK'
    <2>1. serving' \in Attempts \cup {Nobody, Other}
      BY DEF onConnected, ClientInv, ClientTypeOK
    <2>2. {scanning', autoConnect', checking', detecting', paired', named', pairing'} \subseteq BOOLEAN
      BY <1>1, <1>2, Zenon DEF onConnected, ClientInv, ClientTypeOK, plugIn, client, Conns
    <2>3. QED
      BY <1>1, <2>1, <2>2 DEF ClientInv, ClientTypeOK, Attempts, Null, Nobody, Other, plugIn, client
  <1>11. ListedIsHeard'
    BY <1>1, <1>5, StillListed DEF ClientInv, plugIn
  <1>12. QED
    BY <1>4, <1>9, <1>10, <1>11 DEF ClientInv, Attempts, Conns

(* The other steps of the sockets and of the phone make no connection.     *)
LEMMA SocketsTurn ==
  ASSUME ClientInv, NEW n \in Attempts,
         ConnectionFails(n) \/ onDisconnected(n) \/ PhoneAnswers(n) \/ PhoneTellsStatus
  PROVE  ClientInv'
PROOF
  <1>1. UNCHANGED <<plugIn, client, settings, serving, connQ>>
    BY DEF ConnectionFails, onDisconnected, PhoneAnswers, PhoneTellsStatus, sockets
  <1>2. conn \in [Attempts -> Conns] /\ QueuesFit
    BY DEF ClientInv
  <1>3. /\ conn' \in [Attempts -> Conns]
        /\ \A m \in Attempts : (Made(m) => Made(m)') /\ (Posted(m) => Posted(m)')
    <2>1. CASE ConnectionFails(n)
      BY <1>2, <2>1, RequestsEnd DEF ConnectionFails, Made, Posted, Attempts
    <2>2. CASE onDisconnected(n)
      <3>1. /\ conn' \in [Attempts -> Conns] /\ conn[n].at = "open" /\ conn'[n].at = "closed"
            /\ \A m \in Attempts : m # n => conn'[m] = conn[m]
        BY <1>2, <2>2 DEF onDisconnected, Conns, Stages
      <3>2. QED
        BY <3>1 DEF Made, Posted, Attempts
    <2>3. CASE PhoneAnswers(n)
      <3>1. conn' \in [Attempts -> Conns] /\ \A m \in Attempts : conn'[m].at = conn[m].at
        BY <1>2, <2>3 DEF PhoneAnswers, Conns
      <3>2. QED
        BY <3>1 DEF Made, Posted, Attempts
    <2>4. CASE PhoneTellsStatus
      <3>1. UNCHANGED conn
        BY <2>4 DEF PhoneTellsStatus, sockets
      <3>2. QED
        BY <1>2, <3>1 DEF Made, Posted, Attempts
    <2>5. QED
      BY <2>1, <2>2, <2>3, <2>4
  <1>4. QueuesWouldFit
    <2>1. MainFits(mainQ) /\ PlugFits(plugQ) /\ ConnFits(connQ')
      BY <1>1, <1>2 DEF QueuesFit
    <2>2. \A kind \in {"closed", "contextEstablished", "reader", "noReader"} : \A m :
            Say(kind, m) => PlugFits(plugQ')
      BY <2>1, Saying DEF Say, EventKinds
    <2>3. CASE ConnectionFails(n)
      <3>1. \E kind \in {"refused", "failed"} : mainQ' = Append(mainQ, Signal(kind))
        BY <2>3 DEF ConnectionFails
      <3>2. MainFits(mainQ')
        BY <2>1, <3>1, Saying DEF EventKinds
      <3>3. QED
        BY <2>1, <2>3, <3>2 DEF ConnectionFails, QueuesWouldFit
    <2>4. CASE onDisconnected(n) \/ PhoneAnswers(n) \/ PhoneTellsStatus
      <3>1. mainQ' = mainQ /\ PlugFits(plugQ')
        BY <2>2, <2>4 DEF onDisconnected, PhoneAnswers, PhoneTellsStatus
      <3>2. QED
        BY <2>1, <3>1 DEF QueuesWouldFit
    <2>5. QED
      BY <2>3, <2>4
  <1>5. QueuesFit'
    BY <1>3, <1>4, NothingLost
  <1>6. ClientTypeOK'
    BY <1>1 DEF ClientInv, ClientTypeOK, Attempts, Null, Nobody, Other, plugIn, client, settings
  <1>7. ListedIsHeard'
    BY <1>1, <1>3, StillListed DEF ClientInv, plugIn
  <1>8. QED
    BY <1>3, <1>5, <1>6, <1>7 DEF ClientInv, Attempts, Conns

(* A connection is deleted when nothing tells of it any more.              *)
LEMMA Deletes ==
  ASSUME ClientInv, NEW n \in Attempts, Deleted(n) PROVE ClientInv'
PROOF
  <1>1. /\ UNCHANGED <<scanning, autoConnect, checking, listed, readers, detecting, refusals,
                       pairing, settings, mainQ, plugQ>>
        /\ conn[n].at \in {"open", "closed"} /\ ~Referenced(n)
        /\ conn' = [conn EXCEPT ![n] = Free]
        /\ heard' = heard \ {n} /\ connQ' = Without(connQ, n)
    BY DEF Deleted
  <1>2. conn \in [Attempts -> Conns] /\ QueuesFit
    BY DEF ClientInv
  <1>3. /\ conn' \in [Attempts -> Conns] /\ conn'[n].at = "free"
        /\ \A m \in Attempts : m # n => conn'[m] = conn[m]
    BY <1>1, <1>2 DEF Free, Conns, Stages
  <1>4. (\A m : Made(m)' <=> Made(m) /\ m # n) /\ (\A m : Posted(m)' <=> Posted(m))
    BY <1>1, <1>2, <1>3 DEF Made, Posted, Attempts
  <1>5. /\ Events' = Events /\ Unposted' = Unposted
        /\ \A kind : \A e \in Unmade(kind)' : e \in Unmade(kind) \/ (e.kind = kind /\ e.of = n)
    BY <1>4 DEF Unmade, Unposted, Events, Attempts
  <1>6. \A q \in {mainQ, plugQ} : \A i \in 1..Len(q) :
          ~(q[i].of = n /\ q[i].kind \in {"created", "newDispatcher"})
    <2>1. ASSUME NEW q \in {mainQ, plugQ}, NEW i \in 1..Len(q), q[i].of = n,
                 q[i].kind \in {"created", "newDispatcher"}
          PROVE  FALSE
      <3>1. q \in Seq(Events)
        BY <1>2, <2>1 DEF QueuesFit, MainFits, PlugFits
      <3>2. q[i] \in ToSet(q)
        BY <3>1 DEF ToSet
      <3>3. q[i].kind \in Holders
        BY <2>1 DEF Holders
      <3>4. QED
        BY <1>1, <2>1, <3>2, <3>3 DEF Referenced
    <2>2. QED
      BY <2>1
  <1>7. /\ mainQ' \in Seq(Events) /\ ~Holds(mainQ', Unmade("created")')
        /\ plugQ' \in Seq(Events) /\ ~Holds(plugQ', Unmade("newDispatcher")')
    BY <1>1, <1>2, <1>5, <1>6 DEF QueuesFit, MainFits, PlugFits, Holds
  <1>8. /\ connQ' \in Seq(Events) /\ ~Holds(connQ', Unposted')
        /\ \A m \in Attempts : Once(connQ', ConnectOf(m))
    BY <1>1, <1>2, <1>5, Dropping DEF QueuesFit, ConnFits
  <1>9. QueuesFit'
    BY <1>7, <1>8, Assembled
  <1>10. ClientTypeOK'
    <2>1. serving' \in Attempts \cup {Nobody, Other}
      BY DEF Deleted, ClientInv, ClientTypeOK
    <2>2. QED
      BY <1>1, <2>1 DEF ClientInv, ClientTypeOK, Attempts, Null, Nobody, Other, settings
  <1>11. ListedIsHeard'
    <2>1. listed # n
      BY <1>1 DEF Referenced
    <2>2. QED
      BY <1>1, <1>4, <2>1 DEF ClientInv, ListedIsHeard, Attempts, Nobody
  <1>12. QED
    BY <1>3, <1>9, <1>10, <1>11 DEF ClientInv, Attempts, Conns

(* After a crash there are no connections and no events.                   *)
LEMMA Crashed ==
  ASSUME ClientInv, handleIFDStatusCrashes PROVE ClientInv'
PROOF
  <1>1. /\ conn' = [n \in Attempts |-> Free] /\ heard' = {} /\ readers' = {}
        /\ listed' = Nobody /\ refusals' = 0
        /\ serving' = IF serving \in Attempts THEN Other ELSE serving
        /\ mainQ' = <<>> /\ plugQ' = <<>> /\ connQ' = <<>>
    BY DEF handleIFDStatusCrashes
  <1>2. {scanning, autoConnect, checking, detecting, paired, named, pairing}' \subseteq BOOLEAN
    BY Zenon DEF handleIFDStatusCrashes, settings, ClientInv, ClientTypeOK
  <1>3. ClientTypeOK'
    BY <1>1, <1>2, RemoteClientAssumption
       DEF ClientInv, ClientTypeOK, Attempts, Nobody, Null, Other
  <1>4. conn' \in [Attempts -> Conns]
    BY <1>1 DEF Free, Conns, Stages
  <1>5. ListedIsHeard'
    BY <1>1, Attempting DEF ListedIsHeard, Attempts, Nobody
  <1>6. QueuesFit'
    BY <1>1 DEF QueuesFit, MainFits, PlugFits, ConnFits, Holds, Once
  <1>7. QED
    BY <1>3, <1>4, <1>5, <1>6 DEF ClientInv, Attempts, Conns

LEMMA ClientStepKeeps == ClientInv /\ [ClientNext]_clientVars => ClientInv'
PROOF
  <1> SUFFICES ASSUME ClientInv, [ClientNext]_clientVars PROVE ClientInv'
    OBVIOUS
  <1>1. CASE UNCHANGED clientVars
    <2>1. UNCHANGED <<conn, serving, mainQ, plugQ, connQ, scanning, autoConnect, checking, listed,
                      heard, readers, detecting, refusals, pairing, paired, named>>
      BY <1>1 DEF clientVars, plugIn, client, settings, sockets
    <2>2. QueuesFit' /\ \A n : Made(n)' <=> Made(n)
      BY <2>1, SameConnections DEF ClientInv, QueuesFit, QueuesWouldFit
    <2>3. ListedIsHeard'
      BY <2>1, <2>2, StillListed DEF ClientInv
    <2>4. QED
      BY <2>1, <2>2, <2>3 DEF ClientInv, ClientTypeOK, Attempts, Conns, Null, Nobody, Other
  <1>2. CASE Interference \/ connectToPairedReaders \/ PhoneDrops
    BY <1>2, Scans, Interferes DEF Interference
  <1>3. CASE \/ RemoteClientLoop \/ PlugInLoop \/ handleIFDStatusCrashes
             \/ ConnectorLoop
    BY <1>3, ClientTurns, PlugInTurns, Crashed, ConnectorTurns
  <1>4. CASE PhoneTellsStatus
    <2>1. 1 \in Attempts
      BY RemoteClientAssumption DEF Attempts
    <2>2. QED
      BY <1>4, <2>1, SocketsTurn
  <1>5. ASSUME NEW n \in Attempts,
               \/ onConnected(n) \/ ConnectionFails(n) \/ onDisconnected(n) \/ PhoneAnswers(n)
               \/ Deleted(n)
        PROVE  ClientInv'
    BY <1>5, Connected, SocketsTurn, Deletes
  <1>6. QED
    BY <1>1, <1>2, <1>3, <1>4, <1>5 DEF ClientNext

LEMMA ClientInvariant == ClientSpec => []ClientInv
PROOF
  <1>1. QED
    BY ClientInitially, ClientStepKeeps, PTL DEF ClientSpec

(* A reader on the list goes with its phone: its dispatcher is alive and   *)
(* heard, or its end is on the way (RemoteReaderManagerPlugIn).            *)
THEOREM ReadersWatched == ClientSpec => []ReaderIsWatched
PROOF
  <1>1. ClientInv => ReaderIsWatched
    <2> SUFFICES ASSUME ClientInv, readers # {}, ~Stuck, ~EndIsTold
                 PROVE  \E n \in heard : conn[n].at = "open"
      BY DEF ReaderIsWatched
    <2>1. listed \in Attempts /\ conn[listed].at # "closed"
      BY DEF ClientInv, ClientTypeOK, ListedIsHeard, Stuck
    <2>2. listed \in heard /\ conn[listed].at = "open"
      BY <2>1 DEF ClientInv, ListedIsHeard, Made
    <2>3. QED
      BY <2>2
  <1>2. QED
    BY <1>1, ClientInvariant, PTL
=============================================================================
