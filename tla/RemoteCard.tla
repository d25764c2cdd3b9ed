----------------------------- MODULE RemoteCard ------------------------------
(***************************************************************************)
(* The client of a RemoteService: RemoteCard, in the one ReaderManager     *)
(* thread of the other device, sends a request and waits for an answer of  *)
(* the expected type, a closed connection, or its timeout.                 *)
(***************************************************************************)
EXTENDS RemoteService

VARIABLES
  waiting,    \* the request that sendMessage waits for, or NoRequest
  givenUp     \* history: the kinds of request that timed out on the connection

rvars == <<vars, waiting, givenUp>>

NoRequest == [kind |-> "none", id |-> None]

RInit == Init /\ waiting = NoRequest /\ givenUp = {}

(* The requests of a card that has the handle, or lacks it.                *)
sendMessage(kind) ==
  /\ state \in Live /\ handler # None /\ waiting = NoRequest
  /\ Len(from) < MaxRequests
  /\ from' = Append(from, handler)
  /\ waiting' = [kind |-> kind, id |-> Len(from')]
  /\ toServer' = Append(toServer, waiting')
  /\ UNCHANGED <<handler, connections, toClient, reader, posted, workflow, givenUp>>

TimedOut ==
  /\ waiting # NoRequest
  /\ givenUp' = givenUp \cup {waiting.kind} /\ waiting' = NoRequest
  /\ UNCHANGED vars

onMessageReceived_AnyType ==
  /\ toClient # <<>> /\ toClient' = Tail(toClient)
  /\ waiting' = NoRequest
  /\ UNCHANGED <<handler, connections, toServer, from, reader, posted, workflow, givenUp>>

(* Status messages of the reader are no answers and left out.              *)
onMessageReceived ==
  /\ toClient # <<>> /\ toClient' = Tail(toClient)
  /\ waiting' = IF Head(toClient).kind = waiting.kind THEN NoRequest ELSE waiting
  /\ UNCHANGED <<handler, connections, toServer, from, reader, posted, workflow, givenUp>>

(* The client hangs up, or a ping is not answered.                         *)
onDispatcherClosed ==
  /\ onConnectionClosed
  /\ waiting' = NoRequest /\ givenUp' = {}

Service ==
  \/ onWebsocketConnection \/ CardMoves \/ MainLoop
  \/ passwordEntered \/ cancelPasswordRequest

Stopped == onUserCancelled /\ IF state' = "Final"
                                THEN waiting' = NoRequest /\ givenUp' = {}
                                ELSE UNCHANGED <<waiting, givenUp>>

RNext ==
  \/ Service /\ UNCHANGED <<waiting, givenUp>>
  \/ Stopped \/ onDispatcherClosed
  \/ \E kind \in Kinds : sendMessage(kind)
  \/ TimedOut \/ onMessageReceived

Spec == RInit /\ [][RNext]_rvars

(***************************************************************************)
(* Types; an asked user has something to type into.                        *)
(***************************************************************************)
TypeOK ==
  /\ handler \in 0..MaxConnections /\ connections \in 0..MaxConnections
  /\ toServer \in Seq([kind : Kinds, id : Requests])
  /\ toClient \in Seq([kind : Kinds, id : Requests])
  /\ from \in Seq(1..MaxConnections)
  /\ handles \in Nat /\ card \in BOOLEAN /\ open \in BOOLEAN /\ channel \in BOOLEAN
  /\ state \in Live \cup {"Final", "Crashed"}
  /\ ctx \in [pace : Requests \cup {None}, modify : Requests \cup {None},
              connection : BOOLEAN, pin : Pins, newPin : Pins]
  /\ views \in Seq([dialog : Dialogs, asked : 1..MaxConnections])
  /\ waiting \in [kind : Kinds, id : Requests] \cup {NoRequest}
  /\ state \in Dialogs => views # <<>> /\ Last(views).dialog = state

(***************************************************************************)
(* The user is asked only on behalf of the client that is connected now,   *)
(* however clients come and go meanwhile.                                  *)
(***************************************************************************)
DialogHasItsClient ==
  state \in Dialogs =>
    LET id == IF state = "EnterPacePassword" THEN ctx.pace ELSE ctx.modify
    IN handler # None /\ id # None /\ from[id] = handler

(***************************************************************************)
(* What was typed while one client was connected is never there for the    *)
(* next.                                                                   *)
(***************************************************************************)
PasswordStaysWithItsClient ==
  handler # None /\ state # "Crashed" =>
    \A p \in {ctx.pin, ctx.newPin} : p # NoPin => p.typed = handler

(***************************************************************************)
(* A client gets answers to its own requests only, though PACE and PIN     *)
(* change outlive the connection they were ordered on.                     *)
(***************************************************************************)
AnswersToRequester == \A i \in DOMAIN toClient : from[toClient[i].id] = handler

(***************************************************************************)
(* RemoteCard takes only the answer to its request, unless it gave up an   *)
(* earlier request of that type, whose answer may come late.               *)
(***************************************************************************)
AnswerFits ==
  [][waiting # NoRequest /\ waiting' = NoRequest
       /\ toClient # <<>> /\ toClient' = Tail(toClient) /\ UNCHANGED handler
     => Head(toClient).id = waiting.id \/ waiting.kind \in givenUp]_rvars
=============================================================================
