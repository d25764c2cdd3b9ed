---------------------------- MODULE RemoteClient -----------------------------
(***************************************************************************)
(* How a device finds, pairs and keeps the phone it uses as a card reader. *)
(* Three threads with an event loop each: RemoteReaderManagerPlugIn (the   *)
(* thread of the readers) looks every second for paired phones that        *)
(* announce themselves, RemoteClientImpl (main thread) keeps the pending   *)
(* entries, RemoteConnectorImpl opens the web sockets; the connections     *)
(* made, the RemoteDispatcherClients, live in the connector's thread.  One *)
(* phone, which serves one client at a time.                               *)
(***************************************************************************)
EXTENDS Naturals, Sequences, FiniteSets, SequencesExt

CONSTANTS
  MaxAttempts,   \* bound: connections that are tried or alive at a time
  MaxUses,       \* bound: how often the user or a workflow interferes
  MaxQueue,      \* bound: unread status messages of the phone
  RefusalLimit   \* the refusals after which a phone is unpaired: 7

ASSUME RemoteClientAssumption ==
  /\ MaxAttempts \in Nat \ {0} /\ MaxUses \in Nat /\ MaxQueue \in Nat
  /\ RefusalLimit \in Nat \ {0}

VARIABLES
  scanning,     \* mScanTimer runs
  autoConnect,  \* mConnectToPairedReaders
  checking,     \* mConnectionCheckInProgress
  listed,       \* mDispatcherList[id]: an attempt, Nobody, or Null (a null pointer)
  heard,        \* the dispatchers whose signals the plug-in is connected to
  readers,      \* mReaderList: who answers for a reader, named by a context or not
  detecting,    \* mDatagramHandler is there: the phone may be in the list
  refusals,     \* mErrorCounter
  paired,       \* the phone's certificate is trusted
  named,        \* its name is stored
  pairing,      \* the user interface waits for fireEstablishConnectionDone
  conn,         \* the attempts and the connections that have come of them
  serving,      \* whom the phone serves: an attempt, Other or Nobody
  mainQ, plugQ, connQ,  \* the posted events of the three threads
  uses          \* counted for the bound

plugIn == <<scanning, autoConnect, checking, listed, heard, readers>>
client == <<detecting, refusals, pairing>>
settings == <<paired, named>>
sockets == <<conn, serving>>
clientVars == <<plugIn, client, settings, sockets, mainQ, plugQ, connQ, uses>>

Attempts == 1..MaxAttempts
Nobody == 0
Null == MaxAttempts + 1
Other == MaxAttempts + 2

Free == [at |-> "free", psk |-> FALSE, trusted |-> FALSE, context |-> FALSE,
         asked |-> "nothing"]
Holders == {"newDispatcher", "created", "establishContext", "getStatus"}
Event(kind, n) == [kind |-> kind, of |-> n]
Signal(kind) == Event(kind, Nobody)

(* startScan(true) has just been called.                                   *)
ClientInit ==
  /\ scanning = TRUE /\ autoConnect = TRUE /\ checking = TRUE
  /\ listed = Nobody /\ heard = {} /\ readers = {}
  /\ detecting = FALSE /\ refusals = 0 /\ pairing = FALSE
  /\ paired \in BOOLEAN /\ named = paired
  /\ conn = [n \in Attempts |-> Free] /\ serving = Nobody
  /\ mainQ = <<Signal("startDetection"), Signal("requestRemoteDevices")>>
  /\ plugQ = <<>> /\ connQ = <<>> /\ uses = 0

(***************************************************************************)
(* RemoteReaderManagerPlugIn.                                              *)
(***************************************************************************)
(* A check that could find no number for its attempt (bound) is left out.  *)
Room ==
  Cardinality({n \in Attempts : conn[n].at # "free"})
    + Cardinality({i \in DOMAIN mainQ : mainQ[i].kind = "establishConnection"}) < MaxAttempts

Check(start, mq) ==
  IF start /\ ~checking
    THEN checking' = TRUE /\ mainQ' = Append(mq, Signal("requestRemoteDevices"))
    ELSE checking' = checking /\ mainQ' = mq

(* Every second, or when the phone appears.                                *)
connectToPairedReaders ==
  /\ scanning /\ autoConnect /\ ~checking /\ Room
  /\ Check(TRUE, mainQ)
  /\ UNCHANGED <<scanning, autoConnect, listed, heard, readers, client, settings,
                 sockets, plugQ, connQ, uses>>

removeAllDispatchers == IF listed \in Attempts THEN Append(connQ, Event("close", listed))
                                               ELSE connQ

startScan(pAutoConnect) ==
  /\ uses < MaxUses /\ uses' = uses + 1 /\ Room
  /\ scanning' = TRUE /\ autoConnect' = pAutoConnect
  /\ connQ' = IF pAutoConnect THEN connQ ELSE removeAllDispatchers
  /\ Check(pAutoConnect, Append(mainQ, Signal("startDetection")))
  /\ UNCHANGED <<listed, heard, readers, client, settings, sockets, plugQ>>

stopScan ==
  /\ scanning /\ uses < MaxUses /\ uses' = uses + 1
  /\ scanning' = FALSE
  /\ mainQ' = Append(mainQ, Signal("stopDetection"))
  /\ connQ' = removeAllDispatchers
  /\ UNCHANGED <<autoConnect, checking, listed, heard, readers, client, settings,
                 sockets, plugQ>>

continueConnectToPairedReaders_StaysChecking(e) ==
  /\ mainQ' = IF e.kind = "seen" /\ listed = Nobody /\ paired
                THEN Append(mainQ, Signal("establishConnection")) ELSE mainQ
  /\ UNCHANGED <<checking, listed, heard, readers, named, connQ>>

continueConnectToPairedReaders(e) ==
  /\ checking' = FALSE
  /\ mainQ' = IF e.kind = "seen" /\ listed = Nobody /\ paired
                THEN Append(mainQ, Signal("establishConnection")) ELSE mainQ
  /\ UNCHANGED <<listed, heard, readers, named, connQ>>

(* The signals of a dispatcher that is replaced stay connected.            *)
addRemoteDispatcher(n) ==
  /\ listed' = n /\ heard' = heard \cup {n}
  /\ connQ' = Append(connQ, Event("establishContext", n))
  /\ UNCHANGED <<checking, readers, named, mainQ>>

removeDispatcher_KeepsReaders ==
  /\ listed' = Nobody /\ heard' = heard \ {listed}
  /\ UNCHANGED <<readers, checking, named, mainQ, connQ>>

(* The end of any dispatcher of the phone removes the one in the list.     *)
removeDispatcher ==
  /\ readers' = {} /\ listed' = Nobody /\ heard' = heard \ {listed}
  /\ UNCHANGED <<checking, named, mainQ, connQ>>

(* operator[] inserts a null pointer for an id that is not listed.         *)
onContextEstablished ==
  /\ named' = paired
  /\ listed' = IF listed = Nobody THEN Null ELSE listed
  /\ connQ' = IF listed \notin Attempts THEN connQ
              ELSE Append(connQ, Event(IF named THEN "getStatus" ELSE "close", listed))
  /\ UNCHANGED <<checking, heard, readers, mainQ>>

Reader == [by |-> listed, named |-> conn[listed].context]
SameName(r) == r.named = Reader.named /\ (r.named => r.by = listed)

(* The status of a phone that is not listed is not looked at.              *)
handleIFDStatus(connected) ==
  /\ listed # Null
  /\ readers' = IF listed \notin Attempts THEN readers
                ELSE IF connected /\ \E r \in readers : SameName(r) THEN readers
                ELSE IF connected THEN readers \cup {Reader}
                ELSE {r \in readers : ~SameName(r)}
  /\ UNCHANGED <<checking, listed, heard, named, mainQ, connQ>>

PlugInLoop ==
  /\ plugQ # <<>> /\ plugQ' = Tail(plugQ)
  /\ LET e == Head(plugQ) IN
       \/ e.kind \in {"seen", "notSeen"} /\ continueConnectToPairedReaders(e)
       \/ e.kind = "newDispatcher" /\ addRemoteDispatcher(e.of)
       \/ e.kind = "closed" /\ removeDispatcher
       \/ e.kind = "contextEstablished" /\ onContextEstablished
       \/ e.kind = "reader" /\ handleIFDStatus(TRUE)
       \/ e.kind = "noReader" /\ handleIFDStatus(FALSE)
  /\ UNCHANGED <<scanning, autoConnect, client, paired, sockets, uses>>

(* A null pointer in the list is dereferenced: the program crashes, with   *)
(* all its threads, and leaves its settings.  The phone still has to       *)
(* notice; startScan begins another run of the program.                    *)
handleIFDStatusCrashes ==
  /\ plugQ # <<>> /\ Head(plugQ).kind \in {"reader", "noReader"} /\ listed = Null
  /\ scanning' = FALSE /\ autoConnect' = FALSE /\ checking' = FALSE
  /\ listed' = Nobody /\ heard' = {} /\ readers' = {}
  /\ detecting' = FALSE /\ refusals' = 0 /\ pairing' = FALSE
  /\ conn' = [n \in Attempts |-> Free]
  /\ serving' = IF serving \in Attempts THEN Other ELSE serving
  /\ mainQ' = <<>> /\ plugQ' = <<>> /\ connQ' = <<>>
  /\ UNCHANGED <<settings, uses>>

(***************************************************************************)
(* RemoteClientImpl.                                                       *)
(***************************************************************************)
(* The lowest free number names the new attempt.                           *)
establishConnection(psk, n) ==
  /\ conn[n].at = "free" /\ \A m \in 1..(n - 1) : conn[m].at # "free"
  /\ conn' = [conn EXCEPT ![n] = [Free EXCEPT !.at = "posted", !.psk = psk]]
  /\ connQ' = Append(connQ, Event("connect", n))

(* Each report takes an entry of mRemoteConnectorPending and is told to    *)
(* everybody.  (The list is not kept: nothing but its reports reads it.)   *)
fireEstablishConnectionDone == pairing' = FALSE

onRemoteDispatcherCreated(n) ==
  /\ fireEstablishConnectionDone
  /\ refusals' = 0
  /\ plugQ' = Append(plugQ, Event("newDispatcher", n))
  /\ UNCHANGED <<detecting, settings, conn, connQ>>

onRemoteDispatcherError_Unanswered(refused) ==
  /\ LET seven == refused /\ refusals + 1 >= RefusalLimit
     IN  /\ refusals' = IF refused /\ ~seven THEN refusals + 1 ELSE 0
         /\ paired' = (paired /\ ~seven) /\ named' = (named /\ ~seven)
  /\ UNCHANGED <<detecting, pairing, plugQ, conn, connQ>>

onRemoteDispatcherError(refused) ==
  /\ fireEstablishConnectionDone
  /\ LET seven == refused /\ refusals + 1 >= RefusalLimit
     IN  /\ refusals' = IF refused /\ ~seven THEN refusals + 1 ELSE 0
         /\ paired' = (paired /\ ~seven) /\ named' = (named /\ ~seven)
  /\ UNCHANGED <<detecting, plugQ, conn, connQ>>

Detection(on) ==
  /\ detecting' = on
  /\ UNCHANGED <<refusals, pairing, settings, plugQ, conn, connQ>>

(* The phone is in the list if it has been announcing itself lately.       *)
requestRemoteDevices ==
  /\ \E seen \in {"notSeen"} \cup {x \in {"seen"} : detecting} :
       plugQ' = Append(plugQ, Signal(seen))
  /\ UNCHANGED <<client, settings, conn, connQ>>

RemoteClientLoop ==
  /\ mainQ # <<>> /\ mainQ' = Tail(mainQ)
  /\ LET e == Head(mainQ) IN
       \/ e.kind = "requestRemoteDevices" /\ requestRemoteDevices
       \/ e.kind = "startDetection" /\ Detection(TRUE)
       \/ e.kind = "stopDetection" /\ Detection(FALSE)
       \/ /\ e.kind = "establishConnection"
          /\ \E n \in Attempts : establishConnection(FALSE, n)
          /\ UNCHANGED <<detecting, refusals, pairing, settings, plugQ>>
       \/ e.kind = "created" /\ onRemoteDispatcherCreated(e.of)
       \/ e.kind = "refused" /\ onRemoteDispatcherError(TRUE)
       \/ e.kind = "failed" /\ onRemoteDispatcherError(FALSE)
  /\ UNCHANGED <<plugIn, serving, uses>>

(* connectToRememberedServer, and "forget" in the list of devices.         *)
Pair ==
  /\ detecting /\ ~paired /\ ~pairing /\ ~checking /\ Room
  /\ uses < MaxUses /\ uses' = uses + 1 /\ pairing' = TRUE
  /\ \E n \in Attempts : establishConnection(TRUE, n)
  /\ UNCHANGED <<plugIn, detecting, refusals, settings, serving,
                 mainQ, plugQ>>

Forget ==
  /\ paired /\ uses < MaxUses /\ uses' = uses + 1
  /\ paired' = FALSE /\ named' = FALSE
  /\ UNCHANGED <<plugIn, client, sockets, mainQ, plugQ, connQ>>

(***************************************************************************)
(* RemoteConnectorImpl, its web sockets and the phone.                     *)
(***************************************************************************)
Connecting == {n \in Attempts : conn[n].at = "connecting"}

onConnectRequest(n) ==
  /\ conn' = [conn EXCEPT ![n].at = "connecting", ![n].trusted = conn[n].psk \/ paired]
  /\ UNCHANGED serving

(* Only the one the phone serves is answered.                              *)
send(n, what) ==
  /\ conn' = [conn EXCEPT ![n].asked = IF serving = n THEN what ELSE "nothing"]
  /\ UNCHANGED serving

close(n) ==
  /\ serving' = IF serving = n THEN Other ELSE serving
  /\ UNCHANGED conn

ConnectorLoop ==
  /\ connQ # <<>> /\ connQ' = Tail(connQ)
  /\ LET e == Head(connQ) IN
       \/ e.kind = "connect" /\ onConnectRequest(e.of)
       \/ e.kind \in {"establishContext", "getStatus"} /\ send(e.of, e.kind)
       \/ e.kind = "close" /\ close(e.of)
  /\ UNCHANGED <<plugIn, client, settings, mainQ, plugQ, uses>>

(* All requests for the same phone end with the first one.                 *)
removeRequest == [n \in Attempts |-> IF n \in Connecting THEN Free ELSE conn[n]]

onConnected(n) ==
  /\ n \in Connecting /\ conn[n].trusted
  /\ conn' = [removeRequest EXCEPT ![n] = [Free EXCEPT !.at = "open"]]
  /\ serving' = IF serving = Nobody THEN n ELSE serving
  /\ paired' = (paired \/ conn[n].psk)
  /\ mainQ' = Append(mainQ, Event("created", n))
  /\ UNCHANGED <<plugIn, client, named, plugQ, connQ, uses>>

(* onError or onTimeout.                                                   *)
ConnectionFails(n) ==
  /\ n \in Connecting
  /\ conn' = removeRequest
  /\ \E kind \in {"refused", "failed"} : mainQ' = Append(mainQ, Signal(kind))
  /\ UNCHANGED <<plugIn, client, settings, serving, plugQ, connQ, uses>>

(* The phone goes, its user stops the service, or a pong is missing.       *)
PhoneDrops ==
  /\ serving # Nobody /\ serving' = Nobody
  /\ UNCHANGED <<plugIn, client, settings, conn, mainQ, plugQ, connQ, uses>>

(* Somebody else's device is served.                                       *)
PhoneTaken ==
  /\ serving = Nobody /\ serving' = Other
  /\ uses < MaxUses /\ uses' = uses + 1
  /\ UNCHANGED <<plugIn, client, settings, conn, mainQ, plugQ, connQ>>

Say(kind, n) == plugQ' = IF n \in heard THEN Append(plugQ, Signal(kind)) ELSE plugQ

(* The end of a socket that is not served, because the phone has closed it *)
(* (RemoteWebSocketServerImpl takes one client) or this side has.          *)
onDisconnected(n) ==
  /\ conn[n].at = "open" /\ serving # n
  /\ conn' = [conn EXCEPT ![n].at = "closed", ![n].asked = "nothing"]
  /\ Say("closed", n)
  /\ UNCHANGED <<plugIn, client, settings, serving, mainQ, connQ, uses>>

PhoneAnswers(n) ==
  /\ serving = n /\ conn[n].asked # "nothing"
  /\ conn' = [conn EXCEPT ![n].asked = "nothing", ![n].context = TRUE]
  /\ IF conn[n].asked = "establishContext" THEN Say("contextEstablished", n)
                                           ELSE Say("reader", n)
  /\ UNCHANGED <<plugIn, client, settings, serving, mainQ, connQ, uses>>

(* Also unasked, when its reader comes or goes.                            *)
PhoneTellsStatus ==
  /\ serving \in Attempts /\ conn[serving].context /\ Len(plugQ) < MaxQueue
  /\ \E kind \in {"reader", "noReader"} : Say(kind, serving)
  /\ UNCHANGED <<plugIn, client, settings, sockets, mainQ, connQ, uses>>

Referenced(n) ==
  \/ listed = n \/ \E r \in readers : r.by = n
  \/ \E q \in {mainQ, plugQ, connQ} : \E e \in ToSet(q) : e.of = n /\ e.kind \in Holders

(* What is posted to an object dies with it.                               *)
Without(q, n) ==
  LET kept[i \in 0..Len(q)] ==
        IF i = 0 THEN <<>>
        ELSE IF q[i].of = n THEN kept[i - 1] ELSE Append(kept[i - 1], q[i])
  IN  kept[Len(q)]

(* The last shared pointer is gone, deleteLater.                           *)
Deleted(n) ==
  /\ conn[n].at \in {"open", "closed"} /\ ~Referenced(n)
  /\ conn' = [conn EXCEPT ![n] = Free]
  /\ serving' = IF serving = n THEN Other ELSE serving
  /\ heard' = heard \ {n}
  /\ connQ' = Without(connQ, n)
  /\ UNCHANGED <<scanning, autoConnect, checking, listed, readers, detecting,
                 refusals, pairing, settings, mainQ, plugQ, uses>>

Interference ==
  \/ \E auto \in BOOLEAN : startScan(auto)
  \/ stopScan \/ Pair \/ Forget \/ PhoneTaken

ClientNext ==
  \/ Interference \/ connectToPairedReaders
  \/ RemoteClientLoop \/ PlugInLoop \/ handleIFDStatusCrashes \/ ConnectorLoop
  \/ PhoneDrops \/ PhoneTellsStatus
  \/ \E n \in Attempts :
       onConnected(n) \/ ConnectionFails(n) \/ onDisconnected(n) \/ PhoneAnswers(n)
       \/ Deleted(n)

ClientSpec == ClientInit /\ [][ClientNext]_clientVars

(* The loops turn, the one-second and the five-second timers expire, a     *)
(* phone frees itself of dead and of foreign clients, announces itself     *)
(* again and again, and one that is tried again and again is reached.      *)
FairSpec ==
  /\ ClientSpec
  /\ WF_clientVars(RemoteClientLoop) /\ WF_clientVars(ConnectorLoop)
  /\ WF_clientVars(PlugInLoop \/ handleIFDStatusCrashes)
  /\ SF_clientVars(RemoteClientLoop /\ plugQ' = Append(plugQ, Signal("seen")))
  /\ WF_clientVars(connectToPairedReaders) /\ WF_clientVars(serving = Other /\ PhoneDrops)
  /\ \A n \in Attempts :
       /\ WF_clientVars(onDisconnected(n)) /\ WF_clientVars(Deleted(n))
       /\ WF_clientVars(onConnected(n) \/ ConnectionFails(n))
       /\ SF_clientVars(serving = Nobody /\ onConnected(n))

(***************************************************************************)
(* Types.                                                                  *)
(***************************************************************************)
ClientTypeOK ==
  /\ {scanning, autoConnect, checking, detecting, paired, named, pairing} \subseteq BOOLEAN
  /\ listed \in Attempts \cup {Nobody, Null} /\ heard \subseteq Attempts
  /\ readers \subseteq [by : Attempts, named : BOOLEAN]
  /\ refusals \in 0..(RefusalLimit - 1)
  /\ serving \in Attempts \cup {Nobody, Other}

EndIsTold == \E e \in ToSet(plugQ) : e.kind = "closed"

(* An id that addRemoteDispatcher's replacement or operator[] of the list  *)
(* has left behind: it counts as connected and nothing removes it.         *)
Stuck == ~EndIsTold /\ (listed = Null \/ (listed \in Attempts /\ conn[listed].at = "closed"))

(***************************************************************************)
(* A reader on the list disappears when its phone does: a dispatcher of    *)
(* the phone that the plug-in hears is alive, or its end is on the way     *)
(* (removeDispatcher), unless the phone's id is stuck.                     *)
(***************************************************************************)
ReaderIsWatched ==
  readers # {} /\ ~Stuck =>
    EndIsTold \/ \E n \in heard : conn[n].at = "open"

(***************************************************************************)
(* Whoever pairs a phone hears how it ends (fireEstablishConnectionDone),  *)
(* whichever thread finds out.                                             *)
(***************************************************************************)
PairingAnswered == pairing ~> ~pairing

(***************************************************************************)
(* While the scan runs, a paired phone that announces itself is connected  *)
(* again and again (connectToPairedReaders), unless its id is stuck.       *)
(***************************************************************************)
Reconnects ==
  []<>(\/ serving \in Attempts \/ Stuck
       \/ ~(scanning /\ autoConnect /\ paired))
=============================================================================
