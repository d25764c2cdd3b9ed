# A verification model of AusweisApp2

AusweisApp2 (the SDK edition kept in this repository) reads German identity cards: it changes
their PIN, authenticates their holder to web services and turns a smartphone into a card reader.
This directory holds TLA+ modules translated from the C++ sources under `src/src/`, TLC
configurations that check them on small instances, and theorems proved with TLAPS.

Run `tlc -config <name>.cfg <module>` for a run listed in section 3 and `tlapm <module>.tla` for a
module of proofs (`AppControllerProofs`, `AndroidProofs`, `RemoteServiceProofs`, `FileUpdatesProofs`,
`WebSocketProofs`, `CompositeStatePaceProofs`, `ChangePinProofs`, `AuthProofs`).

## 1. The system

Everything below runs in the main thread of a Qt application unless a thread is named.

| component (sources) | state it keeps | operations | what makes it correct |
|---|---|---|---|
| **Application controller** (`core/controller/AppController`, `ui/base/UILoader`) | current action and its controller, one waiting request, shutdown flag, UI domination | requests from UIs and activation handlers, end of a workflow, quit, restart, domination | no request is lost or served twice; an end belongs to its workflow; a shutdown quits |
| **Workflow** (`core/controller/WorkflowController`, `core/context`, `core/states/AbstractState`) | a QStateMachine and its context: current state, approval, killed flag, status, passwords, connection, expected reader and counter | start, approve a state (which runs it), cancel, kill, leave a state (which disconnects its slots) | a cancelled or killed workflow ends; passwords do not outlive it |
| **PACE states** (`core/states/CompositeStatePace`) | - | select a reader, connect, read the counter, choose PIN, CAN or PUK, ask for it, open the channel, recover | the right password is sent to the right card and costs at most one try |
| **PIN change** (`core/controller/ChangePinController`) | the new PIN | the PACE states, then set the PIN and clean up | success means a changed PIN |
| **Authentication, self-authentication** (`core/controller/AuthController`, `SelfAuthController`, `core/states/CompositeStateTrustedChannel`, `core/paos`) | TC token, certificates, chosen rights, PAOS conversation | get the token, check certificates, edit rights, PACE, EAC1, EAC2, transmit, redirect | only what the user accepted is read; every path answers the server and the browser |
| **Card connection and commands** (`card/base/CardConnection*`, `card/base/command`) | the worker of a reader, PACE flags; commands queued for the ReaderManager thread | create a connection, PACE, unblock, set PIN, destroy the channel, EAC, transmit | the result of a command meets the state that asked for it |
| **Readers** (`card/base/Reader*`, `card/pcsc`, `card/nfc`, `card/bluetooth`; ReaderManager thread) | cards, counters, connection to a card | scan, insert, remove, connect, update the counter | the counter shown is the one of the card that is there |
| **PACE protocol, secure messaging, APDUs, ASN.1** (`card/base/pace`, `card/base/asn1`) | keys, send sequence counter | key agreement, encoding, certificate chains | two ends stay in step; a chain links every certificate to the next |
| **Remote service** (the phone: `remote_device/ServerMessageHandler`, `core/states/remote_service`) | one client, handles of connected cards, the request PACE is run for, passwords typed | connect, transmit, PACE and PIN change with a dialogue on the phone | what a client ordered or the user typed for it is never met by the next client |
| **Remote client** (`remote_device/RemoteClientImpl`, `RemoteConnectorImpl`, `plugin`; three threads) | phones seen, connections listed, readers, paired phones | detect, pair, connect again, send a request and wait | a reader lives as long as its phone; an answer belongs to its request |
| **SDK interface** (`ui/json`, `ui/websocket`) | the message the workflow waits for, one client, the domination | commands of a client, messages on state changes, a client that vanishes | a command is accepted only in the state it answers; a client never meets the workflow of another |
| **Android service** (`ui/aidl`; binder threads and the main thread) | the session of one application, a mutex held while a workflow is active | connect, send, deliver a message, reset the workflow of the last session | no deadlock between binder and main thread; a reset does not hit the next session |
| **Java library** (`src/android/AusweisAppSDKTest`; three threads a call) | channels between the threads of a call, the callback's channel that all calls share | run a self-authentication, remove the card, interrupt | the PIN of a call is tried once; a call ends |
| **Graphical interfaces** (`ui/qml`, `ui/widget`, `ui/common`) | what is shown | approve states, set passwords, cancel, choose reader types | - |
| **Activation and local HTTP server** (`activation`, `network/HttpServer`) | open requests | accept an authentication, answer it once | every request is answered exactly once |
| **Files and updates** (`file_provider`, `services`) | one download at a time, cached files | update, validate, retry | an old file is never taken for a fresh one |
| **Settings, secure storage, configuration, export, global, init** | configuration | read and write | - |

How they interact: UI plug-ins and activation handlers send requests to the application
controller through queued connections; it creates a workflow controller whose state machine it
starts, and announces the workflow to the plug-ins. Each state change is announced; a plug-in
approves the state, sooner or later, and that runs it. A state calls card commands, which are
executed in the ReaderManager thread; their results, and cards coming and going, are queued
signals back. The end of the state machine reaches the application controller through two more
queued signals.

Hard behaviour: approvals may be delayed while cards are removed, swapped and re-inserted and
while the user cancels or quits; results may arrive after the state that asked has been left;
a card acts on a command whose answer is lost; one signal may answer several commands; a kill may
meet a workflow in any stage; requests arrive while another workflow ends or the application
shuts down. `PROJECT.json` lists these hazards at their lines.

## 2. Modules

| module | models |
|---|---|
| `CardReturnCode` | card return codes, their classification and translation to a status |
| `CardWorkflow` | the context, the protocol of `AbstractState`, approval, cancel and kill, queued commands, the connection's life |
| `CardCommands` | what the ReaderManager thread and the card do with each command |
| `CompositeStatePace` | the states of the PACE composite, one action per `run()` and per callback, and the comings and goings of cards |
| `ChangePinController` | the PIN change workflow on top of them, its specification and its properties |
| `TrustedChannel` | `CompositeStateTrustedChannel`: TC token, PAOS dialogue, certificates and rights, EAC and transmit commands |
| `AuthController` | authentication and self-authentication around it: refresh address, history, survey, browser |
| `Workflow` | abstract: the life of any workflow |
| `AppController` | the application controller, built on the abstract workflow |
| `MessageDispatcher` | the JSON interface: which message a workflow has sent last, which command it therefore accepts |
| `WebSocket` | `UIPlugInWebSocket` and its clients, composed with `MessageDispatcher` and `AppController` |
| `Aidl` | the Android service: `AidlBinder`, `UIPlugInAidl`, monitor, mutex and posted events |
| `Connector` | the Java library: `Connector.runWorkflow`, its threads and `SelfAuthWorkflow` |
| `RemoteService` | the phone as card reader: `ServerMessageHandler` and `RemoteServiceController` |
| `RemoteCard` | the requests of the other device and their timeouts, composed with `RemoteService` |
| `RemoteClient` | detection, pairing and reconnection on the other device: three threads |
| `FileUpdates` | `Downloader`, `UpdatableFile`, `AppUpdater` |
| `CompositeStatePaceProofs` | the invariant and the lemmas that both card workflows share |
| `AppControllerProofs`, `AndroidProofs`, `RemoteServiceProofs`, `FileUpdatesProofs`, `WebSocketProofs`, `ChangePinProofs`, `AuthProofs` | the theorems |
| `MC...` | instances for TLC |

`ChangePinController` and `TrustedChannel` take `CompositeStatePace` with `INSTANCE ... WITH` and
say where its two exits lead; `TrustedChannel` also says when the CAN-allowed mode holds.
`CompositeStatePace` extends `CardCommands`, which extends `CardWorkflow`. `AuthController` extends
`TrustedChannel`. The controllers and `AppController` meet in `Workflow`: the application controller
is built on it, `ChangePinController` and `AuthController` are shown to implement it
(`ImplementsWorkflow`). `WebSocket` takes `AppController` with `INSTANCE` (no quits) and extends
`MessageDispatcher`; `RemoteCard` extends `RemoteService`.

### Correspondence with the code

* A state of the model is a state of the C++ machine, named alike without its prefix. `phase` is
  `"entered"` between `onEntry` and the approval, `"waiting"` when `run()` has returned without
  firing a transition. Approval and `run()` are one action, because `onStateApprovedChanged` calls
  `run()` at once. `UiHolds` are the states that the QML interface leaves unapproved until the user
  acts; main-loop events reach the machine only in those and in waiting states.
* `ctx` is the context. A secret is the card whose secret it is, or `WrongPassword`; so the card
  can judge it without characters.
* `jobs` are the command objects, oldest first, with the result once executed. `heard` is FALSE
  when the state that asked has been left (`clearConnections` in `onExit`). The `CardConnection`'s
  own lambdas (PACE flags) act either way. A CreateCardConnectionCommand is answered by the first
  worker created while it waits, whichever reader that is for, as in the code; the worker that it
  asked for itself is then created for nobody.
* `reader` holds the card inserted, `ReaderInfo`'s counter and whether the card is connected
  (`"can"`: connected, and opened with the CAN). `card` holds what the card itself
  knows. The counter of the reader and of the connection may differ from it, as in the code:
  a reading of a card in `Unreadable` may fail, at insertion too, and only a change from one known
  counter to another is told to the connection. `ctx.doubted` is a history field: a reading has
  failed, or has shown a switched-off PIN, for the card of the connection since it was made.
* Which password a reader is asked for depends on who asks: the JSON interface looks at the reader
  the context names (`AsksByName`, TRUE in `AuthController`'s run), the graphical ones at the reader
  of the connection (FALSE in the PIN change).
* `auth` is what `AuthContext` adds, with four history fields: what the server said last, whether
  the user consented, whether an entry of the history was written, what the browser was answered.
  `Received` says which message takes each sending state where; any other message is an error.
* A kill is `killWorkflow` (approve) and `CancelKilled` (the cancel that follows once the approved
  states have run).
* The main loop of `AppController` is `queue`. Requests, machine starts, machine ends,
  `fireComplete`, restart and the quit of the event loop are posted events; quitting and taking
  the UI domination are direct calls. `fate` is a history variable.
* `WebSocket` adds the client's handshake to that queue. Reading a socket is a direct call. The
  workflow itself is any sequence of the messages its states stand for (`dialogue`), since the
  dispatcher sees no more of it. `last` is `MsgContext::getLastStateMsg`.
* In `Aidl` the monitor of the binder object is held from the entry of `connectSdk` to its return;
  all other binder calls are atomic. `queue` is the main loop; `receiving` is the main thread inside
  `aidlReceive`, waiting for the monitor. The mutex `mWorkflowIsActive` is `workflow # Null`.
* In `Connector` each call has its own two threads (`runner`, `listener`) and channel, while
  `received`, the callback's channel, is shared by all calls, as in the code. `toSdk` and `fromSdk`
  are the binder and the main loop together; module `Aidl` shows what they keep.
* In `RemoteService` requests are numbered; `from` remembers who sent which. `posted` is what the
  ReaderManager thread has reported and the main thread has not handled. `Crashed` stands for the
  null message behind the failing assertion of the two Response states.
* In `RemoteClient` the three threads have a queue each. `conn` are the web sockets, `listed` is
  `mDispatcherList` for the phone's id, `Null` the null pointer that `operator[]` inserts. A status
  of the phone then dereferences it: `handleIFDStatusCrashes` ends the program, and the model goes on
  with the next start.
* In `FileUpdates` a version stands for a time stamp; `slots` counts how often `AppUpdater` is
  connected to the downloader. A reply is `whole` or has broken off after its header; the Downloader
  looks at the status only, so either is a success.

### Abstractions

* Cryptography: PACE succeeds exactly with the right secret; otherwise, or when the exchange
  breaks, it ends with one of the codes that `PaceHandler`, `KeyAgreement` and
  `EstablishPaceChannelOutput` produce there.
* One session per reader: whose worker opened it is not kept.
* The four-second timer of `handleWrongNpaPosition` may have fired or not, whenever it runs.
* `UiAssumption` and `RedirectAssumption` name the states that every user interface approves as soon
  as they are entered; they are assumptions about code that the model does not contain in detail
  (`ui/qml`, `ui/widget`, `ui/json`), and the proofs rest on them.
* The EAC and transmit states of `TrustedChannel` go on only with a connection; without one the code
  uses a null pointer. `EacInsideChannel` says that this does not happen.
* Cards with an insufficient APDU length, texts, progress messages, transport PINs, settings and
  logging are left out.
* A new PIN that was typed is always the value `WrongPassword`; only its presence matters.
* Nested event loops of modal dialogs (widget interface) are not modelled; events are delivered
  one at a time.
* `Q_ASSERT` is not a guard: properties state what the assertions claim. A `Q_UNREACHABLE` stops
  the machine in `"Unreachable"`.
* The eID server may send any message that the state it answers accepts, or fail. With
  `ServerHeedsErrors` one that has been told of an error only ends the dialogue; this is an
  assumption about the server, not about the code.
* Checks of certificates and of the token pass or fail freely. In developer mode a token with a bad
  refresh address is accepted; that mode is not modelled.
* Web socket: no client is read between `run()` and the queued start of the machine, for posted
  events are delivered before sockets are read again. Shutdown is left to the runs of `AppController`.
* Remote service: PIN-pad mode and one reader. The states that the interface approves at once are
  passed in the action that enters them. Error messages without a type are left out of `RemoteCard`.
* Remote client: one phone; `RefusalLimit` is 2 instead of 7. The model begins when `startScan(true)`
  has just been called. A check that would need more than `MaxAttempts` connections at a time is
  left out.
* Files: one list and its pictures; the start's clean-up of old copies is left out.
* Connector: the session is taken to be valid, calls come one after the other (`workflowLock`),
  `stop()` and the check of the PIN's format are left out, a card begins with three tries.
  `ListenerTakes` is one action for `take` and `send`, since `send` only posts. Messages that arrive
  between two calls are forgotten, because the next call drains the channel before it starts.

## 3. Runs

| run | instance | what it shows |
|---|---|---|
| `change_pin_one_card` | one card, a basic and a comfort reader, fairness | `TypeOK`; `ConnectionWhereAsserted`: the assertions of `StateDestroyPace` and `StateChangePin` hold, whatever breaks off, is cancelled or killed; `PasswordFitsCounter`, with cards that are unblocked; `SuccessMeansChanged`; `FailedEnds`, `KilledEnds` |
| `change_pin_two_cards` | two cards (symmetric) whose counters may be unreadable and whose PUK is used up, one reader, early kills | unless the counter of the connection is in doubt: `CounterKnown`: the assertions of `StateVerifyRetryCounter` and `StatePreparePace` hold; `PasswordFitsCounter`: PIN, CAN and PUK are sent only to a card in the matching condition, although cards are swapped; `OneTryPerTypedPin`: however often an answer is lost, a typed PIN lowers a card's counter at most once between two resets. In any case: `PasswordsClearedAtEnd`; `ImplementsWorkflow`: refinement of `Workflow!Spec` |
| `app` | four requests of three kinds, one quit or restart, fairness | `NoRequestLost`, `EndsFindTheirWorkflow`, `WaitingIsNext`, `ShutdownQuitsUnlessDeaf` |
| `auth` | a normal and a deactivated card, one basic reader, either controller | `NoPasswordInDialogue`; `EacInsideChannel`: the card is sent EAC and transmit commands only inside the channel that PACE has opened; `AnswerIsTrue`, `BrowserAnswered`: the browser is answered on every path, and success only when the server has confirmed it; `HistoryIsTrue`; `ImplementsWorkflow` |
| `web_socket` | two clients, four requests of clients and a browser | `CommandsMeetTheirState`, `ClientHearsItsOwn`, `DominationMatchesConnection`, `AbandonedEnds` |
| `aidl` | two applications, three sessions, two commands | `TypeOK`: the JSON interface is not mute for longer than a workflow; `ResetSparesTheValidSession`; `EveryCallReturns`: monitor and mutex do not deadlock |
| `connector` | two calls, two removals or interruptions | `OneTryPerRun`, `RemovalEndsRun` |
| `remote_service` | two clients after each other, four requests, one move of the card | `DialogHasItsClient`, `PasswordStaysWithItsClient`, `AnswersToRequester`, `AnswerFits` |
| `remote_client` | two connections at a time, one interference | `ReaderIsWatched`, `PairingAnswered`, `Reconnects` |
| `file_updates` | one picture, two versions, two updates and checks, two faults (broken replies, failed writes, kills) | `MarkIsServed`: a mark goes only with a whole copy as new as it, or in one of three cases named there; `PicturesSettle`, `CheckIsAnswered` |
| `find_result_kept` | one call without faults | fails: see below |
| `find_password_to_pin_pad` | one card, a basic and a comfort reader, three commands | fails: see below |

Every property of the passing runs has a mutant in `PROJECT.json`: a plausible bug
(`<definition>_<Bug>`) that breaks it under the same configuration.

### Disagreements found

`find_result_kept` stops at a counterexample to `ResultIsReturned`. After a successful workflow
`Connector.runWorkflow` sets `workflowEnded` and joins the listener thread, which has looked at the
flag before and waits for a command that nobody sends any more. `runWorkflow` says that it returns
the result, and the example's README that the data are shown; they are not until the caller is
interrupted.

`find_password_to_pin_pad` stops at a counterexample to `PasswordGoesToItsReader`. Every
`CreateCardConnectionCommand` under way listens to `fireCardConnectionWorkerCreated`, a signal that
does not say for which reader the worker is (`CreateCardConnectionCommand.cpp:42`), and takes the
first. The card is on the basic reader, the PIN has been typed, the connection is lost; a command for
the comfort reader is left over from an earlier attempt, and its worker answers the command
for the basic reader. `StateVerifyRetryCounter` compares the names of the readers that were chosen,
which are the same, and keeps the PIN; it is handed to the comfort reader, of which
`CardConnectionWorker.cpp:208` asserts `pPasswordValue.isNull()`.

Other observations were made while modelling. No run states them; where one would refute a
property of a passing run, the property names the cause and leaves it out (or, for the server of
`auth`, a constant does), and the hazard in `PROJECT.json` says so.

* A counter that cannot be read when the card is inserted stays unknown: the failure is ignored
  (`CardInfo.cpp:138`), and the later successful reading is signalled only if a counter had been
  known (`Reader.cpp:81`). The assertions of `StateVerifyRetryCounter.cpp:43` and
  `StatePreparePace.cpp:43` then meet -1; a build without assertions takes -1 for a counter that
  allows the PIN, whether the card is fresh, suspended or blocked; and a counter that is -1 both
  before and after a lost answer lets it send the typed PIN a second time. A deactivated card has
  the same effect: `StateConnectCard` keeps the connection to it (`StateConnectCard.cpp:60`), the
  card is removed, the next connect fails, and the workflow goes on with the dead connection.
  `CounterKnown`, `PasswordFitsCounter` and `OneTryPerTypedPin` leave out a connection that is in
  doubt for one of these reasons (`~ctx.doubted`) and nothing else. The readings that fail are in
  the run `change_pin_two_cards`: without the exception it refutes the first after 11 states, the
  second after 15, and the third, with `spent` counting the tries in doubt too, after 30.
* A comfort reader that reports a new PIN of the wrong length sends the workflow back to
  `StatePreparePace` with the PIN channel established, into `Q_UNREACHABLE`.
* A kill while the new PIN is awaited goes on to set an empty PIN (`StateEnterNewPacePin` does not
  look at the status).
* A quit between `run()` and the start of the machine leaves the first state unrun and the
  application up: `EarlyKill` is FALSE where ends are promised, and `ShutdownQuitsUnlessDeaf`
  excludes it. A PIN request already queued when the shutdown begins is stored and started.
* After a swap of cards the assertion of `UnblockPinCommand` that the card is blocked is false; a
  release build refuses with PIN_NOT_BLOCKED, and `PasswordFitsCounter` covers what reaches the card.
* `StateSendWhitelistSurvey` asserts false after a failed authentication while a survey is pending.
* A removed card, or a cancel, while the reply of the server is awaited after EAC1 ends the dialogue
  without telling the server.
* A web socket handshake that fails leaves the domination with nobody: no client and no graphical
  request is served any more. `DominationMatchesConnection` covers it as it is (the request stays).
* A second RUN_AUTH before the first has started is dropped without a message
  (`docs/sdk/commands.rst:136` promises BAD_STATE).
* `connectSdk` cannot return sooner than the five seconds if the main thread is inside `aidlReceive`
  at that moment: each waits for the other until the timeout.
* A wrong PIN ends a call of the Java library without a CANCEL; ENTER_CAN and ENTER_PUK are not
  answered.
* In the remote service a client that goes while PACE is under way, followed by another, leaves
  no message to answer (`Q_ASSERT` of `StateEstablishPaceChannelResponse`). The password view stays
  when the connection closes: its handler reads a parameter the signal does not have.
* Two connections to one phone, or `operator[]` on a missing id, leave an id in `mDispatcherList`
  that counts as connected for ever; `ReaderIsWatched` and `Reconnects` exclude it (`Stuck`).
  A status of the phone then dereferences a null pointer (`RemoteReaderManagerPlugIn.cpp:82`).
* A copy that could not be written whole stays the newest, and the mark is removed all the same. So
  is it when the reply breaks off, or is aborted by `NetworkReplyTimeout`, after its 200 header:
  `Downloader.cpp:135` looks at the status and not at the error, and the part that has come is
  written under the new time stamp. The server answers the next request with 304, which clears
  a new mark as well. `MarkIsServed` leaves these three cases out by name; in `PicturesSettle` such
  an answer counts, as it does in the code.

### Bounds

* `RepositionLimit` is 2 instead of 10: the limit must be reached, and one step less must be
  possible; nothing else depends on the number. In `change_pin_two_cards` and `auth` it is 1, for
  `change_pin_one_card` covers the count.
* `Unreadable` holds both cards of `change_pin_two_cards`, so that two readings in a row may fail;
  it is empty in the other runs, whose properties do not depend on the counter that is read.
* `PukUses = 1` in `change_pin_one_card`: one unblocking and one refusal (10 in a real card). It is 0
  in `change_pin_two_cards`, where the PUK is still asked for, sent and refused, for the sake of
  time; `auth` has no unblocking. The proofs hold for any.
* `MaxJobs = 2`: a connect command that nobody hears any more plus the one that is heard. A third
  adds another of the first kind; the counterexample of `find_password_to_pin_pad` needs it (3). In
  `auth` it is 1. The proofs hold for any.
* `auth` starts with one counter of the deactivated card only: no reader can see it.
* `MaxTransmits = 1`: SendTransmitResponse may get a second message of any kind but that.
* Counters run over their real range, -1 to 3. One or two cards and readers suffice: the context
  names one reader, and a second card or reader is the "other one".
* Requests: two that compete for the waiting slot, one that never waits, one of a browser.
* `web_socket`: a second client that meets what the first has left; a third meets the same.
* `aidl`: three sessions let a client that lost its session come back; two commands are an order
  of one session and a cancel or order of the next. `aidl` allows deaths at any time.
* `connector`: two calls, so that threads and workflows of the first meet the second;
  `MaxMoves = 2` counts removals and interruptions together; `Capacity` is the code's.
* `remote_service`: a request that is under way, one of the next client, and two that prepare them
  (connect, PACE). `MaxMoves = 1`: the card leaves or comes once.
* `remote_client`: two connections are what it takes to replace one; a single interference by the
  user, a workflow or another device.
* `file_updates`: two versions of each file, two starts of the update and two checks that overlap;
  `MaxFaults = 2`: a broken reply or write, and a second one or a kill on top of it.

Deadlock is checked where the system goes on for ever or `Terminated` lets finished systems
stutter; the bounded environments of `web_socket`, `aidl`, `connector`, `remote_service`,
`remote_client` and `file_updates` really stop when nobody connects, calls or asks any more.

### Fairness

`FairSpec` of `ChangePinController` assumes that the ReaderManager thread executes commands and
that the main loop delivers results and the UI approves the states in which it asks the user
nothing. In the states that ask (`AsksUser`) a step is assumed only after a kill, which approves
by itself. Nothing is assumed of the user, the cards or the timer of the repositioning hint.
`FairSpec` of `AppController` assumes that posted events are delivered, that the shutdown timer
fires (three seconds at most), and that a killed workflow reaches its final state, which
`change_pin_one_card` shows of the PIN change (`KilledEnds`). A user need not dismiss a result.
`WebSocket` assumes the main loop, that a cancelled workflow ends, and that an approved final state
runs. `Aidl` assumes the main loop, the five-second timeout and that a cancelled workflow ends (the
JSON interface approves its states). `Connector` (`ConnectorFairSpec`) assumes the threads and the SDK, not the user.
`FileUpdates` assumes that every request is answered or fails (`NetworkReplyTimeout` aborts it) and
that a picture that is marked is looked at again and again, and that a server that is asked for it
again and again does not always fail. `RemoteClient` assumes the three loops,
the timers of one and five seconds, that a phone frees itself of dead clients (the missing pong of
`WebSocketChannel`), and, strongly, that a phone that announces itself again and again is seen and
one that is tried again and again is reached; without the last two a network that always loses the
same datagram would be a counterexample. `AuthController` is checked for safety and refinement only.

## 4. Proofs

Every safety invariant, action property and refinement that a passing run checks is also a theorem,
for every value of the constants that the named assumptions of its module allow. Only one theorem
has a hypothesis besides: `InsideChannel` of `AuthProofs` holds if `ServerHeedsErrors`. Liveness is
left to TLC (end of this section).

`AppControllerProofs` proves, for every finite or infinite set of requests, every assignment of
actions and every `MaxQuits` (from `ConstantsAssumption` only):

| theorem | statement |
|---|---|
| `TypeCorrect` | `Spec => []TypeOK` |
| `RequestsKept` | `Spec => []NoRequestLost` |
| `EndsMatched` | `Spec => []EndsFindTheirWorkflow` |
| `WaitingServed` | `Spec => []WaitingIsNext` |

The inductive invariant is
`IInv == TypeOK /\ LoopEnds /\ NoRequestLost /\ EndsFindTheirWorkflow /\ WaitingIsNext`.
None of the last three is inductive alone: that `onWorkflowFinished` serves the right request
needs that "complete" is queued only while its workflow is the current one; that this is queued
once needs that a workflow starts only when no event of an earlier one is left, which in turn
follows from `current = None`; and whether an approved result appends a second "finished" depends
on `stage`. `LoopEnds` says that the queue is empty once the application has quit, so the parts
that hold only before it are not lost. The lemmas at the head of the module say what `Append` and
`Tail` do to the queue in these terms (which requests are queued, whether one is queued twice,
which workflow events remain); each action is then a step with one sub-step per conjunct it can
disturb.

`AndroidProofs` proves, of the service for every set of clients and every number of sessions and
commands (from `AidlAssumption` only), and of the Java library for every number of calls and moves
and every capacity (from `ConnectorAssumption`):

| theorem | statement |
|---|---|
| `Invariant` | `Spec => []IInv` |
| `TypeCorrect` | `Spec => []TypeOK` |
| `SessionNeverNull` | `Spec => []SessionIsNeverNull` |
| `ResetSpares` | `Spec => ResetSparesTheValidSession` |
| `OneTry` | `ConnectorSpec => []OneTryPerRun` |

The service's invariant is `IInv == TypeOK /\ SessionIsNeverNull /\ Handed /\ QueueOK /\ ResetsAreOld`.
`ResetsAreOld` says that every reset in the queue is older than every order of the session that is
valid now, and that none is left once its workflow runs. It needs that events carry only sessions
that were handed out (`QueueOK`), so that a new session is in none of them, and that a session is
never older than the last one handed out (`Handed`). Types and `SessionIsNeverNull` depend on each
other: a command carries `session`, and would start a workflow of nobody if that were `Null`.

The library's invariant, `ConnectorInv`, says for each call that its PIN is in one place (`OnePlace`):
not answered yet (`NotEntered`), in the call's channel, posted to the SDK, or judged (`tries`).

`RemoteServiceProofs` proves, of the phone for every number of clients, requests and card moves (from
`RemoteAssumption` only), and of the other device for every number of connection attempts and
interferences (from `RemoteClientAssumption` only):

| theorem | statement |
|---|---|
| `Dialogues` | `Spec => []DialogHasItsClient` |
| `PasswordsKept` | `Spec => []PasswordStaysWithItsClient` |
| `AnswersReturn` | `Spec => []AnswersToRequester` |
| `AnswersMatch` | `Spec => AnswerFits` |
| `ReadersWatched` | `ClientSpec => []ReaderIsWatched` |

The invariant follows a request: what is on the web socket is of the client that is connected
(`Network`), and so are the messages in the context (`ContextOfClient`); a workflow that will ask or
answer has its message, which a reset context would not have (`HasMessage`); what was typed carries
the present client (`TypedForClient`); and before the first client, which alone does not reset the
context, there is nothing in it and no view to type into (`NothingBefore`). The first two make the
lemmas `Stays` and `Moves`, to which every step that leaves the connection as it is comes down; what
changes with a connection is in `ClientComes`, `ClientGoes` and `UserCancels`.

`AnswersMatch` needs a second invariant, `Awaited`. Messages carry no number that `RemoteCard` could
compare, so an answer is the right one only because no other of its kind can be under way. A request
passes through four places: the web socket to the phone, the report of the ReaderManager thread, the
message in the workflow's context, and the web socket back. `OnlyTheAwaited` says that of all
requests whose kind has not been given up only the awaited one is in any of these, and `InOnePlace`
that it is in one of them and once. `Holds` and `Once` say of a queue whether it has an element of
a set and whether it has no more than one; `Elsewhere` is what the operations on queues do to that.

`ReadersWatched` is about the client, whose invariant is `ClientInv`. A dispatcher that is listed is
one the plug-in hears (`ListedIsHeard`), which hangs on what the three queues may hold (`QueuesFit`):
a connection is told of only once it is made, and an order to connect is queued once, for an attempt
that was posted. A deleted connection takes its events with it (`Without`, a recursive function);
what that leaves in the queue is `Dropping`, which follows from `Counting`, induction stated for a
set of numbers and derived from `WFMin`.

`FileUpdatesProofs` proves, for every number of pictures, versions, updates, checks and faults (from
`FileUpdatesAssumption` only):

| theorem | statement |
|---|---|
| `Invariant` | `Spec => []IInv` |
| `MarkSpent` | `Spec => MarkIsServed` |

The danger is an answer older than the mark: the request says how old the cached copy was when it was
sent, and the list that marks the picture may come in between. `IInv` says that no request asks for
more than the cache holds (`Asks`), although copies are added while it waits, and that the reply
under way is no older than the mark of its file and than the copies in the cache (`ReplyFits`). The
former holds because the Downloader has one reply at a time and the list that sets marks is that
reply: every later one is formed when the marks are set, and no mark exceeds what is published. The
latter makes the copy that is written the newest one, so it is whole if the reply and the write
were. `Greatest`, `Newer` and `Grows` say what the newest of a file's copies is and what becomes of
it when a copy is written.

`WebSocketProofs` proves, for every set of clients and requests (from `ConstantsAssumption` and
`ClientAssumption`: each request is made by a client or by none):

| theorem | statement |
|---|---|
| `Invariant` | `Spec => []IInv` |
| `CommandsMeet` | `Spec => []CommandsMeetTheirState` |
| `HearsItsOwn` | `Spec => []ClientHearsItsOwn` |
| `DominationMatches` | `Spec => []DominationMatchesConnection` |

`IInv` adds to the types and to these properties what they hang on. A handshake in the queue belongs
to the request that has taken the domination, and there is one at most; until it is read nobody is
connected and no workflow is followed (`HandshakeIsAwaited`). What the dispatcher believes to be the
last message is what the workflow it follows has said last (`LastIsTold`): so an accepted command
finds the question it answers.

### The card workflows

`CompositeStatePaceProofs` has lemmas only. `PaceInv` is the invariant of everything that the PIN
change and the authentication share: the PACE states, the command queue, readers and cards. Its parts
are

* `PaceTypeOK`, the types;
* `JobsFit`: a command that is listened to is one the present state waits for, for the reader of the
  connection, and only the oldest of the queue, or a connect command, can have a result yet. It rests
  on `clearConnections` in `onExit` and makes a `Heard` answer usable at all;
* `ResultsTrue`: a successful answer still says the truth about its reader when it is delivered,
  because a card that goes in between makes its session `"none"` and is signalled before;
* `ContextFits`, what the context holds where a state is entered: a connection where one is asserted
  (`ConnectionFits`), an error in those that are reached by one (`ErrorFits`), and, unless the counter
  is in doubt, reader information that matches (`InfoFits`) and a card where the counter is used
  (`CardFits`);
* `WaitFits`, which states may be left waiting at all.

None of these is inductive without the others: the connection of `ContextFits` survives a removal
only because `JobsFit` says who is still listening, and that a new connection has a card is the truth
of an answer. `GoKeeps`, `ReturnKeeps` and `CallKeeps` say that the ways in which any state moves, returns
to a state or asks for a command keep it; each action of the composite, each command in the
ReaderManager thread and each coming or going of a card is then a lemma of its own. A second part
says what the controllers need to know of a step that stays in the composite or leaves it (`Moves`,
`Leaves`: on the way out either an error or a channel that stands), and what no step does to the
queue and to the sessions of the readers (`QueueMoves`, `SessionsCalm`).
Both controllers instantiate the module as `P`, with the two
exits of the composite as parameters; the lemmas named `Same...` say that what the controller calls
`Go`, `Call` or `Return` is what `P` calls so.

`ChangePinProofs` proves, for every finite or infinite set of cards and readers and all limits (from
`ConstantsAssumption` and `UiAssumption`):

| theorem | statement |
|---|---|
| `Invariant` | `Spec => []ChangePinInv` |
| `TypeCorrect` | `Spec => []TypeOK` |
| `ConnectionStands` | `Spec => []ConnectionWhereAsserted` |
| `PasswordsCleared` | `Spec => []PasswordsClearedAtEnd` |
| `SuccessIsTrue` | `Spec => []SuccessMeansChanged` |
| `CounterIsKnown` | `Spec => []CounterKnown` |
| `PasswordFits` | `Spec => []PasswordFitsCounter` |
| `OneTry` | `Spec => OneTryPerTypedPin` |
| `Implements` | `Spec => ImplementsWorkflow` |

`ChangePinInv == P!PaceInv /\ OuterFits /\ ChangeFits /\ PasswordsClearedAtEnd`. `OuterFits` is about
the states of the controller; `ChangeFits` says that a workflow without an error that has passed
StateChangePin has changed a PIN, and, since that is decided by an answer, that the SetEidPin command
listened to had a PIN to set. `CounterIsKnown`, `PasswordFits` and `OneTry` hold with deactivated and
unreadable cards too; what those do to a connection is left out by the properties (section 3).

`PasswordFits` rests on `PinInv`, which adds `P!PasswordInv`, proved in `CompositeStatePaceProofs` with
the composite. The password is chosen by the counter of the connection, and sent several states
later; a card may have gone and come in between, or have counted a try whose answer was lost. So
`EntryFits` follows the real counter of the card through the states: where the counter is looked
at, the reader's is the card's; a card with one try left is opened with the CAN where the context
says so; and the password in the context was chosen for the card that is there. The queue matters as
much. In a calm state (`IsCalm`), one where the channel stands or is made, there is no command but
the state's own (`WaitingFits`), so what an earlier state asked for cannot spoil the choice; no
password waits behind another command (`PasswordsFirst`); and `CommandFits` is what the oldest
command will find and what its answer tells of the counter. All of this is said of a connection that
is not in doubt, and a reading that ends a doubt does not: only a new connection does.

`OneTry` rests on `TryFits == PinInv /\ P!TryInv`. `spent` are the cards that the typed PIN has cost a
try, over a connection not in doubt and since their counter was last reset. `TypedFits` says that
`expectedCounter` is the counter the PIN was typed for and that every card in `spent` has fewer tries
left. It survives because only the right PIN or the PUK gives tries back, and either takes the card
out of `spent` (`EstablishPinTries`, `UnblockTries`); only the PACE command with the PIN lowers a
counter (`CardsWritten`, `TriesLost`). Between the comparison in StateVerifyRetryCounter, which forgets
the PIN when the counter differs, and the command, the expected counter is that of the card in the
reader (`AskedFits`, `WaitedFits`); hence the PIN on its way has not cost its card a try
(`SpentFits`). That the card cannot be confused with another one is `OneReader`: a card is in one
reader at a time.

The refinement is `LifecycleStep`: every step starts the workflow, keeps
it running (`KeepsRunning`), changes nothing that `Workflow` can see (`StaysThere`), or finishes it
(`Finishes`).

`AuthProofs` proves, with `ServerAssumption`, `AuthAssumption` and `RedirectAssumption` besides:

| theorem | statement |
|---|---|
| `Invariant` | `Spec => []AuthInv` |
| `TypeCorrect` | `Spec => []TypeOK` |
| `NoPasswords` | `Spec => []NoPasswordInDialogue` |
| `BrowserIsAnswered` | `Spec => []BrowserAnswered` |
| `HistoryTrue` | `Spec => []HistoryIsTrue` |
| `AnswersTrue` | `Spec => AnswerIsTrue` |
| `Implements` | `Spec => ImplementsWorkflow` |
| `InsideChannel` | `Spec => []EacInsideChannel`, if `ServerHeedsErrors` |

`AuthInv == P!PaceInv /\ OuterFits /\ SecretsFit /\ StoryFits`. `SecretsFit` says that nothing is
connected before the card is needed and that passwords are kept in the composite only. `StoryFits`
carries the story told to the browser and to the history through the states: `Achieved` is what a
workflow that has met no error must have achieved by now (a valid token, the consent once rights
were asked for, the confirmation of the server, a refresh address), so the states that look at
the status alone decide rightly. `AnswerIsTrue` is about steps: no step of the trusted channel
answers the browser (`ChannelIsSilent`), and of the others only StateRedirectBrowser does
(`OnlyRedirectAnswers`).

`EacInsideChannel` needs a second invariant, `ChannelFits`. The states that work on the card are
entered only while the channel of PACE stands (`Established`), and the answer to EAC1 is sent either
then or with the error that the server is told of (`Told`), after which a server that heeds it
orders nothing more of the card. A removal tears the channel down and leaves those states in the same
step. A queued command needs its own reader in the channel (`EacJobFits`), also when nobody listens
any more; nothing behind it can open or close a channel, for only commands of its kind, and the
final reading of the counter, are queued together with it. Without `ServerHeedsErrors` the property
is false.

The parts of the invariants were first checked with TLC as invariants of the instances of section 3
(`ChannelFits` on that of `auth`, `PasswordInv` and `TryInv` on both of the PIN change, the others on
their module's own).

The provers cannot instantiate the library's induction theorems, which take an operator, so what a
recursive definition computes is proved only where a set will do: `Counting` (a set of numbers with 0
and each successor is all of them) and `Greatest` (a bounded set has a maximum) come from the
least-element fact about well-founded relations. No module here needs a RECURSIVE operator.

Only model-checked are the liveness properties, which TLAPS cannot prove under fairness:
`FailedEnds`, `KilledEnds`, `ShutdownQuitsUnlessDeaf`, `AbandonedEnds`, `EveryCallReturns`,
`RemovalEndsRun`, `PairingAnswered`, `Reconnects`, `PicturesSettle` and `CheckIsAnswered`. The two
properties of the failing runs are refuted, so there is nothing to prove of them.

## 5. Plan

1. Done: PACE states, PIN change, authentication, abstract workflow, application controller, SDK
   interface on the desktop and on Android, remote service and client, files and updates.
2. Readers: the ReaderManager thread with its plug-ins, workers and their ownership of a session.
3. Pure algorithms against reference definitions: length encoding of command APDUs, the CV
   certificate chain builder, the rights mask of a CHAT, the secure messaging counter.
4. Done: a theorem for every invariant, action property and refinement of the passing runs.

## 6. Not modelled

`PROJECT.json` lists every component with its status. The map covers about a tenth of the
implementation; most of the rest is presentation. Left out for good: presentation code of
both graphical interfaces, PAOS and ASN.1 parsing, message formats, TLS configuration, NFC and iOS
glue, the Bluetooth terminal profile, the tables of the driver detection, settings, PDF export,
start-up and logging, and the vendored HTTP parser; they are input and output, generated code or
tables without a protocol.
