------------------------------ MODULE Connector ------------------------------
(***************************************************************************)
(* The Java library of the extended SDK.  Connector.runWorkflow starts two *)
(* threads for a SelfAuthWorkflow: the runner reacts to the messages of    *)
(* the SDK, the listener carries its commands there, and the caller waits  *)
(* for the first that has something to tell.  The application calls it     *)
(* again and again, for every card held to the phone, and may interrupt it *)
(* (MainActivity.onPause).  The session with the SDK is taken to be valid; *)
(* module Aidl has its life.  The SDK is its JSON interface, module        *)
(* MessageDispatcher, cut down to the one dialogue of a self-              *)
(* authentication.                                                         *)
(***************************************************************************)
EXTENDS Naturals, Sequences

CONSTANTS
  MaxRuns,   \* bound: calls of runWorkflow
  MaxMoves,  \* bound: how often the card is taken away or a call interrupted
  Capacity   \* of the channels: 10

ASSUME ConnectorAssumption ==
  MaxRuns \in Nat /\ MaxMoves \in Nat /\ Capacity \in Nat

VARIABLES
  caller,     \* runWorkflow: idle, waiting, joining or unwinding
  run,        \* the number of the call, which its threads carry
  outcome,    \* what has been put in its channel "wait"
  ended,      \* the calls that have set workflowEnded
  runner,     \* each call's thread in SelfAuthWorkflow.run
  listener,   \* each call's thread that sends
  channel,    \* each call's commands, not sent yet
  received,   \* SdkCallback.channel, which all calls share
  toSdk,      \* commands posted to the SDK's main thread
  fromSdk,    \* its messages on their way
  engine,     \* where its workflow is
  card,       \* the reader has a card
  counter,    \* the card's tries
  tries,      \* history: the tries each call's PIN has cost
  moves       \* counted for the bound

call == <<caller, run, outcome, ended>>
threads == <<runner, listener, channel>>
sdk == <<engine, counter, tries>>
connectorVars == <<call, threads, received, toSdk, fromSdk, sdk, card, moves>>

Runs == 1..MaxRuns

(* What goes on after the last call (bound) is left out.                   *)
Goes == caller # "idle" \/ run < MaxRuns

(* Both threads have an interrupted flag; the runner has two local ones    *)
(* and the PIN, right or wrong.                                            *)
Dead == [at |-> "dead", interrupted |-> FALSE]

ConnectorInit ==
  /\ caller = "idle" /\ run = 0 /\ outcome = "none" /\ ended = {}
  /\ runner = [r \in Runs |-> Dead] /\ listener = [r \in Runs |-> Dead]
  /\ channel = [r \in Runs |-> <<>>] /\ received = <<>>
  /\ toSdk = <<>> /\ fromSdk = <<>> /\ engine = "none"
  /\ card = FALSE /\ counter = 3 /\ tries = [r \in Runs |-> 0] /\ moves = 0

(***************************************************************************)
(* Connector.runWorkflow.                                                  *)
(***************************************************************************)
(* A card the SDK knows already need not be told again.                    *)
updateNfcTag ==
  /\ card' = TRUE
  /\ \/ fromSdk' = Append(fromSdk, "card")
     \/ card /\ UNCHANGED fromSdk

runWorkflow ==
  /\ caller = "idle" /\ run < MaxRuns
  /\ caller' = "waiting" /\ run' = run + 1 /\ outcome' = "none"
  /\ received' = <<>> /\ updateNfcTag
  /\ \E right \in BOOLEAN :
       runner' = [runner EXCEPT ![run'] =
         [at |-> "take", started |-> FALSE, entered |-> FALSE,
          pin |-> IF right THEN "SET_RIGHT_PIN" ELSE "SET_WRONG_PIN",
          interrupted |-> FALSE]]
  /\ listener' = [listener EXCEPT ![run'] =
       [at |-> "check", interrupted |-> FALSE]]
  /\ UNCHANGED <<ended, channel, toSdk, sdk, moves>>

ResultTaken ==
  /\ caller = "waiting" /\ outcome = "result"
  /\ caller' = "joining" /\ ended' = ended \cup {run}
  /\ UNCHANGED <<run, outcome, threads, received, toSdk, fromSdk, sdk, card, moves>>

ExceptionTaken ==
  /\ caller = "waiting" /\ outcome = "exception"
  /\ caller' = "unwinding"
  /\ UNCHANGED <<run, outcome, ended, threads, received, toSdk, fromSdk, sdk, card,
                 moves>>

Joined ==
  /\ caller = "joining" /\ listener[run].at = "dead"
  /\ caller' = "unwinding"
  /\ UNCHANGED <<run, outcome, ended, threads, received, toSdk, fromSdk, sdk, card,
                 moves>>

(* task.cancel(true).                                                      *)
Interrupt ==
  /\ caller \in {"waiting", "joining"} /\ moves < MaxMoves
  /\ caller' = "unwinding" /\ moves' = moves + 1
  /\ UNCHANGED <<run, outcome, ended, threads, received, toSdk, fromSdk, sdk, card>>

Interrupted(thread) ==
  IF thread = Dead THEN Dead ELSE [thread EXCEPT !.interrupted = TRUE]

(* What is left in the channel is drained by the next call, so it is       *)
(* forgotten here.                                                         *)
CleanUp ==
  /\ caller = "unwinding"
  /\ caller' = "idle" /\ outcome' = "none" /\ received' = <<>>
  /\ runner' = [runner EXCEPT ![run] = Interrupted(runner[run])]
  /\ listener' = [listener EXCEPT ![run] = Interrupted(listener[run])]
  /\ UNCHANGED <<run, ended, channel, toSdk, fromSdk, sdk, card, moves>>

(***************************************************************************)
(* The listener.                                                           *)
(***************************************************************************)
Commands(r, cmds) == [i \in DOMAIN cmds |-> [cmd |-> cmds[i], of |-> r]]

ListenerChecks(r) ==
  /\ listener[r].at = "check"
  /\ IF r \in ended
       THEN /\ listener' = [listener EXCEPT ![r] = Dead]
            /\ channel' = [channel EXCEPT ![r] = <<>>]
            /\ toSdk' = toSdk \o Commands(r, channel[r])
       ELSE listener' = [listener EXCEPT ![r].at = "take"]
            /\ UNCHANGED <<channel, toSdk>>
  /\ UNCHANGED <<call, runner, received, fromSdk, sdk, card, moves>>

(* send only posts the command.                                            *)
ListenerTakes(r) ==
  /\ listener[r].at = "take"
  /\ IF listener[r].interrupted
       THEN /\ listener' = [listener EXCEPT ![r] = Dead]
            /\ channel' = [channel EXCEPT ![r] = <<>>]
            /\ UNCHANGED toSdk
       ELSE /\ channel[r] # <<>>
            /\ listener' = [listener EXCEPT ![r].at = "check"]
            /\ channel' = [channel EXCEPT ![r] = Tail(channel[r])]
            /\ toSdk' = toSdk \o Commands(r, <<Head(channel[r])>>)
  /\ UNCHANGED <<call, runner, received, fromSdk, sdk, card, moves>>

Listener(r) == Goes /\ (ListenerChecks(r) \/ ListenerTakes(r))

(***************************************************************************)
(* SelfAuthWorkflow.run.                                                   *)
(***************************************************************************)
Received(r, msgs) ==
  /\ runner[r].at = "take" /\ ~runner[r].interrupted
  /\ received # <<>> /\ Head(received) \in msgs
  /\ received' = Tail(received)

(* wait.put and wait.offer; only the first outcome of a call is looked at. *)
Ends(r, what) ==
  /\ runner' = [runner EXCEPT ![r] = Dead]
  /\ outcome' = IF r = run /\ caller = "waiting" /\ outcome = "none"
                  THEN what ELSE outcome
  /\ UNCHANGED channel

(* add throws an exception when the channel is full.                       *)
Answers(r, cmd, self) ==
  IF Len(channel[r]) = Capacity
    THEN Ends(r, "exception")
    ELSE /\ channel' = [channel EXCEPT ![r] = Append(channel[r], cmd)]
         /\ runner' = [runner EXCEPT ![r] = self]
         /\ UNCHANGED outcome

onReader_IgnoresRemoval(r) ==
  /\ Received(r, {"card", "noCard"})
  /\ IF runner[r].started \/ Head(received) = "noCard"
       THEN UNCHANGED <<channel, runner, outcome>>
       ELSE Answers(r, "RUN_SELF_AUTH", runner[r])

onReader(r) ==
  /\ Received(r, {"card", "noCard"})
  /\ Answers(r, IF runner[r].started \/ Head(received) = "noCard"
                  THEN "CANCEL" ELSE "RUN_SELF_AUTH", runner[r])

onAccessRights(r) ==
  Received(r, {"ACCESS_RIGHTS"}) /\ Answers(r, "ACCEPT", runner[r])

onInsertCard(r) ==
  Received(r, {"INSERT_CARD"}) /\ Answers(r, "CANCEL", runner[r])

onEnterPin_EveryTime(r) ==
  /\ Received(r, {"ENTER_PIN"})
  /\ Answers(r, runner[r].pin, [runner[r] EXCEPT !.entered = TRUE])

onEnterPin(r) ==
  /\ Received(r, {"ENTER_PIN"})
  /\ IF runner[r].entered
       THEN Ends(r, "exception")
       ELSE Answers(r, runner[r].pin, [runner[r] EXCEPT !.entered = TRUE])

onAuth(r) ==
  \/ /\ Received(r, {"AUTH"})
     /\ runner' = [runner EXCEPT ![r].started = TRUE]
     /\ UNCHANGED <<channel, outcome>>
  \/ Received(r, {"OK"}) /\ Ends(r, "result")
  \/ Received(r, {"ERROR", "BAD_STATE"}) /\ Ends(r, "exception")

(* The switch knows no ENTER_CAN and no ENTER_PUK.                         *)
onOther(r) ==
  Received(r, {"ENTER_CAN", "ENTER_PUK"}) /\ UNCHANGED <<channel, runner, outcome>>

(* take throws InterruptedException.                                       *)
RunnerInterrupted(r) ==
  /\ runner[r].at = "take" /\ runner[r].interrupted
  /\ Ends(r, "exception") /\ UNCHANGED received

Runner(r) ==
  /\ Goes
  /\ \/ onReader(r) \/ onAccessRights(r) \/ onInsertCard(r) \/ onEnterPin(r)
     \/ onAuth(r) \/ onOther(r) \/ RunnerInterrupted(r)
  /\ UNCHANGED <<caller, run, ended, listener, toSdk, fromSdk, sdk, card, moves>>

(***************************************************************************)
(* The SDK.                                                                *)
(***************************************************************************)
Say(msg) == fromSdk' = Append(fromSdk, msg)
Active == engine \notin {"none", "posted"}

(* A second request before the first has started is dropped in silence.    *)
Run == IF Active THEN Say("BAD_STATE") /\ UNCHANGED engine
                 ELSE engine' = "posted" /\ UNCHANGED fromSdk

Cancel == IF Active THEN engine' = "ending" /\ UNCHANGED fromSdk
                    ELSE Say("BAD_STATE") /\ UNCHANGED engine

(* handleCurrentState and accept.                                          *)
AnswerTo(question, next) ==
  IF engine = question THEN engine' = next /\ UNCHANGED <<fromSdk, counter, tries>>
                       ELSE Say("BAD_STATE") /\ UNCHANGED sdk

(* The PIN is judged if the card is still there.                           *)
SetPin(r, right) ==
  IF engine = "pin" /\ card
    THEN /\ IF right
              THEN engine' = "reading" /\ counter' = 3 /\ UNCHANGED tries
              ELSE engine' = "card" /\ counter' = counter - 1
                   /\ tries' = [tries EXCEPT ![r] = tries[r] + 1]
         /\ UNCHANGED fromSdk
    ELSE AnswerTo("pin", "card")

processCommand ==
  /\ Goes /\ toSdk # <<>> /\ toSdk' = Tail(toSdk)
  /\ LET c == Head(toSdk) IN
       \/ c.cmd = "RUN_SELF_AUTH" /\ Run /\ UNCHANGED <<counter, tries>>
       \/ c.cmd = "CANCEL" /\ Cancel /\ UNCHANGED <<counter, tries>>
       \/ c.cmd = "ACCEPT" /\ AnswerTo("rights", "card")
       \/ c.cmd = "SET_RIGHT_PIN" /\ SetPin(c.of, TRUE)
       \/ c.cmd = "SET_WRONG_PIN" /\ SetPin(c.of, FALSE)
  /\ UNCHANGED <<call, threads, received, card, moves>>

Question == CASE counter = 0 -> "ENTER_PUK"
              [] counter = 1 -> "ENTER_CAN"
              [] OTHER -> "ENTER_PIN"

(* The workflow goes from state to state; what processStateChange says.    *)
processStateChange ==
  /\ Goes
  /\ \/ engine = "posted" /\ engine' = "connecting" /\ Say("AUTH")
     \/ engine = "connecting" /\ engine' = "rights" /\ Say("ACCESS_RIGHTS")
     \/ engine = "connecting" /\ engine' = "ending" /\ UNCHANGED fromSdk
     \/ engine = "card" /\ ~card /\ engine' = "insert" /\ Say("INSERT_CARD")
     \/ /\ engine \in {"card", "insert"} /\ card /\ Say(Question)
        /\ engine' = IF Question = "ENTER_PIN" THEN "pin" ELSE "unanswered"
     \/ engine = "reading" /\ engine' = "none" /\ card /\ Say("OK")
     \/ engine = "reading" /\ engine' = "ending" /\ UNCHANGED fromSdk
     \/ engine = "ending" /\ engine' = "none" /\ Say("ERROR")
  /\ UNCHANGED <<call, threads, received, toSdk, counter, tries, card, moves>>

(* SdkCallback.receive: offer drops what does not fit.                     *)
receive ==
  /\ Goes /\ fromSdk # <<>> /\ fromSdk' = Tail(fromSdk)
  /\ received' = IF caller # "idle" /\ Len(received) < Capacity THEN Append(received, Head(fromSdk))
                                             ELSE received
  /\ UNCHANGED <<call, threads, toSdk, sdk, card, moves>>

CardRemoved ==
  /\ Goes /\ card /\ moves < MaxMoves
  /\ card' = FALSE /\ moves' = moves + 1 /\ Say("noCard")
  /\ UNCHANGED <<call, threads, received, toSdk, sdk>>

Caller == ResultTaken \/ ExceptionTaken \/ Joined \/ CleanUp
Sdk == processCommand \/ processStateChange \/ receive

ConnectorNext ==
  \/ runWorkflow \/ Interrupt \/ CardRemoved
  \/ Caller \/ Sdk
  \/ \E r \in Runs : Runner(r) \/ Listener(r)

ConnectorSpec == ConnectorInit /\ [][ConnectorNext]_connectorVars

(* The threads and the SDK run; nobody need call, interrupt or move a card.*)
ConnectorFairSpec ==
  /\ ConnectorSpec
  /\ WF_connectorVars(Caller)
  /\ WF_connectorVars(processCommand)
  /\ WF_connectorVars(processStateChange)
  /\ WF_connectorVars(receive)
  /\ \A r \in Runs : /\ WF_connectorVars(Runner(r))
                      /\ WF_connectorVars(Listener(r))

(***************************************************************************)
(* Properties.                                                             *)
(***************************************************************************)
(***************************************************************************)
(* The PIN given to one call costs the card at most one try, though the    *)
(* SDK asks again after a wrong one and workflows of earlier calls may     *)
(* still run ("safes the eID holder from a card block").                   *)
(***************************************************************************)
OneTryPerRun == \A r \in Runs : tries[r] <= 1

(***************************************************************************)
(* Taking the card away ends a call, whatever the SDK was doing, unless    *)
(* the result came first ("the eID card was removed during the workflow -> *)
(* cancel").                                                               *)
(***************************************************************************)
RemovalEndsRun ==
  (caller = "waiting" /\ ~card) ~> (caller = "idle" \/ outcome = "result")

(***************************************************************************)
(* The result of a workflow is returned to whoever called runWorkflow      *)
(* (README: "Finally, the data or an error toast is shown").               *)
(***************************************************************************)
ResultIsReturned == outcome = "result" ~> caller = "idle"
=============================================================================
