---------------------------- MODULE CardWorkflow ----------------------------
(***************************************************************************)
(* What every card workflow of the core works on: the WorkflowContext, the *)
(* AbstractState protocol that all its states follow, the card connection  *)
(* and the commands the ReaderManager thread executes for it, the readers  *)
(* and the cards.  A controller's module adds the states and transitions.  *)
(*                                                                         *)
(* A state of the machine is "entered" until the UI (or a kill) approves   *)
(* it; the approval calls its run() at once, so approval and run() are one *)
(* action.  It is "waiting" when run() has returned without firing a       *)
(* transition: a command or a signal of the reader will move it.  Before   *)
(* its queued start the machine is in "Initial".                           *)
(***************************************************************************)
EXTENDS CardReturnCode, Integers, Sequences, FiniteSets

CONSTANTS
  Cards, Readers,        \* the identity cards and the reader names
  ComfortReaders,        \* the readers with a PIN pad of their own
  Deactivated,           \* the cards whose eID function is switched off
  Unreadable,            \* the cards whose counter a reader may fail to read
  NoCard, NoReader, NoPassword, WrongPassword,
  UiHolds,               \* states a UI may leave unapproved for a while
  EarlyKill,             \* killWorkflow() may come before the queued start
  RepositionLimit,       \* 10 in the code: vanished cards before the user is told
  PukUses,               \* how often a card accepts its PUK (initially)
  MaxJobs                \* bound: commands a restarted StateConnectCard piles up

ASSUME ConstantsAssumption ==
  /\ ComfortReaders \subseteq Readers /\ Deactivated \subseteq Cards
  /\ Unreadable \subseteq Cards
  /\ NoCard \notin Cards /\ NoReader \notin Readers
  /\ NoPassword \notin Cards /\ WrongPassword \notin Cards
  /\ NoPassword # WrongPassword
  /\ EarlyKill \in BOOLEAN
  /\ RepositionLimit \in Nat \ {0} /\ PukUses \in Nat /\ MaxJobs \in Nat \ {0}

(* Every user interface approves these states as soon as they are entered  *)
(* (the modal messages of the widgets are left out).                       *)
ASSUME UiAssumption ==
  UiHolds \cap {"MaintainCardConnection", "VerifyRetryCounter", "PreparePace",
                "ClearPacePasswords", "ClearPacePasswordsOnError",
                "ClearPacePasswordsBeforeDestroy"} = {}

VARIABLES
  state,      \* the current state of the machine (composite states are flat)
  phase,      \* "entered" or "waiting"
  cancelDue,  \* killWorkflow() has approved the state and still has to cancel
  ctx,        \* the WorkflowContext / ChangePinContext
  jobs,       \* card commands handed to the ReaderManager thread, oldest first
  reader,     \* Reader: the card in it, its ReaderInfo, PcscCard::isConnected
  card,       \* the cards' own counters
  spent       \* history: cards the typed PIN has cost a try, in no doubt,
              \* since their counter was last reset

vars == <<state, phase, cancelDue, ctx, jobs, reader, card, spent>>

(* A typed secret is the card whose secret it is, or a wrong one.          *)
Passwords == Cards \cup {NoPassword, WrongPassword}
PasswordKinds == {"pin", "can", "puk", "newPin"}
PaceTypes == {"UNKNOWN", "PACE_PIN", "PACE_CAN", "PACE_PUK"}
KindOf == [PACE_PIN |-> "pin", PACE_CAN |-> "can", PACE_PUK |-> "puk"]

Counters == -1 .. 3

NoConnection == [reader |-> NoReader, counter |-> -1,
                 paceCan |-> FALSE, pacePin |-> FALSE]
Connections == [reader : Readers \cup {NoReader}, counter : Counters,
                paceCan : BOOLEAN, pacePin : BOOLEAN]

(* doubted is not in the code: it records that a reading left the counter  *)
(* of the connection's card open (Doubtful).                               *)
Contexts ==
  [pw : [PasswordKinds -> Passwords], paceType : PaceTypes,
   readerName : Readers \cup {NoReader},
   expectedReader : Readers \cup {NoReader}, expectedCounter : Counters,
   conn : Connections, vanished : 0 .. RepositionLimit,
   last : Codes, status : Statuses, killed : BOOLEAN, doubted : BOOLEAN]

Operations == {"CreateCardConnection", "UpdateRetryCounter",
               "EstablishPaceChannel", "UnblockPin", "SetEidPin",
               "DestroyPaceChannel", "DidAuthenticateEAC1",
               "DidAuthenticateEAC2", "Transmit"}

(* PcscCard's connection, and the channel that stands on it.               *)
Sessions == {"closed", "open", "can", "pin"}

Jobs == [op : Operations, reader : Readers, type : PaceTypes,
         pw : Passwords, heard : BOOLEAN, result : Codes \cup {"PENDING"}]

IsBasic(r) == r \notin ComfortReaders

(* mRetryCounter as MSE:Set AT reports it (ResponseApdu::getRetryCounter). *)
CounterOf(c) == IF c \in Deactivated THEN 0 ELSE card[c].counter

(* What reading the counter may find; -1 stands for a failed reading.      *)
Readings(c) == {CounterOf(c)} \cup (IF c \in Unreadable THEN {-1} ELSE {})

(* CardInfo::isPinDeactivated: only a reading shows it.                    *)
IsPinDeactivated(r) == reader[r].card \in Deactivated /\ reader[r].counter # -1

(* A reading n of the card c that does not tell the counter of its PIN.    *)
Doubtful(c, n) == c \in Deactivated \/ (c # NoCard /\ n = -1)

(***************************************************************************)
(* WorkflowContext                                                         *)
(***************************************************************************)
InitialContext ==
  [pw |-> [k \in PasswordKinds |-> NoPassword], paceType |-> "UNKNOWN",
   readerName |-> NoReader, expectedReader |-> NoReader,
   expectedCounter |-> -1, conn |-> NoConnection, vanished |-> 0,
   last |-> "OK", status |-> "No_Error", killed |-> FALSE, doubted |-> FALSE]

HasError(c) == c.status # "No_Error"
HasConnection(c) == c.conn # NoConnection

(* AbstractState::updateStatus: the first error wins.                      *)
updateStatus(c, s) ==
  IF s # "No_Error" /\ c.status = "No_Error"
    THEN [c EXCEPT !.status = s] ELSE c

(* WorkflowContext and ChangePinContext::resetPacePasswords.               *)
resetPacePasswords_KeepsNewPin(c) ==
  [c EXCEPT !.pw.pin = NoPassword, !.pw.can = NoPassword, !.pw.puk = NoPassword]

resetPacePasswords(c) ==
  [c EXCEPT !.pw = [k \in PasswordKinds |-> NoPassword]]

setNpaPositionVerified(c) == [c EXCEPT !.vanished = 0]

(* WorkflowContext::handleWrongNpaPosition without its timer.              *)
handleWrongNpaPosition(c) ==
  [c EXCEPT !.vanished = @ + 1, !.conn = NoConnection]

(* isNpaRepositioningRequired: the count, or the timer that a second       *)
(* vanishing in a row has started (any outcome of the four seconds).       *)
isNpaRepositioningRequired_OneTooMany(c) ==
  IF c.vanished > RepositionLimit THEN {TRUE}
  ELSE IF c.vanished > 1 THEN {TRUE, FALSE} ELSE {FALSE}

isNpaRepositioningRequired(c) ==
  IF c.vanished >= RepositionLimit THEN {TRUE}
  ELSE IF c.vanished > 1 THEN {TRUE, FALSE} ELSE {FALSE}

(***************************************************************************)
(* AbstractState: leaving a state disconnects its slots, so a result that  *)
(* arrives later is not heard by anyone.                                   *)
(***************************************************************************)
Unheard(js) == [i \in DOMAIN js |-> [js[i] EXCEPT !.heard = FALSE]]

(* The connection is shared with the commands still queued for it; the     *)
(* card is disconnected when the last of them is gone                      *)
(* (CardConnectionWorker's destructor).                                    *)
Holds(job, r) ==
  job.reader = r /\ (job.op = "CreateCardConnection" => job.result = "OK")

SessionsAfter(c, js) ==
  [r \in Readers |->
     IF c.conn.reader = r \/ \E i \in DOMAIN js : Holds(js[i], r)
       THEN reader[r] ELSE [reader[r] EXCEPT !.session = "closed"]]

(* The main thread's part of a step: the context becomes c, the commands   *)
(* js are left.                                                            *)
Main(c, js) == /\ ctx' = c
               /\ jobs' = js
               /\ reader' = SessionsAfter(c, js)
               /\ UNCHANGED <<card, spent>>

Enter(s) == state' = s /\ phase' = "entered"

(* QStateMachine::_q_start: the first state is entered.  The approval of a *)
(* workflow killed before is not repeated, so that state never runs.       *)
StartMachine(first) ==
  /\ state = "Initial"
  /\ state' = first
  /\ phase' = IF ctx.killed THEN "waiting" ELSE "entered"
  /\ UNCHANGED <<cancelDue, ctx, jobs, reader, card, spent>>

(* run() of the current state fires the transition to s.                   *)
Run(s) == state = s /\ phase = "entered"
Go(s, c) == Enter(s) /\ Main(c, Unheard(jobs)) /\ UNCHANGED cancelDue

(* run() hands a command to the ReaderManager thread and returns.          *)
Call(op, r, type, pw) ==
  /\ phase' = "waiting"
  /\ Main(ctx, Append(jobs, [op |-> op, reader |-> r, type |-> type,
                             pw |-> pw, heard |-> TRUE,
                             result |-> "PENDING"]))
  /\ UNCHANGED <<state, cancelDue>>

(* A main-loop event reaches the machine only between two approvals; a     *)
(* killed workflow approves its own states (setCurrentState).              *)
Quiet ==
  /\ ~cancelDue
  /\ \/ phase = "waiting"
     \/ state = "Initial"
     \/ state \in UiHolds /\ ~ctx.killed

(* The oldest command is executed and its signal is next in the main loop. *)
Result == Head(jobs).result
Answered == jobs # <<>> /\ Result # "PENDING" /\ Quiet
Heard(s) == Answered /\ Head(jobs).heard /\ state = s

(* The callback of a state leaves it for s.                                *)
Return(s, c) == /\ Enter(s)
                /\ Main(c, Unheard(Tail(jobs)))
                /\ UNCHANGED cancelDue

(* The lambdas of CardConnection::callEstablishPaceChannelCommand, which   *)
(* run whether or not a state still listens.                               *)
PaceFlags(c, job) ==
  IF job.op # "EstablishPaceChannel" \/ c.conn.reader # job.reader THEN c
  ELSE IF job.type = "PACE_CAN"
    THEN [c EXCEPT !.conn.paceCan = (job.result = "OK")]
    ELSE [c EXCEPT !.conn.pacePin = (job.result = "OK"),
                   !.conn.paceCan = @ /\ job.result = "OK"]

(* The result of a command whose state was left meanwhile.                 *)
DropResult == /\ Answered
              /\ ~Head(jobs).heard
              /\ Main(PaceFlags(ctx, Head(jobs)), Tail(jobs))
              /\ UNCHANGED <<state, phase, cancelDue>>

(***************************************************************************)
(* Cancelling.  target is where fireAbort leads from the current state;    *)
(* FinalState has no such transition before it runs.                       *)
(***************************************************************************)
CancelledContext ==
  [updateStatus(ctx, "Workflow_Cancellation_By_User") EXCEPT
     !.last = IF state = "EstablishPaceChannel"
                THEN "CANCELLATION_BY_USER" ELSE @]

onUserCancelled(target) ==
  /\ IF target = state
       THEN Main(CancelledContext, jobs) /\ UNCHANGED <<state, phase>>
       ELSE Enter(target) /\ Main(CancelledContext, Unheard(jobs))

fireCancelWorkflow(target) ==
  Quiet /\ state \notin {"Initial", "Done"} /\ onUserCancelled(target) /\ UNCHANGED cancelDue

(* AppController::doShutdown.  The status is overwritten, the current      *)
(* state and all that follow are approved, then the state that waits is    *)
(* cancelled.  Before the machine has started nobody hears the cancel.     *)
killWorkflow_WithoutCancel ==
  /\ Quiet /\ state # "Done" /\ ~ctx.killed
  /\ state = "Initial" => EarlyKill
  /\ ctx' = [ctx EXCEPT !.killed = TRUE,
                        !.status = "Card_Cancellation_By_User"]
  /\ UNCHANGED <<state, phase, cancelDue, jobs, reader, card, spent>>

killWorkflow ==
  /\ Quiet /\ state # "Done" /\ ~ctx.killed
  /\ state = "Initial" => EarlyKill
  /\ ctx' = [ctx EXCEPT !.killed = TRUE,
                        !.status = "Card_Cancellation_By_User"]
  /\ cancelDue' = (state # "Initial")
  /\ UNCHANGED <<state, phase, jobs, reader, card, spent>>

CancelKilled(target) ==
  /\ cancelDue /\ (phase = "waiting" \/ state = "Done")
  /\ cancelDue' = FALSE
  /\ IF state = "Done" THEN UNCHANGED <<state, phase, ctx, jobs, reader, card, spent>>
                       ELSE onUserCancelled(target)
=============================================================================
