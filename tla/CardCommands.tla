---------------------------- MODULE CardCommands ----------------------------
(***************************************************************************)
(* What the ReaderManager thread does with the oldest card command, and    *)
(* what the card or the comfort reader answers.  The card judges a         *)
(* password by itself; the answer may be lost after the card has acted.    *)
(***************************************************************************)
EXTENDS CardWorkflow

Pending(op) ==
  jobs # <<>> /\ Head(jobs).op = op /\ Head(jobs).result = "PENDING"

R == Head(jobs).reader
CardIn(r) == reader[r].card
Alive(r) == CardIn(r) # NoCard /\ reader[r].session # "closed"

(* The command ends with this code; the card and its session become cd, ss.*)
Answer(code, cd, ss) ==
  /\ jobs' = [jobs EXCEPT ![1].result = code]
  /\ card' = cd
  /\ reader' = [reader EXCEPT ![R].session = ss]
  /\ UNCHANGED <<state, phase, cancelDue>>

Fail(codes) == /\ \E code \in codes : Answer(code, card, reader[R].session)
               /\ UNCHANGED <<ctx, spent>>

(* What a command reports when the exchange with the card breaks off       *)
(* (PaceHandler and KeyAgreement; EstablishPaceChannelOutput).             *)
BrokenPace(r) == IF CardIn(r) = NoCard THEN {"CARD_NOT_FOUND"}
                 ELSE IF IsBasic(r) THEN {"RETRY_ALLOWED", "PROTOCOL_ERROR"}
                 ELSE {"CARD_NOT_FOUND", "COMMAND_FAILED"}

(* The user can give up only at the PIN pad of a comfort reader.           *)
GivenUp(r) == IF IsBasic(r) THEN {}
              ELSE {"CANCELLATION_BY_USER", "INPUT_TIME_OUT"}

(* A basic reader sends the typed password; on a comfort reader the user   *)
(* types any.                                                              *)
Typed == IF IsBasic(R) THEN {Head(jobs).pw} ELSE Cards \cup {WrongPassword}

(* ReaderManagerWorker::createCardConnectionWorker, on behalf of the first *)
(* CreateCardConnectionCommand: fireCardConnectionWorkerCreated answers    *)
(* every one of them that waits, whatever reader it asked for; what those  *)
(* asked for is created later, for nobody.                                 *)
Waits(job) ==
  job.op = "CreateCardConnection" /\ job.result = "PENDING" /\ job.heard

Others == {i \in 2 .. Len(jobs) : Waits(jobs[i])}

WorkerCreated(code) ==
  \E later \in [1 .. Cardinality(Others) -> Others] :
    /\ \A i, k \in DOMAIN later : i < k => later[i] < later[k]
    /\ jobs' = [i \in DOMAIN jobs |->
                  IF i = 1 \/ i \in Others
                    THEN [jobs[i] EXCEPT !.result = code, !.reader = R]
                    ELSE jobs[i]]
                \o [i \in DOMAIN later |-> [jobs[later[i]] EXCEPT !.heard = FALSE]]

(* Reader::createCardConnectionWorker.                                     *)
CreateCardConnection ==
  /\ Pending("CreateCardConnection")
  /\ \/ /\ CardIn(R) # NoCard /\ reader[R].session = "closed"
        /\ WorkerCreated("OK")
        /\ reader' = [reader EXCEPT ![R].session = "open"]
     \/ WorkerCreated("COMMAND_FAILED") /\ UNCHANGED reader
  /\ UNCHANGED <<state, phase, cancelDue, ctx, card, spent>>

(* Reader::updateRetryCounter.  The CardConnection is told (told) only of  *)
(* a counter that was known before and has changed.                        *)
CounterRead(n, told) ==
  IF ctx.conn.reader # R THEN ctx
  ELSE [ctx EXCEPT
          !.conn.counter = IF told /\ n # reader[R].counter THEN n ELSE @,
          !.doubted = @ \/ Doubtful(CardIn(R), n)]

ReadCounter(told) ==
  /\ Alive(R)
  /\ \E n \in Readings(CardIn(R)) :
       /\ reader' = [reader EXCEPT ![R].counter = n]
       /\ ctx' = CounterRead(n, told)
  /\ jobs' = [jobs EXCEPT ![1].result = "OK"]
  /\ UNCHANGED <<state, phase, cancelDue, card, spent>>

UpdateRetryCounter_NotSignalled ==
  Pending("UpdateRetryCounter") /\ (ReadCounter(FALSE) \/ Fail({"COMMAND_FAILED"}))

UpdateRetryCounter ==
  /\ Pending("UpdateRetryCounter")
  /\ ReadCounter(reader[R].counter # -1) \/ Fail({"COMMAND_FAILED"})

(* EstablishPaceChannelCommand with the PIN.  A blocked card refuses       *)
(* MSE:Set AT, a suspended one without the CAN the rest of PACE.           *)
EstablishPacePin ==
  /\ Pending("EstablishPaceChannel") /\ Head(jobs).type = "PACE_PIN"
  /\ \/ Fail(BrokenPace(R) \cup GivenUp(R))
     \/ LET c == CardIn(R) IN
        /\ Alive(R) /\ CounterOf(c) > 0
        /\ CounterOf(c) = 1 => reader[R].session = "can"
        /\ \E p \in Typed :
             IF p = c
               THEN /\ \E code \in {"OK"} \cup BrokenPace(R) :
                         Answer(code, [card EXCEPT ![c].counter = 3], "pin")
                    /\ spent' = spent \ {c}
               ELSE /\ \E code \in {"INVALID_PIN"} \cup BrokenPace(R) :
                         Answer(code, [card EXCEPT ![c].counter = @ - 1], "open")
                    /\ spent' = IF IsBasic(R) /\ ~ctx.doubted
                                 THEN spent \cup {c} ELSE spent
        /\ UNCHANGED ctx

(* EstablishPaceChannelCommand with the CAN.                               *)
EstablishPaceCan ==
  /\ Pending("EstablishPaceChannel") /\ Head(jobs).type = "PACE_CAN"
  /\ \/ Fail(BrokenPace(R) \cup GivenUp(R))
     \/ /\ Alive(R)
        /\ \E p \in Typed :
             \E code \in BrokenPace(R)
                  \cup {IF p = CardIn(R) THEN "OK" ELSE "INVALID_CAN"} :
               Answer(code, card, IF p = CardIn(R) THEN "can" ELSE "open")
        /\ UNCHANGED <<ctx, spent>>

(* UnblockPinCommand::internalExecute: PACE with the PUK, then RESET RETRY *)
(* COUNTER, whose lost answer is a COMMAND_FAILED.                         *)
UnblockPin ==
  /\ Pending("UnblockPin")
  /\ IF CardIn(R) # NoCard /\ (reader[R].counter > 0 \/ IsPinDeactivated(R))
       THEN Fail({"PIN_NOT_BLOCKED"})
       ELSE \/ Fail(BrokenPace(R) \cup GivenUp(R))
            \/ LET c == CardIn(R) IN
               /\ Alive(R)
               /\ \E p \in Typed :
                    \/ /\ \/ p # c /\ Answer("INVALID_PUK", card, "open")
                          \/ p = c /\ Answer("COMMAND_FAILED", card, "open")
                          \/ /\ p = c /\ card[c].puk = 0
                             /\ Answer("PUK_INOPERATIVE", card, "open")
                       /\ UNCHANGED spent
                    \/ /\ p = c /\ card[c].puk > 0
                       /\ \E code \in {"OK", "COMMAND_FAILED"} :
                            Answer(code, [card EXCEPT ![c].counter = 3,
                                                      ![c].puk = @ - 1], "open")
                       /\ spent' = spent \ {c}
               /\ UNCHANGED ctx

(* CardConnectionWorker::setEidPin, and at the comfort reader what its PIN *)
(* pad dialogue reports (ResponseApdu::getCardReturnCode).  Without a new  *)
(* PIN the basic reader's RESET RETRY COUNTER leaves the PIN as it is.     *)
SetEidPin ==
  /\ Pending("SetEidPin")
  /\ \/ /\ Alive(R) /\ reader[R].session = "pin"
        /\ \E code \in {"OK", "COMMAND_FAILED"} :
             Answer(code, [card EXCEPT ![CardIn(R)].changed =
                             @ \/ ~IsBasic(R) \/ Head(jobs).pw # NoPassword],
                    reader[R].session)
        /\ UNCHANGED <<ctx, spent>>
     \/ CardIn(R) = NoCard /\ Fail({"CARD_NOT_FOUND"})
     \/ CardIn(R) # NoCard /\ Fail({"COMMAND_FAILED"})
     \/ /\ Alive(R) /\ ~IsBasic(R)
        /\ Fail(GivenUp(R) \cup {"NEW_PIN_MISMATCH", "NEW_PIN_INVALID_LENGTH",
                                 "PROTOCOL_ERROR"})

(* CardConnectionWorker::destroyPaceChannel; nobody looks at its result.   *)
DestroyPaceChannel ==
  /\ Pending("DestroyPaceChannel")
  /\ Answer("OK", card, IF reader[R].session = "closed" THEN "closed" ELSE "open")
  /\ UNCHANGED <<ctx, spent>>

(* DidAuthenticateEAC1Command, DidAuthenticateEAC2Command, TransmitCommand:*)
(* the card answers inside a channel only.  COMMAND_FAILED also stands for *)
(* the checks of the commands themselves that end with it.                 *)
AuthenticationCommand(op, refusals) ==
  /\ Pending(op)
  /\ \/ /\ Alive(R) /\ reader[R].session \in {"can", "pin"}
        /\ Fail({"OK"})
     \/ Fail({"CARD_NOT_FOUND", "COMMAND_FAILED"} \cup refusals)

ExecuteCommand ==
  \/ AuthenticationCommand("DidAuthenticateEAC1", {})
  \/ AuthenticationCommand("DidAuthenticateEAC2", {"PROTOCOL_ERROR"})
  \/ AuthenticationCommand("Transmit", {"UNEXPECTED_TRANSMIT_STATUS"})
  \/ CreateCardConnection \/ UpdateRetryCounter \/ EstablishPacePin
  \/ EstablishPaceCan \/ UnblockPin \/ SetEidPin \/ DestroyPaceChannel
=============================================================================
