---------------------- MODULE CompositeStatePaceProofs ----------------------
(***************************************************************************)
(* What the proofs of every card workflow share: the invariant PaceInv of  *)
(* CompositeStatePace, the lemmas about the operators of CardWorkflow and  *)
(* CardCommands, and that each step of the composite, of the ReaderManager *)
(* thread and of the cards keeps PaceInv.  A controller instantiates the   *)
(* module and adds what its own states need.                               *)
(***************************************************************************)
EXTENDS CompositeStatePace, FiniteSetTheorems, TLAPS

PaceCalls ==
  {<<"ConnectCard", "CreateCardConnection">>,
   <<"UpdateRetryCounter", "UpdateRetryCounter">>,
   <<"EstablishPaceChannel", "EstablishPaceChannel">>,
   <<"EstablishPaceChannel", "UnblockPin">>,
   <<"DestroyPace", "DestroyPaceChannel">>}

(* The commands a state waits for; the states of a controller wait for     *)
(* commands of their own.                                                  *)
CallFits(s, op) ==
  IF s \in PaceStates THEN <<s, op>> \in PaceCalls
  ELSE op \notin {"CreateCardConnection", "EstablishPaceChannel", "UnblockPin"}

(* The composite is left for a state of the controller.                    *)
ExitsOutside ==
  {OnEstablished, OnAbort}
    \cap (PaceStates \cup {"Initial", "Done", "Unreachable"}) = {}

(* The states of the composite that a run() may leave waiting.             *)
PaceWaits == {"SelectReader", "ConnectCard", "UpdateRetryCounter",
              "EstablishPaceChannel", "DestroyPace"}

ReaderStates == [card : Cards \cup {NoCard}, counter : Counters,
                 session : Sessions]
CardRecords == [Cards -> [counter : 0 .. 3, puk : 0 .. PukUses, changed : BOOLEAN]]

(***************************************************************************)
(* The parts of the invariant.                                             *)
(***************************************************************************)
PaceTypeOK ==
  /\ phase \in {"entered", "waiting"} /\ cancelDue \in BOOLEAN
  /\ ctx \in Contexts
  /\ jobs \in Seq(Jobs)
  /\ reader \in [Readers -> ReaderStates]
  /\ card \in CardRecords
  /\ spent \subseteq Cards

(* The one command a state listens to is the last, is the state's own and  *)
(* works on the workflow's connection; only commands that create a         *)
(* connection are answered out of turn.                                    *)
JobFits(i) ==
  /\ jobs[i].heard =>
       /\ phase = "waiting"
       /\ CallFits(state, jobs[i].op)
       /\ i = Len(jobs) \/ state = "ConnectCard"
       /\ state # "ConnectCard" => jobs[i].reader = ctx.conn.reader
  /\ (i > 1 /\ jobs[i].op # "CreateCardConnection") => jobs[i].result = "PENDING"

JobsFit == \A i \in 1 .. Len(jobs) : JobFits(i)

(* What a command that was heard says about the readers.                   *)
ResultTrue(i) ==
  jobs[i].heard =>
    /\ jobs[i].op = "EstablishPaceChannel" =>
         jobs[i].type = ctx.paceType /\ ctx.paceType \in {"PACE_PIN", "PACE_CAN"}
    /\ jobs[i].op = "UnblockPin" => ctx.paceType = "PACE_PUK"
    /\ (jobs[i].op = "EstablishPaceChannel" /\ jobs[i].result = "OK") =>
         reader[jobs[i].reader].session =
           IF jobs[i].type = "PACE_PIN" THEN "pin" ELSE "can"
    /\ (jobs[i].op \in {"EstablishPaceChannel", "UpdateRetryCounter"}
        /\ jobs[i].result = "OK") =>
         reader[jobs[i].reader].card # NoCard

ResultsTrue == \A i \in 1 .. Len(jobs) : ResultTrue(i)

(* The WorkflowContext c where the state s is entered: the first part is   *)
(* about the connection and the passwords, the second about errors.        *)
ConnectionFits(s, c) ==
  /\ c.conn # NoConnection => c.conn.reader \in Readers
  /\ s = "ConnectCard" => c.readerName \in Readers
  /\ s \in {"ClearPacePasswordsBeforeDestroy", "DestroyPace"} =>
       HasConnection(c) /\ c.last # "OK"
  /\ s = "UnfortunateCardPosition" => ~HasConnection(c)
  /\ s = "DestroyPace" => \A k \in PasswordKinds : c.pw[k] = NoPassword
  /\ s \in {"EnterPacePassword", "EstablishPaceChannel"} =>
       c.paceType # "UNKNOWN" /\ (canAllowedMode => c.paceType = "PACE_CAN")

ErrorFits(s, c) ==
  /\ c.killed => HasError(c)
  /\ cancelDue => c.killed
  /\ s = "ClearPacePasswordsOnError" => HasError(c)
  /\ (s \in {"SelectReader", "ConnectCard"} /\ HasError(c)) => cancelDue
  /\ c.vanished = RepositionLimit => HasError(c) \/ s = "UnfortunateCardPosition"

(* The ReaderInfo of the connection is that of its reader, where no        *)
(* reading has failed.                                                     *)
InfoFits(c) ==
  (~c.doubted /\ HasConnection(c)) =>
    LET known == reader[c.conn.reader]
    IN c.conn.counter = known.counter /\ ~Doubtful(known.card, known.counter)

(* Where the counter is looked at, the card is still there: a connection   *)
(* whose card has left is dropped before.                                  *)
CardFits(s, c) ==
  (~c.doubted /\ ~AsksByName) =>
    /\ s \in {"SelectReader", "ConnectCard"} => ~HasConnection(c)
    /\ (s = "EstablishPaceChannel" /\ ~HasError(c) /\ HasConnection(c)
        /\ IsBasic(c.conn.reader))
         => c.pw[KindOf[c.paceType]] # NoPassword
    /\ (/\ HasConnection(c)
        /\ \/ s \in {"VerifyRetryCounter", "PreparePace"}
           \/ s = "MaintainCardConnection" /\ c.last = "OK" /\ ~HasError(c))
         => reader[c.conn.reader].card # NoCard

ContextFits(s, c) ==
  ConnectionFits(s, c) /\ ErrorFits(s, c) /\ InfoFits(c) /\ CardFits(s, c)

(* The states of the composite that wait.                                  *)
WaitFits ==
  phase = "waiting" =>
    /\ state \in PaceStates =>
         state \in PaceWaits \/ (state = "MaintainCardConnection" /\ ctx.killed)
    /\ state = "EstablishPaceChannel" =>
         HasConnection(ctx) /\ (cancelDue \/ ~HasError(ctx))

PaceInv == /\ PaceTypeOK /\ JobsFit /\ ResultsTrue
           /\ ContextFits(state, ctx) /\ WaitFits

-----------------------------------------------------------------------------
(***************************************************************************)
(* The operators of CardWorkflow.                                          *)
(***************************************************************************)
(* The types of what a queue of commands holds.                            *)
LEMMA JobTypes ==
  ASSUME NEW js \in Seq(Jobs), NEW i \in 1 .. Len(js)
  PROVE  /\ js[i] \in Jobs
         /\ js[i].op \in Operations /\ js[i].reader \in Readers
         /\ js[i].type \in PaceTypes /\ js[i].pw \in Passwords
         /\ js[i].heard \in BOOLEAN /\ js[i].result \in Codes \cup {"PENDING"}
<1>1. js[i] \in Jobs
  OBVIOUS
<1>2. QED
  BY <1>1 DEF Jobs

(* The queue without its oldest command.                                   *)
LEMMA TailKeeps ==
  ASSUME NEW js \in Seq(Jobs), js # <<>>
  PROVE  /\ Tail(js) \in Seq(Jobs) /\ Len(Tail(js)) = Len(js) - 1
         /\ \A i \in 1 .. Len(Tail(js)) :
              i + 1 \in 1 .. Len(js) /\ i + 1 > 1 /\ Tail(js)[i] = js[i + 1]
  OBVIOUS

(* AbstractState::onExit only stops listening.                             *)
LEMMA UnheardKeeps ==
  ASSUME NEW js \in Seq(Jobs)
  PROVE  /\ Unheard(js) \in Seq(Jobs) /\ Len(Unheard(js)) = Len(js)
         /\ \A i \in 1 .. Len(js) :
              /\ ~Unheard(js)[i].heard
              /\ Unheard(js)[i].op = js[i].op /\ Unheard(js)[i].type = js[i].type
              /\ Unheard(js)[i].reader = js[i].reader
              /\ Unheard(js)[i].pw = js[i].pw
              /\ Unheard(js)[i].result = js[i].result
<1>1. DOMAIN js = 1 .. Len(js)
  OBVIOUS
<1>2. ASSUME NEW i \in 1 .. Len(js)
      PROVE  [js[i] EXCEPT !.heard = FALSE] \in Jobs
  <2>1. js[i] \in Jobs
    OBVIOUS
  <2>2. QED
    BY <2>1 DEF Jobs
<1>3. Unheard(js) \in Seq(Jobs) /\ Len(Unheard(js)) = Len(js)
  BY <1>1, <1>2 DEF Unheard
<1>4. ASSUME NEW i \in 1 .. Len(js)
      PROVE  /\ Unheard(js)[i] = [js[i] EXCEPT !.heard = FALSE]
             /\ js[i] \in Jobs
  BY <1>1 DEF Unheard
<1>5. QED
  BY <1>3, <1>4 DEF Jobs

(* Disconnecting closes sessions and touches nothing else.                 *)
LEMMA SessionsKeep ==
  ASSUME PaceTypeOK, NEW c, NEW js
  PROVE  /\ SessionsAfter(c, js) \in [Readers -> ReaderStates]
         /\ \A r \in Readers :
              /\ SessionsAfter(c, js)[r].card = reader[r].card
              /\ SessionsAfter(c, js)[r].counter = reader[r].counter
              /\ SessionsAfter(c, js)[r].session \in {reader[r].session, "closed"}
              /\ c.conn.reader = r => SessionsAfter(c, js)[r] = reader[r]
  BY DEF PaceTypeOK, SessionsAfter, ReaderStates, Sessions

(* The members of a context, and of what its operators return.             *)
LEMMA ContextTypes ==
  ASSUME NEW c \in Contexts
  PROVE  /\ c.pw \in [PasswordKinds -> Passwords] /\ c.paceType \in PaceTypes
         /\ c.readerName \in Readers \cup {NoReader}
         /\ c.expectedReader \in Readers \cup {NoReader}
         /\ c.expectedCounter \in Counters
         /\ c.conn \in Connections /\ c.vanished \in 0 .. RepositionLimit
         /\ c.last \in Codes /\ c.status \in Statuses /\ c.killed \in BOOLEAN
         /\ c.conn.reader \in Readers \cup {NoReader} /\ c.conn.counter \in Counters
         /\ c.conn.paceCan \in BOOLEAN /\ c.conn.pacePin \in BOOLEAN
  BY DEF Contexts, Connections

LEMMA NoConnectionTypes ==
  /\ NoConnection \in Connections
  /\ NoConnection.reader = NoReader /\ NoReader \notin Readers
  BY ConstantsAssumption DEF NoConnection, Connections, Counters

LEMMA StatusTypes ==
  /\ \A code \in Codes : toGlobalStatus[code] \in Statuses
  /\ \A code \in Codes :
       toGlobalStatus[code] = "No_Error" <=> code \in {"OK", "OK_PUK"}
  BY DEF Codes, equalsWrongPacePassword, Unrecoverable, CardVanished,
         toGlobalStatus, Statuses

(* AbstractState::updateStatus changes the status only, and only to an     *)
(* error.                                                                  *)
LEMMA UpdateStatusKeeps ==
  ASSUME NEW c \in Contexts, NEW s \in Statuses
  PROVE  LET d == updateStatus(c, s)
         IN /\ d \in Contexts
            /\ d.pw = c.pw /\ d.paceType = c.paceType /\ d.conn = c.conn
            /\ d.readerName = c.readerName /\ d.vanished = c.vanished
            /\ d.expectedReader = c.expectedReader
            /\ d.expectedCounter = c.expectedCounter
            /\ d.last = c.last /\ d.killed = c.killed
            /\ d.doubted = c.doubted
            /\ HasError(d) <=> HasError(c) \/ s # "No_Error"
  BY DEF updateStatus, Contexts, HasError

LEMMA ResetKeeps ==
  ASSUME NEW c \in Contexts
  PROVE  LET d == resetPacePasswords(c)
         IN /\ d \in Contexts
            /\ \A k \in PasswordKinds : d.pw[k] = NoPassword
            /\ d.paceType = c.paceType /\ d.conn = c.conn
            /\ d.readerName = c.readerName /\ d.vanished = c.vanished
            /\ d.expectedReader = c.expectedReader
            /\ d.expectedCounter = c.expectedCounter
            /\ d.last = c.last /\ d.killed = c.killed /\ d.status = c.status
            /\ d.doubted = c.doubted
  BY DEF resetPacePasswords, Contexts, Passwords

(* The lambdas of callEstablishPaceChannelCommand change two flags.        *)
LEMMA PaceFlagsKeep ==
  ASSUME NEW c \in Contexts, NEW job
  PROVE  LET d == PaceFlags(c, job)
         IN /\ d \in Contexts
            /\ d.pw = c.pw /\ d.paceType = c.paceType
            /\ d.conn.reader = c.conn.reader /\ d.conn.counter = c.conn.counter
            /\ d.readerName = c.readerName /\ d.vanished = c.vanished
            /\ d.expectedReader = c.expectedReader
            /\ d.expectedCounter = c.expectedCounter
            /\ d.last = c.last /\ d.killed = c.killed /\ d.status = c.status
            /\ d.doubted = c.doubted
  BY DEF PaceFlags, Contexts, Connections

(***************************************************************************)
(* The ways in which the main thread moves the machine.                    *)
(***************************************************************************)
(* The queue when nobody listens to it any more.                           *)
LEMMA UnheardFits ==
  ASSUME NEW js \in Seq(Jobs), jobs' = Unheard(js),
         \A i \in 1 .. Len(js) :
           (i > 1 /\ js[i].op # "CreateCardConnection") => js[i].result = "PENDING"
  PROVE  jobs' \in Seq(Jobs) /\ JobsFit' /\ ResultsTrue'
<1>1. jobs' \in Seq(Jobs) /\ Len(jobs') = Len(js)
  BY UnheardKeeps
<1>2. \A i \in 1 .. Len(js) :
        /\ ~jobs'[i].heard /\ jobs'[i].op = js[i].op
        /\ jobs'[i].result = js[i].result
  BY UnheardKeeps
<1>3. QED
  BY <1>1, <1>2 DEF JobsFit, JobFits, ResultsTrue, ResultTrue

(* What holds whenever the machine has entered s with the context c.       *)
Entered(s, c) ==
  /\ state' = s /\ phase' = "entered" /\ ctx' = c
  /\ UNCHANGED <<cancelDue, card, spent>>
  /\ \A r \in Readers : /\ reader'[r].card = reader[r].card
                        /\ reader'[r].counter = reader[r].counter

LEMMA EnteredFits ==
  ASSUME PaceInv, NEW s, NEW c \in Contexts, ContextFits(s, c), Entered(s, c),
         s \in {"EnterPacePassword", "EstablishPaceChannel"} =>
           UNCHANGED canAllowedMode
  PROVE  ContextFits(state, ctx)' /\ WaitFits'
<1>1. ConnectionFits(state, ctx)'
  BY DEF ContextFits, ConnectionFits, Entered, HasConnection
<1>2. ErrorFits(state, ctx)'
  BY DEF ContextFits, ErrorFits, Entered, HasError
<1>3. c.conn # NoConnection => c.conn.reader \in Readers
  BY DEF ContextFits, ConnectionFits
<1>4. InfoFits(ctx)' /\ CardFits(state, ctx)'
  BY <1>3 DEF ContextFits, InfoFits, CardFits, Entered, HasConnection, HasError
<1>5. WaitFits'
  BY DEF WaitFits, Entered
<1>7. QED
  BY <1>1, <1>2, <1>4, <1>5 DEF ContextFits

(* run() that fires a transition.                                          *)
LEMMA GoKeeps ==
  ASSUME PaceInv, NEW s, NEW c \in Contexts, Go(s, c), ContextFits(s, c),
         s \in {"EnterPacePassword", "EstablishPaceChannel"} =>
           UNCHANGED canAllowedMode
  PROVE  PaceInv'
<1>1. /\ jobs \in Seq(Jobs) /\ jobs' = Unheard(jobs)
      /\ \A i \in 1 .. Len(jobs) :
           (i > 1 /\ jobs[i].op # "CreateCardConnection")
             => jobs[i].result = "PENDING"
  BY DEF PaceInv, PaceTypeOK, JobsFit, JobFits, Go, Main
<1>2. jobs' \in Seq(Jobs) /\ JobsFit' /\ ResultsTrue'
  BY <1>1, UnheardFits
<1>3. reader' = SessionsAfter(c, jobs') /\ PaceTypeOK
  BY DEF PaceInv, Go, Main
<1>4. /\ reader' \in [Readers -> ReaderStates]
      /\ Entered(s, c)
  BY <1>3, SessionsKeep DEF Entered, Go, Enter, Main
<1>5. PaceTypeOK'
  BY <1>2, <1>4 DEF PaceInv, PaceTypeOK, Entered
<1>6. QED
  BY <1>2, <1>4, <1>5, EnteredFits DEF PaceInv

(* A callback that fires a transition.                                     *)
LEMMA ReturnKeeps ==
  ASSUME PaceInv, NEW s, NEW c \in Contexts, jobs # <<>>, Return(s, c),
         ContextFits(s, c),
         s \in {"EnterPacePassword", "EstablishPaceChannel"} =>
           UNCHANGED canAllowedMode
  PROVE  PaceInv'
<1>0. jobs \in Seq(Jobs) /\ JobsFit /\ jobs' = Unheard(Tail(jobs))
  BY DEF PaceInv, PaceTypeOK, Return, Main
<1>1. /\ Tail(jobs) \in Seq(Jobs)
      /\ \A i \in 1 .. Len(Tail(jobs)) :
           Tail(jobs)[i].op # "CreateCardConnection"
             => Tail(jobs)[i].result = "PENDING"
  BY <1>0, TailKeeps DEF JobsFit, JobFits
<1>2. jobs' \in Seq(Jobs) /\ JobsFit' /\ ResultsTrue'
  BY <1>0, <1>1, UnheardFits
<1>3. reader' = SessionsAfter(c, jobs') /\ PaceTypeOK
  BY DEF PaceInv, Return, Main
<1>4. /\ reader' \in [Readers -> ReaderStates]
      /\ Entered(s, c)
  BY <1>3, SessionsKeep DEF Entered, Return, Enter, Main
<1>5. PaceTypeOK'
  BY <1>2, <1>4 DEF PaceInv, PaceTypeOK, Entered
<1>6. QED
  BY <1>2, <1>4, <1>5, EnteredFits DEF PaceInv

(* What holds of the context and the cards while the machine stays where   *)
(* it is.                                                                  *)
Stays ==
  /\ state' = state /\ UNCHANGED <<cancelDue, canAllowedMode>>
  /\ ctx' \in Contexts
  /\ ctx'.pw = ctx.pw /\ ctx'.paceType = ctx.paceType
  /\ ctx'.readerName = ctx.readerName /\ ctx'.vanished = ctx.vanished
  /\ ctx'.last = ctx.last /\ ctx'.status = ctx.status /\ ctx'.killed = ctx.killed
  /\ ~ctx'.doubted => ~ctx.doubted
  /\ ctx'.conn.reader = ctx.conn.reader
  /\ HasConnection(ctx') <=> HasConnection(ctx)
  /\ \A r \in Readers : reader'[r].card = reader[r].card

LEMMA StaysFits ==
  ASSUME ContextFits(state, ctx), Stays, InfoFits(ctx)'
  PROVE  ContextFits(state, ctx)'
<1>1. ConnectionFits(state, ctx)'
  BY DEF ContextFits, ConnectionFits, Stays, HasConnection
<1>2. ErrorFits(state, ctx)'
  BY DEF ContextFits, ErrorFits, Stays, HasError
<1>3. CardFits(state, ctx)'
  BY DEF ContextFits, ConnectionFits, CardFits, Stays, HasConnection, HasError
<1>4. QED
  BY <1>1, <1>2, <1>3 DEF ContextFits

(* The commands are executed, or dropped, while the machine stays.         *)
LEMMA InfoStays ==
  ASSUME ContextFits(state, ctx), Stays, ctx'.conn.counter = ctx.conn.counter,
         \A r \in Readers : reader'[r].counter = reader[r].counter
  PROVE  InfoFits(ctx)'
  BY DEF ContextFits, ConnectionFits, InfoFits, Stays, HasConnection

(* A command handed over by run().                                         *)
LEMMA CallKeeps ==
  ASSUME PaceInv, phase = "entered", UNCHANGED canAllowedMode,
         NEW op \in Operations, NEW r \in Readers, NEW type \in PaceTypes,
         NEW pw \in Passwords, Call(op, r, type, pw),
         CallFits(state, op),
         state # "ConnectCard" => r = ctx.conn.reader,
         op = "EstablishPaceChannel" =>
           type = ctx.paceType /\ type \in {"PACE_PIN", "PACE_CAN"},
         op = "UnblockPin" => ctx.paceType = "PACE_PUK",
         state \in PaceStates => state \in PaceWaits,
         state = "EstablishPaceChannel" => HasConnection(ctx) /\ ~HasError(ctx)
  PROVE  PaceInv'
<1> DEFINE job == [op |-> op, reader |-> r, type |-> type, pw |-> pw,
                   heard |-> TRUE, result |-> "PENDING"]
<1>1. /\ jobs \in Seq(Jobs) /\ jobs' = Append(jobs, job)
      /\ phase' = "waiting" /\ ctx' = ctx /\ ctx \in Contexts
      /\ UNCHANGED <<state, cancelDue, card, spent>>
      /\ reader' = SessionsAfter(ctx, jobs')
  BY DEF PaceInv, PaceTypeOK, Call, Main
<1>2. job \in Jobs
  BY DEF Jobs
<1>3. /\ jobs' \in Seq(Jobs) /\ Len(jobs') = Len(jobs) + 1
      /\ jobs'[Len(jobs')] = job
      /\ \A i \in 1 .. Len(jobs) : jobs'[i] = jobs[i]
  BY <1>1, <1>2
<1>4. \A i \in 1 .. Len(jobs) : ~jobs[i].heard
  BY DEF PaceInv, JobsFit, JobFits
<1>5. /\ reader' \in [Readers -> ReaderStates]
      /\ \A q \in Readers : /\ reader'[q].card = reader[q].card
                            /\ reader'[q].counter = reader[q].counter
  BY <1>1, SessionsKeep DEF PaceInv
<1>6. PaceTypeOK'
  BY <1>1, <1>3, <1>5 DEF PaceInv, PaceTypeOK
<1>7. ASSUME NEW i \in 1 .. Len(jobs') PROVE JobFits(i)' /\ ResultTrue(i)'
  <2>1. CASE i \in 1 .. Len(jobs)
    <3>1. jobs'[i] = jobs[i] /\ ~jobs[i].heard /\ JobFits(i)
      BY <1>3, <1>4, <2>1 DEF PaceInv, JobsFit
    <3>2. QED
      BY <3>1 DEF JobFits, ResultTrue
  <2>2. CASE i = Len(jobs')
    <3>1. jobs'[i] = job
      BY <1>3, <2>2
    <3>2. QED
      BY <1>1, <2>2, <3>1 DEF JobFits, ResultTrue
  <2>3. QED
    BY <1>1, <1>3, <2>1, <2>2
<1>8. JobsFit' /\ ResultsTrue'
  BY <1>7 DEF JobsFit, ResultsTrue
<1>9. ContextFits(state, ctx)'
  BY <1>1, <1>5, StaysFits, InfoStays DEF PaceInv, Stays
<1>10. WaitFits'
  BY <1>1 DEF WaitFits, HasConnection, HasError
<1>12. QED
  BY <1>6, <1>8, <1>9, <1>10 DEF PaceInv

(* run() only waits for a signal.                                          *)
LEMMA WaitKeeps ==
  ASSUME PaceInv, phase' = "waiting",
         UNCHANGED <<state, cancelDue, ctx, jobs, reader, card, spent,
                     canAllowedMode>>,
         state \in PaceStates => state \in PaceWaits \ {"EstablishPaceChannel"}
  PROVE  PaceInv'
<1>1. PaceTypeOK'
  BY DEF PaceInv, PaceTypeOK
<1>2. JobsFit' /\ ResultsTrue'
  BY DEF PaceInv, JobsFit, JobFits, ResultsTrue, ResultTrue
<1>3. ContextFits(state, ctx)'
  BY StaysFits, InfoStays DEF PaceInv, PaceTypeOK, Stays
<1>4. WaitFits'
  BY DEF PaceInv, WaitFits, PaceStates
<1>5. QED
  BY <1>1, <1>2, <1>3, <1>4 DEF PaceInv

(* The lambdas of a result leave the connection where it is.               *)
LEMMA FlagsKeepConnection ==
  ASSUME NEW c \in Contexts, NEW job \in Jobs,
         c.conn # NoConnection => c.conn.reader \in Readers
  PROVE  HasConnection(PaceFlags(c, job)) <=> HasConnection(c)
<1>1. job.reader \in Readers
  BY DEF Jobs
<1>2. CASE c.conn.reader = job.reader
  BY <1>1, <1>2, PaceFlagsKeep, ConstantsAssumption
     DEF HasConnection, NoConnection
<1>3. CASE c.conn.reader # job.reader
  BY <1>3 DEF PaceFlags
<1>4. QED
  BY <1>2, <1>3

(* A result that nobody hears.                                             *)
LEMMA DropResultKeeps ==
  ASSUME PaceInv, DropResult, UNCHANGED canAllowedMode
  PROVE  PaceInv'
<1>1. /\ jobs \in Seq(Jobs) /\ jobs # <<>> /\ ~Head(jobs).heard
      /\ jobs' = Tail(jobs) /\ ctx' = PaceFlags(ctx, Head(jobs))
      /\ UNCHANGED <<state, phase, cancelDue, card, spent>>
      /\ reader' = SessionsAfter(ctx', jobs')
      /\ ctx \in Contexts
  BY DEF PaceInv, PaceTypeOK, DropResult, Answered, Main
<1>2. Head(jobs) \in Jobs /\ Head(jobs) = jobs[1]
  BY <1>1
<1>3. Stays /\ ctx'.conn.counter = ctx.conn.counter
  <2>1. HasConnection(ctx') <=> HasConnection(ctx)
    BY <1>1, <1>2, FlagsKeepConnection DEF PaceInv, ContextFits, ConnectionFits
  <2>2. \A r \in Readers : reader'[r].card = reader[r].card
    BY <1>1, SessionsKeep DEF PaceInv
  <2>3. QED
    BY <1>1, <2>1, <2>2, PaceFlagsKeep DEF Stays
<1>4. /\ reader' \in [Readers -> ReaderStates]
      /\ \A r \in Readers : /\ reader'[r].card = reader[r].card
                            /\ reader'[r].counter = reader[r].counter
                            /\ reader'[r].session \in {reader[r].session, "closed"}
                            /\ ctx'.conn.reader = r => reader'[r] = reader[r]
  BY <1>1, SessionsKeep DEF PaceInv
<1>5. PaceTypeOK'
  BY <1>1, <1>3, <1>4, TailKeeps DEF PaceInv, PaceTypeOK, Stays
<1>6. JobsFit'
  <2>1. ASSUME NEW i \in 1 .. Len(jobs') PROVE JobFits(i)'
    BY <1>1, <1>3, TailKeeps DEF PaceInv, JobsFit, JobFits, Stays
  <2>2. QED
    BY <2>1 DEF JobsFit
<1>7. ResultsTrue'
  <2>1. ASSUME NEW i \in 1 .. Len(jobs') PROVE ResultTrue(i)'
    <3>1. i + 1 \in 1 .. Len(jobs) /\ jobs'[i] = jobs[i + 1] /\ jobs'[i] \in Jobs
      BY <1>1, TailKeeps, JobTypes
    <3>2. ResultTrue(i + 1) /\ JobFits(i + 1)
      BY <3>1 DEF PaceInv, ResultsTrue, JobsFit
    <3>3. CASE state = "ConnectCard" 
      BY <1>1, <1>3, <3>1, <3>2, <3>3
         DEF CallFits, PaceStates, ResultTrue, JobFits, PaceCalls
    <3>4. CASE state # "ConnectCard"
      BY <1>1, <1>3, <1>4, <3>1, <3>2, <3>4, JobTypes
         DEF ResultTrue, JobFits, Stays
    <3>5. QED
      BY <3>3, <3>4
  <2>2. QED
    BY <2>1 DEF ResultsTrue
<1>8. ContextFits(state, ctx)'
  BY <1>3, <1>4, StaysFits, InfoStays DEF PaceInv
<1>9. WaitFits'
  BY <1>1, <1>3, <1>4 DEF PaceInv, WaitFits, Stays, HasError
<1>10. QED
  BY <1>5, <1>6, <1>7, <1>8, <1>9 DEF PaceInv

-----------------------------------------------------------------------------
(***************************************************************************)
(* The steps of the composite, state by state.                             *)
(***************************************************************************)
LEMMA MaintainKeeps ==
  ASSUME PaceInv, StateMaintainCardConnection, UNCHANGED canAllowedMode
  PROVE  PaceInv'
<1>1. /\ state = "MaintainCardConnection" /\ phase = "entered"
      /\ ctx \in Contexts /\ ctx.last \in Codes /\ ContextFits(state, ctx)
  BY ContextTypes DEF PaceInv, PaceTypeOK, StateMaintainCardConnection, Run
<1>2. CASE /\ MaintainAborts
           /\ Go("ClearPacePasswordsOnError",
                 updateStatus(ctx, toGlobalStatus[ctx.last]))
  <2> DEFINE c == updateStatus(ctx, toGlobalStatus[ctx.last])
  <2>1. /\ toGlobalStatus[ctx.last] \in Statuses
        /\ ctx.last \in Unrecoverable => toGlobalStatus[ctx.last] # "No_Error"
    BY <1>1, StatusTypes DEF Unrecoverable
  <2>2. /\ c \in Contexts /\ HasError(c) /\ c.conn = ctx.conn
        /\ c.killed = ctx.killed
        /\ c.doubted = ctx.doubted
    BY <1>1, <1>2, <2>1, UpdateStatusKeeps DEF MaintainAborts
  <2>3. ContextFits("ClearPacePasswordsOnError", c)
    BY <1>1, <2>2 DEF ContextFits, ConnectionFits, ErrorFits, InfoFits, CardFits,
                      HasConnection
  <2>4. QED
    BY <1>2, <2>2, <2>3, GoKeeps
<1>3. CASE /\ ~MaintainAborts /\ ctx.last \in equalsWrongPacePassword
           /\ Go(IF HasConnection(ctx) THEN "UpdateRetryCounter"
                                       ELSE "SelectReader",
                 resetPacePasswords(ctx))
  <2> DEFINE c == resetPacePasswords(ctx)
             s == IF HasConnection(ctx) THEN "UpdateRetryCounter"
                                        ELSE "SelectReader"
  <2>1. /\ c \in Contexts /\ c.conn = ctx.conn /\ c.killed = ctx.killed
        /\ c.doubted = ctx.doubted
        /\ c.status = ctx.status /\ c.vanished = ctx.vanished
    BY <1>1, ResetKeeps
  <2>2. ContextFits(s, c)
    BY <1>1, <1>3, <2>1 DEF ContextFits, ConnectionFits, ErrorFits, InfoFits, CardFits,
                      HasConnection, HasError, MaintainAborts
  <2>3. QED
    BY <1>3, <2>1, <2>2, GoKeeps
<1>4. CASE /\ ~MaintainAborts /\ ctx.last \in CardVanished
           /\ Go("SelectReader",
                 [ctx EXCEPT !.conn = NoConnection, !.last = "OK"])
  <2> DEFINE c == [ctx EXCEPT !.conn = NoConnection, !.last = "OK"]
  <2>1. c \in Contexts
    BY <1>1, NoConnectionTypes DEF Contexts, Codes
  <2>2. /\ c.conn = NoConnection /\ c.killed = ctx.killed
        /\ c.doubted = ctx.doubted
        /\ c.status = ctx.status /\ c.vanished = ctx.vanished
    BY <1>1 DEF Contexts
  <2>3. ContextFits("SelectReader", c)
    BY <1>1, <1>4, <2>2 DEF ContextFits, ConnectionFits, ErrorFits, InfoFits, CardFits,
                      HasConnection, HasError, MaintainAborts
  <2>4. QED
    BY <1>4, <2>1, <2>3, GoKeeps
<1>5. CASE /\ ~MaintainAborts /\ ctx.last = "OK_PUK"
           /\ Go("UpdateRetryCounter", [ctx EXCEPT !.last = "OK"])
  <2> DEFINE c == [ctx EXCEPT !.last = "OK"]
  <2>1. c \in Contexts
    BY <1>1 DEF Contexts, Codes
  <2>2. /\ c.conn = ctx.conn /\ c.killed = ctx.killed
        /\ c.doubted = ctx.doubted
        /\ c.status = ctx.status /\ c.vanished = ctx.vanished
    BY <1>1 DEF Contexts
  <2>3. ContextFits("UpdateRetryCounter", c)
    BY <1>1, <2>2 DEF ContextFits, ConnectionFits, ErrorFits, InfoFits, CardFits,
                      HasConnection, HasError
  <2>4. QED
    BY <1>5, <2>1, <2>3, GoKeeps
<1>6. CASE /\ ~MaintainAborts /\ ctx.last = "OK"
           /\ Go(IF HasConnection(ctx) THEN "VerifyRetryCounter"
                                       ELSE "SelectReader", ctx)
  <2>1. ContextFits(IF HasConnection(ctx) THEN "VerifyRetryCounter"
                                          ELSE "SelectReader", ctx)
    BY <1>1, <1>6 DEF ContextFits, ConnectionFits, ErrorFits, InfoFits, CardFits,
                      HasConnection, HasError, MaintainAborts
  <2>2. QED
    BY <1>1, <1>6, <2>1, GoKeeps
<1>7. QED
  BY <1>2, <1>3, <1>4, <1>5, <1>6 DEF StateMaintainCardConnection

(* StateClearPacePasswords in the composite and in a controller.           *)
LEMMA ClearKeeps ==
  ASSUME PaceInv, NEW s, NEW target, StateClearPacePasswords(s, target),
         UNCHANGED canAllowedMode, s # "UnfortunateCardPosition",
         \/ s = "ClearPacePasswordsBeforeDestroy" /\ target = "DestroyPace"
         \/ target \notin PaceStates
  PROVE  PaceInv'
<1> DEFINE c == resetPacePasswords(ctx)
<1>1. /\ state = s /\ ctx \in Contexts /\ ContextFits(s, ctx) /\ Go(target, c)
  BY DEF PaceInv, PaceTypeOK, StateClearPacePasswords, Run
<1>2. /\ c \in Contexts /\ c.conn = ctx.conn /\ c.killed = ctx.killed
      /\ c.doubted = ctx.doubted
      /\ c.status = ctx.status /\ c.vanished = ctx.vanished /\ c.last = ctx.last
      /\ \A k \in PasswordKinds : c.pw[k] = NoPassword
  BY <1>1, ResetKeeps
<1>3. ContextFits(target, c)
  BY <1>1, <1>2 DEF ContextFits, ConnectionFits, ErrorFits, InfoFits, CardFits,
                    HasConnection, HasError, PaceStates
<1>4. QED
  BY <1>1, <1>2, <1>3, GoKeeps DEF PaceStates

LEMMA SelectReaderKeeps ==
  ASSUME PaceInv, StateSelectReader, UNCHANGED canAllowedMode
  PROVE  PaceInv'
<1>1. state = "SelectReader" /\ phase = "entered" /\ ctx \in Contexts
  BY DEF PaceInv, PaceTypeOK, StateSelectReader, Run
<1>2. CASE \E r \in Readers : CardIn(r) # NoCard /\ Select(r)
  <2>1. PICK r \in Readers : Select(r)
    BY <1>2
  <2> DEFINE c == [ctx EXCEPT !.readerName = r]
  <2>2. c \in Contexts
    BY <1>1 DEF Contexts
  <2>3. /\ c.conn = ctx.conn /\ c.killed = ctx.killed /\ c.readerName = r
        /\ c.doubted = ctx.doubted
        /\ c.status = ctx.status /\ c.vanished = ctx.vanished
    BY <1>1 DEF Contexts
  <2>4. ContextFits("ConnectCard", c)
    BY <1>1, <2>3 DEF PaceInv, ContextFits, ConnectionFits, ErrorFits, InfoFits,
                      CardFits, HasConnection, HasError
  <2>5. QED
    BY <2>1, <2>2, <2>4, GoKeeps DEF Select
<1>3. CASE phase' = "waiting" /\ UNCHANGED <<state, cancelDue, ctx, jobs, reader, card, spent>>
  BY <1>1, <1>3, WaitKeeps DEF PaceWaits
<1>4. QED
  BY <1>2, <1>3 DEF StateSelectReader

LEMMA ReaderErrorKeeps ==
  ASSUME PaceInv, onReaderDeviceError, UNCHANGED canAllowedMode
  PROVE  PaceInv'
<1> DEFINE s == "Workflow_Reader_Device_Error"
           c == updateStatus(ctx, s)
<1>1. /\ state = "SelectReader" /\ ctx \in Contexts
      /\ Go("MaintainCardConnection", c)
  BY DEF PaceInv, PaceTypeOK, onReaderDeviceError
<1>2. s \in Statuses
  BY DEF Statuses
<1>3. /\ c \in Contexts /\ c.conn = ctx.conn /\ HasError(c)
      /\ c.killed = ctx.killed /\ c.vanished = ctx.vanished
      /\ c.doubted = ctx.doubted
  BY <1>1, <1>2, UpdateStatusKeeps
<1>4. ContextFits("MaintainCardConnection", c)
  BY <1>1, <1>3 DEF PaceInv, ContextFits, ConnectionFits, ErrorFits, InfoFits,
                    CardFits, HasConnection
<1>5. QED
  BY <1>1, <1>3, <1>4, GoKeeps

LEMMA PlugInTypesKeep ==
  ASSUME PaceInv, setReaderPlugInTypes, UNCHANGED canAllowedMode
  PROVE  PaceInv'
<1>1. /\ state \in {"SelectReader", "ConnectCard"} /\ ctx \in Contexts
      /\ Go("SelectReader", ctx)
  BY DEF PaceInv, PaceTypeOK, setReaderPlugInTypes
<1>2. ContextFits("SelectReader", ctx)
  BY <1>1 DEF PaceInv, ContextFits, ConnectionFits, ErrorFits, CardFits
<1>3. QED
  BY <1>1, <1>2, GoKeeps

LEMMA ConnectCardKeeps ==
  ASSUME PaceInv, StateConnectCard, UNCHANGED canAllowedMode
  PROVE  PaceInv'
<1>1. /\ state = "ConnectCard" /\ phase = "entered" /\ ctx \in Contexts
      /\ ctx.readerName \in Readers
  BY DEF PaceInv, PaceTypeOK, StateConnectCard, Run, ContextFits, ConnectionFits
<1>2. CASE Call("CreateCardConnection", ctx.readerName, "UNKNOWN", NoPassword)
  <2>1. /\ "CreateCardConnection" \in Operations /\ "UNKNOWN" \in PaceTypes
        /\ NoPassword \in Passwords
    BY DEF Operations, PaceTypes, Passwords
  <2>2. /\ CallFits(state, "CreateCardConnection")
        /\ state \in PaceWaits
    BY <1>1 DEF CallFits, PaceStates, PaceCalls, PaceWaits
  <2>3. QED
    BY <1>1, <1>2, <2>1, <2>2, CallKeeps
<1>3. CASE phase' = "waiting" /\ UNCHANGED <<state, cancelDue, ctx, jobs, reader, card, spent>>
  BY <1>1, <1>3, WaitKeeps DEF PaceWaits
<1>4. QED
  BY <1>2, <1>3 DEF StateConnectCard

(* The result of the command a state waits for.                            *)
LEMMA HeardFacts ==
  ASSUME PaceInv, NEW s, Heard(s)
  PROVE  /\ state = s /\ phase = "waiting" /\ ~cancelDue
         /\ jobs \in Seq(Jobs) /\ jobs # <<>> /\ Head(jobs) = jobs[1]
         /\ Head(jobs) \in Jobs /\ Head(jobs).reader \in Readers
         /\ Result \in Codes /\ ResultTrue(1) /\ 1 \in 1 .. Len(jobs)
         /\ CallFits(s, Head(jobs).op)
         /\ s # "ConnectCard" => /\ Head(jobs).reader = ctx.conn.reader
                                 /\ Len(jobs) = 1
<1>1. /\ state = s /\ ~cancelDue /\ jobs # <<>> /\ Head(jobs).heard
      /\ Result # "PENDING"
  BY DEF Heard, Answered, Quiet
<1>2. /\ jobs \in Seq(Jobs) /\ 1 \in 1 .. Len(jobs) /\ Head(jobs) = jobs[1]
  BY <1>1 DEF PaceInv, PaceTypeOK
<1>3. JobFits(1) /\ ResultTrue(1)
  BY <1>2 DEF PaceInv, JobsFit, ResultsTrue
<1>4. Head(jobs) \in Jobs /\ Head(jobs).reader \in Readers /\ Result \in Codes
  BY <1>1, <1>2, JobTypes DEF Result
<1>5. QED
  BY <1>1, <1>2, <1>3, <1>4 DEF JobFits

LEMMA ConnectCardDoneKeeps ==
  ASSUME PaceInv, ConnectCardDone, UNCHANGED canAllowedMode
  PROVE  PaceInv'
<1>1. Heard("ConnectCard") /\ ctx \in Contexts
  BY DEF PaceInv, PaceTypeOK, ConnectCardDone
<1> DEFINE r == Head(jobs).reader
           conn == [reader |-> r, counter |-> reader[r].counter,
                    paceCan |-> FALSE, pacePin |-> FALSE]
           c == [ctx EXCEPT !.conn = conn,
                            !.doubted = Doubtful(CardIn(r), reader[r].counter)]
           d == [c EXCEPT !.doubted = TRUE]
<1>2. /\ state = "ConnectCard" /\ phase = "waiting" /\ ~cancelDue
      /\ jobs \in Seq(Jobs) /\ jobs # <<>> /\ r \in Readers
  BY <1>1, HeardFacts
<1>3. c \in Contexts /\ d \in Contexts
  <2>1. reader[r].counter \in Counters
    BY <1>2 DEF PaceInv, PaceTypeOK, ReaderStates
  <2>2. conn \in Connections
    BY <1>2, <2>1 DEF Connections
  <2>3. QED
    BY <1>1, <2>2 DEF Contexts, Doubtful
<1>4. /\ c.conn.reader = r /\ c.conn.counter = reader[r].counter
      /\ c.pw = ctx.pw /\ c.paceType = ctx.paceType
      /\ c.readerName = ctx.readerName /\ c.vanished = ctx.vanished
      /\ c.last = ctx.last /\ c.status = ctx.status /\ c.killed = ctx.killed
      /\ c.doubted <=> Doubtful(reader[r].card, reader[r].counter)
      /\ d.doubted /\ d.conn = c.conn
      /\ d.pw = ctx.pw /\ d.paceType = ctx.paceType
      /\ d.readerName = ctx.readerName /\ d.vanished = ctx.vanished
      /\ d.last = ctx.last /\ d.status = ctx.status /\ d.killed = ctx.killed
  BY <1>1, <1>3 DEF Contexts, Doubtful, CardIn
<1>5. CASE Return("MaintainCardConnection", ctx)
  <2>1. ContextFits("MaintainCardConnection", ctx)
    BY <1>2 DEF PaceInv, ContextFits, ConnectionFits, ErrorFits, CardFits
  <2>2. QED
    BY <1>1, <1>2, <1>5, <2>1, ReturnKeeps
<1>6. CASE Return("UpdateRetryCounter", c)
  <2>1. ContextFits("UpdateRetryCounter", c)
    BY <1>2, <1>4 DEF PaceInv, ContextFits, ConnectionFits, ErrorFits, InfoFits,
                      CardFits, HasError
  <2>2. QED
    BY <1>2, <1>3, <1>6, <2>1, ReturnKeeps
<1>7. CASE /\ Main(d, Tail(jobs)) /\ UNCHANGED <<state, phase, cancelDue>>
  <2>1. /\ jobs' = Tail(jobs) /\ ctx' = d /\ reader' = SessionsAfter(d, jobs')
        /\ UNCHANGED <<state, phase, cancelDue, card, spent>>
    BY <1>7 DEF Main
  <2>2. /\ reader' \in [Readers -> ReaderStates]
        /\ \A q \in Readers : /\ reader'[q].card = reader[q].card
                              /\ reader'[q].counter = reader[q].counter
    BY <2>1, SessionsKeep DEF PaceInv
  <2>3. PaceTypeOK'
    BY <1>2, <1>3, <2>1, <2>2, TailKeeps DEF PaceInv, PaceTypeOK
  <2>4. ASSUME NEW i \in 1 .. Len(jobs') PROVE JobFits(i)' /\ ResultTrue(i)'
    <3>1. i + 1 \in 1 .. Len(jobs) /\ jobs'[i] = jobs[i + 1] /\ i + 1 > 1
          /\ (i + 1 = Len(jobs) => i = Len(jobs'))
      BY <1>2, <2>1, TailKeeps
    <3>2. JobFits(i + 1)
      BY <3>1 DEF PaceInv, JobsFit
    <3>3. QED
      BY <1>2, <2>1, <3>1, <3>2
         DEF CallFits, PaceStates, JobFits, ResultTrue, PaceCalls
  <2>5. JobsFit' /\ ResultsTrue'
    BY <2>4 DEF JobsFit, ResultsTrue
  <2>6. ContextFits(state, ctx)'
    <3>1. ConnectionFits(state, ctx)' /\ ErrorFits(state, ctx)'
      BY <1>2, <1>4, <2>1
         DEF PaceInv, ContextFits, ConnectionFits, ErrorFits, HasError
    <3>2. InfoFits(ctx)'
      BY <1>4, <2>1 DEF InfoFits
    <3>3. CardFits(state, ctx)'
      BY <1>4, <2>1 DEF CardFits
    <3>4. QED
      BY <3>1, <3>2, <3>3 DEF ContextFits
  <2>7. WaitFits'
    BY <1>2, <2>1 DEF WaitFits, PaceWaits
  <2>9. QED
    BY <2>3, <2>5, <2>6, <2>7 DEF PaceInv
<1>8. QED
  BY <1>1, <1>5, <1>6, <1>7 DEF ConnectCardDone

(* StateUpdateRetryCounter in the composite and in a controller.           *)
LEMMA UpdateKeeps ==
  ASSUME PaceInv, NEW s, NEW aborted, StateUpdateRetryCounter(s, aborted),
         UNCHANGED canAllowedMode,
         CallFits(s, "UpdateRetryCounter"),
         aborted \notin PaceStates \/ aborted = "MaintainCardConnection"
  PROVE  PaceInv'
<1>1. /\ state = s /\ phase = "entered" /\ ctx \in Contexts
      /\ ContextFits(s, ctx)
  BY DEF PaceInv, PaceTypeOK, StateUpdateRetryCounter, Run
<1>2. s \notin PaceStates \/ s = "UpdateRetryCounter"
  BY DEF CallFits, PaceCalls
<1>3. CASE ~HasConnection(ctx) /\ Go(aborted, ctx)
  <2>1. ContextFits(aborted, ctx)
    BY <1>1, <1>2, <1>3
       DEF ContextFits, ConnectionFits, ErrorFits, InfoFits, CardFits, PaceStates
  <2>2. QED
    BY <1>1, <1>3, <2>1, GoKeeps DEF PaceStates
<1>4. CASE /\ HasConnection(ctx)
           /\ Call("UpdateRetryCounter", ctx.conn.reader, "UNKNOWN", NoPassword)
  <2>1. /\ "UpdateRetryCounter" \in Operations /\ "UNKNOWN" \in PaceTypes
        /\ NoPassword \in Passwords
    BY DEF Operations, PaceTypes, Passwords
  <2>2. ctx.conn.reader \in Readers
    BY <1>1, <1>4 DEF ContextFits, ConnectionFits, HasConnection
  <2>3. /\ state \in PaceStates => state \in PaceWaits
        /\ state # "EstablishPaceChannel"
    BY <1>1, <1>2 DEF PaceWaits, PaceStates
  <2>4. QED
    BY <1>1, <1>4, <2>1, <2>2, <2>3, CallKeeps
<1>5. QED
  BY <1>3, <1>4 DEF StateUpdateRetryCounter

LEMMA UpdateDoneKeeps ==
  ASSUME PaceInv, NEW s, NEW target, NEW aborted,
         UpdateRetryCounterDone(s, target, aborted), UNCHANGED canAllowedMode,
         s \notin PaceStates \/ s = "UpdateRetryCounter",
         \/ target \notin PaceStates
         \/ s = "UpdateRetryCounter" /\ target = "VerifyRetryCounter",
         aborted \notin PaceStates \/ aborted = "MaintainCardConnection"
  PROVE  PaceInv'
<1>1. /\ state = s /\ jobs # <<>> /\ ResultTrue(1) /\ Head(jobs) = jobs[1]
      /\ CallFits(s, Head(jobs).op)
      /\ s # "ConnectCard" => Head(jobs).reader = ctx.conn.reader
      /\ jobs[1].heard
  <2>1. Heard(s) /\ Head(jobs).heard
    BY DEF UpdateRetryCounterDone, Heard
  <2>2. QED
    BY <2>1, HeardFacts
<1>2. ctx \in Contexts /\ ContextFits(s, ctx)
  BY <1>1 DEF PaceInv, PaceTypeOK
<1>3. CASE Result = "OK" /\ Return(target, ctx)
  <2>1. target = "VerifyRetryCounter" => reader[ctx.conn.reader].card # NoCard
    <3>1. s = "UpdateRetryCounter" => Head(jobs).op = "UpdateRetryCounter"
      BY <1>1 DEF CallFits, PaceStates, PaceCalls
    <3>2. QED
      BY <1>1, <1>3, <3>1 DEF ResultTrue, Result, PaceStates
  <2>2. ContextFits(target, ctx)
    BY <1>2, <2>1
       DEF ContextFits, ConnectionFits, ErrorFits, InfoFits, CardFits, PaceStates
  <2>3. QED
    BY <1>1, <1>2, <1>3, <2>2, ReturnKeeps DEF PaceStates
<1>4. CASE Result # "OK" /\ Return(aborted, [ctx EXCEPT !.conn = NoConnection])
  <2> DEFINE c == [ctx EXCEPT !.conn = NoConnection]
  <2>1. c \in Contexts
    BY <1>2, NoConnectionTypes DEF Contexts
  <2>2. /\ c.conn = NoConnection /\ c.killed = ctx.killed
        /\ c.doubted = ctx.doubted
        /\ c.status = ctx.status /\ c.vanished = ctx.vanished
    BY <1>2 DEF Contexts
  <2>3. ContextFits(aborted, c)
    BY <1>2, <2>2
       DEF ContextFits, ConnectionFits, ErrorFits, InfoFits, CardFits, PaceStates,
           HasConnection, HasError
  <2>4. QED
    BY <1>1, <1>4, <2>1, <2>3, ReturnKeeps DEF PaceStates
<1>5. QED
  BY <1>3, <1>4 DEF UpdateRetryCounterDone

LEMMA VerifyKeeps ==
  ASSUME PaceInv, StateVerifyRetryCounter, UNCHANGED canAllowedMode
  PROVE  PaceInv'
<1>1. /\ state = "VerifyRetryCounter" /\ ctx \in Contexts
      /\ ContextFits("VerifyRetryCounter", ctx)
  BY DEF PaceInv, PaceTypeOK, StateVerifyRetryCounter, Run
<1>2. CASE ~HasConnection(ctx) /\ Go("MaintainCardConnection", ctx)
  <2>1. ContextFits("MaintainCardConnection", ctx)
    BY <1>1, <1>2 DEF ContextFits, ConnectionFits, ErrorFits, InfoFits, CardFits
  <2>2. QED
    BY <1>1, <1>2, <2>1, GoKeeps
<1>3. CASE HasConnection(ctx) /\ Go("PreparePace", Verified)
  <2>1. /\ Verified \in Contexts /\ Verified.conn = ctx.conn
        /\ Verified.killed = ctx.killed /\ Verified.status = ctx.status
        /\ Verified.doubted = ctx.doubted
        /\ Verified.vanished = ctx.vanished
    <3> DEFINE d == resetPacePasswords(ctx)
               e == [d EXCEPT !.expectedReader = ctx.readerName,
                              !.expectedCounter = ctx.conn.counter]
    <3>1. /\ d \in Contexts /\ d.conn = ctx.conn /\ d.killed = ctx.killed
          /\ d.doubted = ctx.doubted
          /\ d.status = ctx.status /\ d.vanished = ctx.vanished
      BY <1>1, ResetKeeps
    <3>2. /\ ctx.readerName \in Readers \cup {NoReader}
          /\ ctx.conn.counter \in Counters
      BY <1>1, ContextTypes
    <3>3. /\ e \in Contexts /\ e.conn = d.conn /\ e.killed = d.killed
          /\ e.doubted = d.doubted
          /\ e.status = d.status /\ e.vanished = d.vanished
      <4> HIDE DEF d
      <4>1. QED
        BY <3>1, <3>2 DEF Contexts
    <3>4. Verified = ctx \/ Verified = e
      BY DEF Verified
    <3>5. QED
      BY <1>1, <3>1, <3>3, <3>4
  <2>2. ContextFits("PreparePace", Verified)
    BY <1>1, <1>3, <2>1 DEF ContextFits, ConnectionFits, ErrorFits, InfoFits,
                            CardFits, HasConnection, HasError
  <2>3. QED
    BY <1>3, <2>1, <2>2, GoKeeps
<1>4. QED
  BY <1>2, <1>3 DEF StateVerifyRetryCounter

LEMMA PrepareKeeps ==
  ASSUME PaceInv, StatePreparePace, UNCHANGED canAllowedMode
  PROVE  PaceInv'
<1>1. /\ state = "PreparePace" /\ ctx \in Contexts
      /\ ContextFits("PreparePace", ctx)
  BY DEF PaceInv, PaceTypeOK, StatePreparePace, Run
<1>2. ASSUME NEW type \in PaceTypes
      PROVE  LET c == [ctx EXCEPT !.paceType = type]
             IN /\ c \in Contexts /\ c.paceType = type /\ c.conn = ctx.conn
                /\ c.killed = ctx.killed /\ c.status = ctx.status
                /\ c.doubted = ctx.doubted
                /\ c.vanished = ctx.vanished /\ c.pw = ctx.pw
  BY <1>1 DEF Contexts
<1>3. CASE /\ ~HasConnection(ctx)
           /\ Go("MaintainCardConnection", [ctx EXCEPT !.paceType = "UNKNOWN"])
  <2> DEFINE c == [ctx EXCEPT !.paceType = "UNKNOWN"]
  <2>1. "UNKNOWN" \in PaceTypes
    BY DEF PaceTypes
  <2>2. /\ c \in Contexts /\ c.conn = ctx.conn /\ c.killed = ctx.killed
        /\ c.doubted = ctx.doubted
        /\ c.status = ctx.status /\ c.vanished = ctx.vanished
    BY <1>2, <2>1
  <2>3. ContextFits("MaintainCardConnection", c)
    BY <1>1, <1>3, <2>2 DEF ContextFits, ConnectionFits, ErrorFits, InfoFits,
                            CardFits, HasConnection, HasError
  <2>4. QED
    BY <1>3, <2>2, <2>3, GoKeeps
<1>4. ASSUME NEW type \in {"PACE_PIN", "PACE_CAN", "PACE_PUK"},
             canAllowedMode => type = "PACE_CAN", Prepare(type)
      PROVE  PaceInv'
  <2> DEFINE c == [ctx EXCEPT !.paceType = type]
             s == IF ctx.pw[KindOf[type]] = NoPassword THEN "EnterPacePassword"
                                                       ELSE "EstablishPaceChannel"
  <2>1. /\ c \in Contexts /\ c.conn = ctx.conn /\ c.killed = ctx.killed
        /\ c.doubted = ctx.doubted
        /\ c.status = ctx.status /\ c.vanished = ctx.vanished
        /\ c.paceType = type /\ c.pw = ctx.pw
    BY <1>2 DEF PaceTypes
  <2>2. ContextFits(s, c)
    BY <1>1, <1>4, <2>1 DEF ContextFits, ConnectionFits, ErrorFits, InfoFits,
                            CardFits, HasConnection, HasError
  <2>3. QED
    BY <1>4, <2>1, <2>2, GoKeeps DEF Prepare
<1>5. ASSUME NEW type \in PaceTypes,
             Go("Unreachable", [ctx EXCEPT !.paceType = type])
      PROVE  PaceInv'
  <2> DEFINE c == [ctx EXCEPT !.paceType = type]
  <2>1. /\ c \in Contexts /\ c.conn = ctx.conn /\ c.killed = ctx.killed
        /\ c.doubted = ctx.doubted
        /\ c.status = ctx.status /\ c.vanished = ctx.vanished
    BY <1>2
  <2>2. ContextFits("Unreachable", c)
    BY <1>1, <2>1 DEF ContextFits, ConnectionFits, ErrorFits, InfoFits,
                      CardFits, HasConnection, HasError
  <2>3. QED
    BY <1>5, <2>1, <2>2, GoKeeps
<1>6. CASE canAllowedMode /\ PreparePaceInCanAllowedMode
  BY <1>4, <1>5, <1>6 DEF PreparePaceInCanAllowedMode, PaceTypes
<1>7. CASE ~canAllowedMode /\ (Prepare("PACE_PUK") \/ Prepare("PACE_CAN"))
  BY <1>4, <1>7
<1>8. CASE /\ ~canAllowedMode
           /\ IF ctx.conn.pacePin
                THEN Go("Unreachable", [ctx EXCEPT !.paceType = "PACE_PIN"])
                ELSE Prepare("PACE_PIN")
  BY <1>4, <1>5, <1>8 DEF PaceTypes
<1>9. QED
  BY <1>3, <1>6, <1>7, <1>8 DEF StatePreparePace

LEMMA KindTypes ==
  \A type \in {"PACE_PIN", "PACE_CAN", "PACE_PUK"} : KindOf[type] \in PasswordKinds
  BY DEF KindOf, PasswordKinds

LEMMA EnterPasswordKeeps ==
  ASSUME PaceInv, StateEnterPacePassword, UNCHANGED canAllowedMode
  PROVE  PaceInv'
<1>1. /\ state = "EnterPacePassword" /\ phase = "entered" /\ ctx \in Contexts
      /\ ContextFits("EnterPacePassword", ctx)
      /\ ctx.paceType \in {"PACE_PIN", "PACE_CAN", "PACE_PUK"}
  BY ContextTypes DEF PaceInv, PaceTypeOK, StateEnterPacePassword, Run,
                      ContextFits, ConnectionFits, PaceTypes
<1>2. PICK c \in TypePassword :
        /\ Enter(IF HasError(c) THEN "MaintainCardConnection"
                                ELSE "EstablishPaceChannel")
        /\ ctx' = c
        /\ spent' = IF c.paceType = "PACE_PIN" THEN {} ELSE spent
        /\ UNCHANGED <<cancelDue, jobs, reader, card>>
  BY DEF StateEnterPacePassword
<1>3. /\ c \in Contexts /\ c.conn = ctx.conn /\ c.killed = ctx.killed
      /\ c.doubted = ctx.doubted
      /\ c.status = ctx.status /\ c.vanished = ctx.vanished
      /\ c.paceType = ctx.paceType /\ c.readerName = ctx.readerName
      /\ c.last = ctx.last
      /\ (~ctx.killed /\ TypesAtScreen) => c.pw[KindOf[ctx.paceType]] # NoPassword
  <2>1. CASE ctx.killed \/ ~TypesAtScreen
    BY <1>1, <1>2, <2>1 DEF TypePassword
  <2>2. CASE ~(ctx.killed \/ ~TypesAtScreen)
    <3> DEFINE k == KindOf[ctx.paceType]
    <3>1. PICK p \in Cards \cup {WrongPassword} : c = [ctx EXCEPT !.pw[k] = p]
      BY <1>2, <2>2 DEF TypePassword
    <3>2. p \in Passwords /\ p # NoPassword
      BY <3>1, ConstantsAssumption DEF Passwords
    <3>3. k \in PasswordKinds
      BY <1>1, KindTypes
    <3>4. QED
      <4> HIDE DEF k
      <4>1. c \in Contexts /\ c.pw[k] = p
        BY <1>1, <3>1, <3>2, <3>3 DEF Contexts
      <4>2. /\ c.conn = ctx.conn /\ c.killed = ctx.killed
            /\ c.doubted = ctx.doubted
            /\ c.status = ctx.status /\ c.vanished = ctx.vanished
            /\ c.paceType = ctx.paceType /\ c.readerName = ctx.readerName
            /\ c.last = ctx.last
        BY <1>1, <3>1 DEF Contexts
      <4>3. QED
        BY <3>2, <4>1, <4>2 DEF k
  <2>3. QED
    BY <2>1, <2>2
<1>4. PaceTypeOK'
  BY <1>2, <1>3 DEF PaceInv, PaceTypeOK, Enter
<1>5. ASSUME NEW i \in 1 .. Len(jobs') PROVE JobFits(i)' /\ ResultTrue(i)'
  <2>1. i \in 1 .. Len(jobs) /\ ~jobs[i].heard /\ JobFits(i) /\ jobs' = jobs
    BY <1>1, <1>2 DEF PaceInv, JobsFit, JobFits
  <2>2. QED
    BY <2>1 DEF JobFits, ResultTrue
<1>6. JobsFit' /\ ResultsTrue'
  BY <1>5 DEF JobsFit, ResultsTrue
<1> DEFINE s == IF HasError(c) THEN "MaintainCardConnection"
                               ELSE "EstablishPaceChannel"
<1>7. ContextFits(s, c)
  <2>1. ConnectionFits(s, c) /\ ErrorFits(s, c) /\ InfoFits(c)
    BY <1>1, <1>3 DEF ContextFits, ConnectionFits, ErrorFits, InfoFits,
                      HasConnection, HasError
  <2>2. (~c.doubted /\ ~AsksByName) =>
          ((s = "EstablishPaceChannel" /\ ~HasError(c) /\ IsBasic(c.conn.reader))
             => c.pw[KindOf[c.paceType]] # NoPassword)
    BY <1>1, <1>3 DEF ContextFits, ErrorFits, TypesAtScreen, HasError
  <2>3. CardFits(s, c)
    BY <2>2 DEF CardFits
  <2>4. QED
    BY <2>1, <2>3 DEF ContextFits
<1>8. ContextFits(state, ctx)'
  <2>1. state' = s /\ ctx' = c /\ UNCHANGED <<cancelDue, reader, canAllowedMode>>
    BY <1>2 DEF Enter
  <2>2. QED
    BY <1>7, <2>1 DEF ContextFits, ConnectionFits, ErrorFits, InfoFits, CardFits,
                      HasConnection, HasError
<1>9. WaitFits'
  BY <1>2 DEF PaceInv, WaitFits, Enter
<1>10. QED
  BY <1>4, <1>6, <1>8, <1>9 DEF PaceInv

LEMMA EstablishKeeps ==
  ASSUME PaceInv, StateEstablishPaceChannel, UNCHANGED canAllowedMode
  PROVE  PaceInv'
<1>1. /\ state = "EstablishPaceChannel" /\ phase = "entered" /\ ctx \in Contexts
      /\ ContextFits("EstablishPaceChannel", ctx)
      /\ ctx.paceType \in {"PACE_PIN", "PACE_CAN", "PACE_PUK"}
  BY ContextTypes DEF PaceInv, PaceTypeOK, StateEstablishPaceChannel, Run,
                      ContextFits, ConnectionFits, PaceTypes
<1> DEFINE pw == ctx.pw[KindOf[ctx.paceType]]
           r == ctx.conn.reader
<1>2. CASE HasError(ctx) /\ Go("MaintainCardConnection", ctx)
  <2>1. ContextFits("MaintainCardConnection", ctx)
    BY <1>1, <1>2 DEF ContextFits, ConnectionFits, ErrorFits, InfoFits, CardFits
  <2>2. QED
    BY <1>1, <1>2, <2>1, GoKeeps
<1>3. CASE /\ ~HasError(ctx) /\ ~HasConnection(ctx)
           /\ Go("MaintainCardConnection", [ctx EXCEPT !.last = "OK"])
  <2> DEFINE c == [ctx EXCEPT !.last = "OK"]
  <2>1. /\ c \in Contexts /\ c.conn = ctx.conn /\ c.killed = ctx.killed
        /\ c.doubted = ctx.doubted
        /\ c.status = ctx.status /\ c.vanished = ctx.vanished
    BY <1>1 DEF Contexts, Codes
  <2>2. ContextFits("MaintainCardConnection", c)
    BY <1>1, <1>3, <2>1 DEF ContextFits, ConnectionFits, ErrorFits, InfoFits,
                            CardFits, HasConnection, HasError
  <2>3. QED
    BY <1>3, <2>1, <2>2, GoKeeps
<1>4. CASE /\ ~HasError(ctx) /\ HasConnection(ctx) /\ pw = NoPassword /\ IsBasic(r)
           /\ Go("MaintainCardConnection",
                 [resetPacePasswords(ctx) EXCEPT !.last = "OK"])
  <2> DEFINE d == resetPacePasswords(ctx)
             c == [d EXCEPT !.last = "OK"]
  <2>1. /\ d \in Contexts /\ d.conn = ctx.conn /\ d.killed = ctx.killed
        /\ d.doubted = ctx.doubted
        /\ d.status = ctx.status /\ d.vanished = ctx.vanished
    BY <1>1, ResetKeeps
  <2>2. /\ c \in Contexts /\ c.conn = ctx.conn /\ c.killed = ctx.killed
        /\ c.doubted = ctx.doubted
        /\ c.status = ctx.status /\ c.vanished = ctx.vanished
    <3> HIDE DEF d
    <3>1. QED
      BY <2>1 DEF Contexts, Codes
  <2>3. ContextFits("MaintainCardConnection", c)
    BY <1>1, <1>4, <2>2 DEF ContextFits, ConnectionFits, ErrorFits, InfoFits,
                            CardFits, HasConnection, HasError
  <2>4. QED
    BY <1>4, <2>2, <2>3, GoKeeps
<1>5. CASE /\ ~HasError(ctx) /\ HasConnection(ctx)
           /\ Call(IF ctx.paceType = "PACE_PUK" THEN "UnblockPin"
                                                ELSE "EstablishPaceChannel",
                   r, ctx.paceType, pw)
  <2> DEFINE op == IF ctx.paceType = "PACE_PUK" THEN "UnblockPin"
                                                ELSE "EstablishPaceChannel"
  <2>1. /\ op \in Operations /\ ctx.paceType \in PaceTypes /\ pw \in Passwords
    BY <1>1, KindTypes, ContextTypes DEF Operations, PaceTypes
  <2>2. r \in Readers
    BY <1>1, <1>5 DEF ContextFits, ConnectionFits, HasConnection
  <2>3. CallFits(state, op) /\ state \in PaceWaits
    BY <1>1 DEF CallFits, PaceStates, PaceCalls, PaceWaits
  <2>4. QED
    BY <1>1, <1>5, <2>1, <2>2, <2>3, CallKeeps
<1>6. QED
  BY <1>2, <1>3, <1>4, <1>5 DEF StateEstablishPaceChannel

LEMMA UnfortunateKeeps ==
  ASSUME PaceInv, StateUnfortunateCardPosition, UNCHANGED canAllowedMode
  PROVE  PaceInv'
<1> DEFINE c == setNpaPositionVerified(ctx)
<1>1. /\ ctx \in Contexts /\ ContextFits("UnfortunateCardPosition", ctx)
      /\ Go("MaintainCardConnection", c)
  BY DEF PaceInv, PaceTypeOK, StateUnfortunateCardPosition, Run
<1>2. /\ c \in Contexts /\ c.conn = ctx.conn /\ c.killed = ctx.killed
      /\ c.doubted = ctx.doubted
      /\ c.status = ctx.status /\ c.vanished = 0
  BY <1>1, ConstantsAssumption DEF setNpaPositionVerified, Contexts
<1>3. ContextFits("MaintainCardConnection", c)
  BY <1>1, <1>2, ConstantsAssumption
     DEF ContextFits, ConnectionFits, ErrorFits, InfoFits, CardFits,
         HasConnection, HasError
<1>4. QED
  BY <1>1, <1>2, <1>3, GoKeeps

(* StateDestroyPace in the composite and in a controller.                  *)
LEMMA DestroyKeeps ==
  ASSUME PaceInv, NEW s, StateDestroyPace(s), UNCHANGED canAllowedMode,
         CallFits(s, "DestroyPaceChannel")
  PROVE  PaceInv'
<1>1. /\ state = s /\ phase = "entered" /\ HasConnection(ctx)
      /\ ContextFits(s, ctx)
      /\ Call("DestroyPaceChannel", ctx.conn.reader, "UNKNOWN", NoPassword)
  BY DEF PaceInv, StateDestroyPace, Run
<1>2. /\ "DestroyPaceChannel" \in Operations /\ "UNKNOWN" \in PaceTypes
      /\ NoPassword \in Passwords
  BY DEF Operations, PaceTypes, Passwords
<1>3. ctx.conn.reader \in Readers
  BY <1>1 DEF ContextFits, ConnectionFits, HasConnection
<1>4. /\ state \in PaceStates => state \in PaceWaits
      /\ state # "EstablishPaceChannel"
  BY <1>1 DEF CallFits, PaceStates, PaceCalls, PaceWaits
<1>5. QED
  BY <1>1, <1>2, <1>3, <1>4, CallKeeps

LEMMA DestroyDoneKeeps ==
  ASSUME PaceInv, NEW s, NEW target, DestroyPaceDone(s, target),
         UNCHANGED canAllowedMode, s # "UnfortunateCardPosition",
         \/ s = "DestroyPace" /\ target = "MaintainCardConnection"
         \/ target \notin PaceStates
  PROVE  PaceInv'
<1>1. /\ state = s /\ ctx \in Contexts /\ ContextFits(s, ctx) /\ jobs # <<>>
      /\ Return(target, ctx)
  BY DEF PaceInv, PaceTypeOK, DestroyPaceDone, Heard, Answered
<1>2. ContextFits(target, ctx)
  BY <1>1 DEF ContextFits, ConnectionFits, ErrorFits, InfoFits, CardFits, PaceStates
<1>3. QED
  BY <1>1, <1>2, ReturnKeeps DEF PaceStates

LEMMA CleanUpKeeps ==
  ASSUME PaceInv, NEW target, StateCleanUpReaderManager(target),
         target \notin PaceStates, UNCHANGED canAllowedMode
  PROVE  PaceInv'
<1> DEFINE c == [ctx EXCEPT !.conn = NoConnection]
<1>1. /\ ctx \in Contexts /\ ContextFits("CleanUpReaderManager", ctx)
      /\ Go(target, c)
  BY DEF PaceInv, PaceTypeOK, StateCleanUpReaderManager, Run
<1>2. /\ c \in Contexts /\ c.conn = NoConnection /\ c.killed = ctx.killed
      /\ c.doubted = ctx.doubted
      /\ c.status = ctx.status /\ c.vanished = ctx.vanished
  BY <1>1, NoConnectionTypes DEF Contexts
<1>3. ContextFits(target, c)
  BY <1>1, <1>2 DEF ContextFits, ConnectionFits, ErrorFits, InfoFits, CardFits,
                    HasConnection, HasError, PaceStates
<1>4. QED
  BY <1>1, <1>2, <1>3, GoKeeps DEF PaceStates

(* What StateEstablishPaceChannel::onEstablishConnectionDone starts with.  *)
LEMMA AfterPaceFacts ==
  ASSUME PaceInv, Heard("EstablishPaceChannel")
  PROVE  LET c == AfterPace
         IN /\ c \in Contexts /\ c.last = Result
            /\ c.pw = ctx.pw /\ c.paceType = ctx.paceType
            /\ c.killed = ctx.killed /\ c.status = ctx.status
            /\ c.doubted = ctx.doubted
            /\ c.readerName = ctx.readerName
            /\ c.expectedReader = ctx.expectedReader
            /\ c.expectedCounter = ctx.expectedCounter
            /\ HasConnection(ctx) /\ ~HasError(ctx)
            /\ Result \in CardVanished => c.conn = NoConnection
            /\ Result \notin CardVanished =>
                 /\ HasConnection(c) /\ c.conn.reader = ctx.conn.reader
                 /\ c.conn.counter = ctx.conn.counter /\ c.vanished = 0
<1>1. /\ state = "EstablishPaceChannel" /\ phase = "waiting" /\ ~cancelDue
      /\ Head(jobs) \in Jobs /\ Result \in Codes
  BY HeardFacts
<1>2. /\ HasConnection(ctx) /\ ~HasError(ctx) /\ ctx \in Contexts
      /\ ctx.conn.reader \in Readers
  BY <1>1 DEF PaceInv, PaceTypeOK, WaitFits, ContextFits, ConnectionFits,
              HasConnection
<1>3. ctx.vanished \in 0 .. RepositionLimit /\ ctx.vanished # RepositionLimit
  BY <1>1, <1>2, ContextTypes DEF PaceInv, ContextFits, ErrorFits
<1> DEFINE f == PaceFlags(ctx, Head(jobs))
           d == [f EXCEPT !.last = Result]
<1>4. /\ f \in Contexts /\ f.pw = ctx.pw /\ f.paceType = ctx.paceType
      /\ f.conn.reader = ctx.conn.reader /\ f.conn.counter = ctx.conn.counter
      /\ f.readerName = ctx.readerName /\ f.vanished = ctx.vanished
      /\ f.expectedReader = ctx.expectedReader
      /\ f.expectedCounter = ctx.expectedCounter
      /\ f.killed = ctx.killed /\ f.status = ctx.status
      /\ f.doubted = ctx.doubted
  BY <1>2, PaceFlagsKeep
<1>5. HasConnection(f)
  BY <1>1, <1>2, FlagsKeepConnection
<1>6. /\ d \in Contexts /\ d.last = Result
      /\ d.pw = f.pw /\ d.paceType = f.paceType /\ d.conn = f.conn
      /\ d.readerName = f.readerName /\ d.vanished = f.vanished
      /\ d.expectedReader = f.expectedReader
      /\ d.expectedCounter = f.expectedCounter
      /\ d.killed = f.killed /\ d.status = f.status
      /\ d.doubted = f.doubted
  <2> HIDE DEF f
  <2>1. QED
    BY <1>1, <1>4 DEF Contexts
<1>7. CASE Result \in CardVanished
  <2>1. AfterPace = [d EXCEPT !.vanished = @ + 1, !.conn = NoConnection]
    BY <1>7 DEF AfterPace, handleWrongNpaPosition
  <2> HIDE DEF d, f
  <2>2. d.vanished + 1 \in 0 .. RepositionLimit
    BY <1>3, <1>4, <1>6, ConstantsAssumption
  <2>3. AfterPace \in Contexts /\ AfterPace.conn = NoConnection
    BY <1>6, <2>1, <2>2, NoConnectionTypes DEF Contexts
  <2>4. /\ AfterPace.last = d.last /\ AfterPace.pw = d.pw
        /\ AfterPace.paceType = d.paceType /\ AfterPace.killed = d.killed
        /\ AfterPace.doubted = d.doubted
        /\ AfterPace.status = d.status /\ AfterPace.readerName = d.readerName
        /\ AfterPace.expectedReader = d.expectedReader
        /\ AfterPace.expectedCounter = d.expectedCounter
    BY <1>6, <2>1 DEF Contexts
  <2>5. QED
    BY <1>2, <1>4, <1>6, <1>7, <2>3, <2>4
<1>8. CASE Result \notin CardVanished
  <2>1. AfterPace = [d EXCEPT !.vanished = 0]
    <3>1. AfterPace = setNpaPositionVerified(d) \/ Result = "OK"
      BY <1>8 DEF AfterPace
    <3>2. QED
      BY <1>8 DEF AfterPace, setNpaPositionVerified
  <2> HIDE DEF d, f
  <2>2. /\ AfterPace \in Contexts /\ AfterPace.vanished = 0
    BY <1>6, <2>1, ConstantsAssumption DEF Contexts
  <2>3. /\ AfterPace.last = d.last /\ AfterPace.pw = d.pw
        /\ AfterPace.paceType = d.paceType /\ AfterPace.killed = d.killed
        /\ AfterPace.doubted = d.doubted
        /\ AfterPace.status = d.status /\ AfterPace.readerName = d.readerName
        /\ AfterPace.expectedReader = d.expectedReader
        /\ AfterPace.expectedCounter = d.expectedCounter
        /\ AfterPace.conn = d.conn
    BY <1>6, <2>1 DEF Contexts
  <2>4. HasConnection(AfterPace)
    BY <1>5, <1>6, <2>3 DEF HasConnection
  <2>5. QED
    BY <1>2, <1>4, <1>6, <1>8, <2>2, <2>3, <2>4
<1>9. QED
  BY <1>7, <1>8

LEMMA EstablishDoneKeeps ==
  ASSUME PaceInv, EstablishPaceChannelDone, ExitsOutside, UNCHANGED canAllowedMode
  PROVE  PaceInv'
<1> DEFINE c == AfterPace
<1>1. Heard("EstablishPaceChannel")
  BY DEF EstablishPaceChannelDone
<1>2. /\ state = "EstablishPaceChannel" /\ jobs # <<>> /\ Head(jobs) = jobs[1]
      /\ ResultTrue(1) /\ jobs[1].heard /\ Result \in Codes
      /\ jobs[1].op \in {"EstablishPaceChannel", "UnblockPin"}
      /\ jobs[1].reader = ctx.conn.reader
      /\ ContextFits("EstablishPaceChannel", ctx) /\ ctx.conn.reader \in Readers
  <2>1. Head(jobs).heard
    BY <1>1 DEF Heard
  <2>2. QED
    BY <1>1, <2>1, HeardFacts, AfterPaceFacts
       DEF CallFits, PaceStates, PaceCalls, PaceInv, ContextFits, ConnectionFits,
           HasConnection
<1>3. /\ c \in Contexts /\ c.last = Result /\ c.paceType = ctx.paceType
      /\ c.killed = ctx.killed /\ c.status = ctx.status
      /\ c.doubted = ctx.doubted
      /\ ~HasError(ctx) /\ ~HasError(c) /\ ~c.killed
      /\ Result \in CardVanished => c.conn = NoConnection
      /\ Result \notin CardVanished =>
           /\ HasConnection(c) /\ c.conn.reader = ctx.conn.reader
           /\ c.conn.counter = ctx.conn.counter /\ c.vanished = 0
  BY <1>1, <1>2, AfterPaceFacts DEF HasError, ContextFits, ErrorFits
<1>4. c.conn # NoConnection => c.conn.reader \in Readers
  BY <1>2, <1>3 DEF HasConnection
<1>5. InfoFits(c) /\ ~cancelDue
  <2>1. ~cancelDue /\ HasConnection(ctx)
    BY <1>1, HeardFacts, AfterPaceFacts
  <2>2. InfoFits(ctx)
    BY <1>2 DEF ContextFits
  <2> HIDE DEF c
  <2>3. CASE Result \in CardVanished
    BY <1>3, <2>1, <2>3 DEF InfoFits, HasConnection
  <2>4. CASE Result \notin CardVanished
    BY <1>3, <2>1, <2>2, <2>4 DEF InfoFits
  <2>5. QED
    BY <2>1, <2>3, <2>4
<1>6. RepositionLimit # 0
  BY ConstantsAssumption
<1> HIDE DEF c
<1>7. ASSUME NEW s, NEW d \in Contexts, Return(s, d),
             s \in {"MaintainCardConnection", "ClearPacePasswordsBeforeDestroy",
                    "UnfortunateCardPosition", OnEstablished},
             d.conn = c.conn, d.killed = c.killed /\ d.doubted = c.doubted, HasError(c) => HasError(d),
             s = "ClearPacePasswordsBeforeDestroy" =>
               HasConnection(d) /\ d.last # "OK",
             s = "UnfortunateCardPosition" => ~HasConnection(d),
             d.vanished = RepositionLimit =>
               HasError(d) \/ s = "UnfortunateCardPosition",
             (s = "MaintainCardConnection" /\ HasConnection(d) /\ d.last = "OK"
              /\ ~HasError(d)) => reader[d.conn.reader].card # NoCard
      PROVE  PaceInv'
  <2>1. OnEstablished \notin PaceStates
    BY DEF ExitsOutside
  <2>2. ConnectionFits(s, d)
    BY <1>4, <1>7, <2>1 DEF ConnectionFits, PaceStates
  <2>3. ErrorFits(s, d)
    BY <1>3, <1>5, <1>7, <2>1 DEF ErrorFits, PaceStates
  <2>4. InfoFits(d)
    BY <1>5, <1>7 DEF InfoFits, HasConnection
  <2>5. CardFits(s, d)
    BY <1>7, <2>1 DEF CardFits, PaceStates
  <2>6. QED
    BY <1>2, <1>7, <2>1, <2>2, <2>3, <2>4, <2>5, ReturnKeeps
       DEF ContextFits, PaceStates
<1>8. CASE /\ Result = "OK" /\ Established(ctx.paceType)
           /\ Return(OnEstablished,
                     [c EXCEPT !.expectedCounter =
                        IF ctx.paceType = "PACE_PIN" THEN 3 ELSE @])
  <2> DEFINE d == [c EXCEPT !.expectedCounter =
                     IF ctx.paceType = "PACE_PIN" THEN 3 ELSE @]
  <2>1. d \in Contexts
    BY <1>3 DEF Contexts, Counters
  <2>2. /\ d.conn = c.conn /\ d.killed = c.killed /\ d.status = c.status
        /\ d.doubted = c.doubted
        /\ d.vanished = c.vanished
    BY <1>3 DEF Contexts
  <2>3. d.vanished = 0 /\ OnEstablished \notin PaceStates
    BY <1>3, <1>8, <2>2 DEF ExitsOutside, CardVanished
  <2>4. QED
    BY <1>6, <1>7, <1>8, <2>1, <2>2, <2>3 DEF HasError, PaceStates
<1>9. CASE /\ Result = "OK" /\ ctx.paceType = "PACE_CAN"
           /\ Return("MaintainCardConnection", c)
  <2>1. reader[c.conn.reader].card # NoCard /\ c.vanished = 0
    BY <1>2, <1>3, <1>9 DEF ResultTrue, Result, CardVanished
  <2>2. QED
    BY <1>3, <1>6, <1>7, <1>9, <2>1
<1>10. CASE /\ Result = "OK" /\ ctx.paceType = "PACE_PUK"
            /\ Return("ClearPacePasswordsBeforeDestroy",
                      [resetPacePasswords(c) EXCEPT !.expectedCounter = -1,
                                                    !.last = "OK_PUK"])
  <2> DEFINE e == resetPacePasswords(c)
             d == [e EXCEPT !.expectedCounter = -1, !.last = "OK_PUK"]
  <2>1. /\ e \in Contexts /\ e.conn = c.conn /\ e.killed = c.killed
        /\ e.doubted = c.doubted
        /\ e.status = c.status /\ e.vanished = c.vanished
    BY <1>3, ResetKeeps
  <2>2. /\ d \in Contexts /\ d.last = "OK_PUK" /\ d.conn = e.conn
        /\ d.killed = e.killed /\ d.status = e.status /\ d.vanished = e.vanished
        /\ d.doubted = e.doubted
    <3> HIDE DEF e
    <3>1. "OK_PUK" \in Codes /\ -1 \in Counters
      BY DEF Codes, Counters
    <3>2. QED
      BY <2>1, <3>1 DEF Contexts
  <2>3. HasConnection(d) /\ d.vanished = 0
    BY <1>3, <1>10, <2>1, <2>2 DEF HasConnection, CardVanished
  <2>4. Return("ClearPacePasswordsBeforeDestroy", d)
    BY <1>10
  <2> HIDE DEF d, e
  <2>5. QED
    BY <1>6, <1>7, <2>1, <2>2, <2>3, <2>4 DEF HasError
<1>11. CASE /\ Result \in {"PUK_INOPERATIVE", "CANCELLATION_BY_USER"}
            /\ Return("MaintainCardConnection",
                      updateStatus(c, toGlobalStatus[Result]))
  <2> DEFINE d == updateStatus(c, toGlobalStatus[Result])
  <2>1. /\ toGlobalStatus[Result] \in Statuses
        /\ toGlobalStatus[Result] # "No_Error"
    BY <1>2, <1>11, StatusTypes
  <2>2. d \in Contexts /\ HasError(d) /\ d.conn = c.conn /\ d.killed = c.killed
                       /\ d.doubted = c.doubted
    BY <1>3, <2>1, UpdateStatusKeeps
  <2>3. Return("MaintainCardConnection", d)
    BY <1>11
  <2> HIDE DEF d
  <2>4. QED
    BY <1>7, <2>2, <2>3
<1>12. CASE /\ Result = "INVALID_PIN"
            /\ Return("ClearPacePasswordsBeforeDestroy",
                      [c EXCEPT !.last = RefinedInvalidPin])
  <2> DEFINE d == [c EXCEPT !.last = RefinedInvalidPin]
  <2>1. RefinedInvalidPin \in {"INVALID_PIN", "INVALID_PIN_2", "INVALID_PIN_3"}
    BY DEF RefinedInvalidPin
  <2>2. d \in Contexts
    BY <1>3, <2>1 DEF Contexts, Codes, equalsWrongPacePassword
  <2>3. /\ d.last = RefinedInvalidPin /\ d.conn = c.conn
        /\ d.killed = c.killed /\ d.status = c.status /\ d.vanished = c.vanished
        /\ d.doubted = c.doubted
    BY <1>3 DEF Contexts
  <2>4. HasConnection(d) /\ d.vanished = 0 /\ d.last # "OK"
    BY <1>3, <1>12, <2>1, <2>3 DEF HasConnection, CardVanished
  <2>5. QED
    BY <1>6, <1>7, <1>12, <2>2, <2>3, <2>4 DEF HasError
<1>13. CASE /\ Result \notin {"OK", "PUK_INOPERATIVE", "CANCELLATION_BY_USER",
                              "INVALID_PIN"}
            /\ \E told \in isNpaRepositioningRequired(c) :
                 Return(IF told THEN "UnfortunateCardPosition"
                                ELSE "MaintainCardConnection", c)
  <2>1. PICK told \in isNpaRepositioningRequired(c) :
          Return(IF told THEN "UnfortunateCardPosition"
                         ELSE "MaintainCardConnection", c)
    BY <1>13
  <2>2. c.vanished \in 0 .. RepositionLimit
    BY <1>3, ContextTypes
  <2> DEFINE v == c.vanished
  <2>3. /\ told \in BOOLEAN
        /\ v = RepositionLimit => told
        /\ v = 0 => ~told
    <3>1. told \in IF v >= RepositionLimit THEN {TRUE}
                   ELSE IF v > 1 THEN {TRUE, FALSE} ELSE {FALSE}
      BY <2>1 DEF isNpaRepositioningRequired
    <3>2. v \in 0 .. RepositionLimit /\ RepositionLimit \in Nat \ {0}
      BY <2>2, ConstantsAssumption
    <3> HIDE DEF v
    <3>3. CASE v >= RepositionLimit
      BY <3>1, <3>2, <3>3
    <3>4. CASE ~(v >= RepositionLimit) /\ v > 1
      <4>1. told \in {TRUE, FALSE}
        BY <3>1, <3>4
      <4>2. v # RepositionLimit /\ v # 0
        BY <3>2, <3>4
      <4>3. QED
        BY <4>1, <4>2
    <3>5. CASE ~(v >= RepositionLimit) /\ ~(v > 1)
      <4>1. told \in {FALSE}
        BY <3>1, <3>5
      <4>2. v # RepositionLimit
        BY <3>2, <3>5
      <4>3. QED
        BY <4>1, <4>2
    <3>6. QED
      BY <3>3, <3>4, <3>5
  <2>4. told => ~HasConnection(c)
    BY <1>3, <2>3 DEF HasConnection
  <2>5. QED
    BY <1>3, <1>7, <1>13, <2>1, <2>3, <2>4
<1>14. QED
  BY <1>8, <1>9, <1>10, <1>11, <1>12, <1>13 DEF EstablishPaceChannelDone, c

-----------------------------------------------------------------------------
(***************************************************************************)
(* The commands of the ReaderManager thread.  The machine stays, the       *)
(* result of the oldest command is written.                                *)
(***************************************************************************)
LEMMA PendingFacts ==
  ASSUME PaceInv, NEW op, Pending(op)
  PROVE  /\ jobs \in Seq(Jobs) /\ jobs # <<>> /\ 1 \in 1 .. Len(jobs)
         /\ Head(jobs) = jobs[1] /\ jobs[1].op = op
         /\ jobs[1].result = "PENDING" /\ R = jobs[1].reader /\ R \in Readers
         /\ reader \in [Readers -> ReaderStates] /\ reader[R] \in ReaderStates
         /\ \A i \in 1 .. Len(jobs) : jobs[i].op # "CreateCardConnection"
                                        => jobs[i].result = "PENDING"
<1>1. /\ jobs \in Seq(Jobs) /\ jobs # <<>> /\ Head(jobs).op = op
      /\ Head(jobs).result = "PENDING" /\ reader \in [Readers -> ReaderStates]
  BY DEF PaceInv, PaceTypeOK, Pending
<1>2. 1 \in 1 .. Len(jobs) /\ Head(jobs) = jobs[1]
  BY <1>1
<1>3. R = jobs[1].reader /\ R \in Readers
  BY <1>1, <1>2, JobTypes DEF R
<1>4. \A i \in 1 .. Len(jobs) :
        (i > 1 /\ jobs[i].op # "CreateCardConnection")
          => jobs[i].result = "PENDING"
  BY DEF PaceInv, JobsFit, JobFits
<1>5. \A i \in 1 .. Len(jobs) : jobs[i].op # "CreateCardConnection"
                                 => jobs[i].result = "PENDING"
  BY <1>1, <1>2, <1>4
<1>6. QED
  BY <1>1, <1>2, <1>3, <1>5

(* The queue when the result of the oldest command is written.             *)
LEMMA ResultWritten ==
  ASSUME PaceInv, NEW op, Pending(op), NEW code \in Codes,
         op # "CreateCardConnection",
         jobs' = [jobs EXCEPT ![1].result = code],
         UNCHANGED <<state, phase, cancelDue>>, ctx'.paceType = ctx.paceType,
         ctx'.conn.reader = ctx.conn.reader,
         \A r \in Readers : r # R => reader'[r] = reader[r],
         reader'[R].card = reader[R].card,
         (op = "EstablishPaceChannel" /\ code = "OK") =>
           reader'[R].session = (IF jobs[1].type = "PACE_PIN" THEN "pin" ELSE "can"),
         (op \in {"EstablishPaceChannel", "UpdateRetryCounter"} /\ code = "OK")
           => reader[R].card # NoCard
  PROVE  jobs' \in Seq(Jobs) /\ JobsFit' /\ ResultsTrue'
<1>1. /\ jobs \in Seq(Jobs) /\ 1 \in 1 .. Len(jobs) /\ jobs[1].op = op
      /\ jobs[1].reader = R
      /\ \A i \in 1 .. Len(jobs) : jobs[i].op # "CreateCardConnection"
                                     => jobs[i].result = "PENDING"
  BY PendingFacts
<1>2. [jobs[1] EXCEPT !.result = code] \in Jobs
  <2>1. jobs[1] \in Jobs
    BY <1>1
  <2>2. QED
    BY <2>1 DEF Jobs
<1>3. /\ jobs' \in Seq(Jobs) /\ Len(jobs') = Len(jobs)
      /\ jobs'[1] = [jobs[1] EXCEPT !.result = code]
      /\ \A i \in 1 .. Len(jobs) : i # 1 => jobs'[i] = jobs[i]
  BY <1>1, <1>2
<1>4. jobs[1] \in Jobs
  BY <1>1
<1>5. /\ jobs'[1].op = op /\ jobs'[1].reader = R /\ jobs'[1].result = code
      /\ jobs'[1].type = jobs[1].type /\ jobs'[1].heard = jobs[1].heard
  BY <1>1, <1>3, <1>4 DEF Jobs
<1>6. ASSUME NEW i \in 1 .. Len(jobs') PROVE JobFits(i)' /\ ResultTrue(i)'
  <2>1. i \in 1 .. Len(jobs) /\ JobFits(i) /\ ResultTrue(i)
    BY <1>3 DEF PaceInv, JobsFit, ResultsTrue
  <2>2. CASE i = 1
    <3>1. JobFits(i)'
      BY <1>1, <1>3, <1>5, <2>1, <2>2 DEF JobFits
    <3>2. ResultTrue(i)'
      BY <1>1, <1>3, <1>5, <2>1, <2>2 DEF ResultTrue
    <3>3. QED
      BY <3>1, <3>2
  <2>3. CASE i # 1
    <3>1. jobs'[i] = jobs[i] /\ jobs[i] \in Jobs
      BY <1>1, <1>3, <2>1, <2>3
    <3>2. JobFits(i)'
      BY <1>3, <2>1, <3>1 DEF JobFits
    <3>3. ResultTrue(i)'
      <4>1. jobs[i].op \in {"EstablishPaceChannel", "UpdateRetryCounter"}
              => jobs[i].result = "PENDING"
        BY <1>1, <2>1
      <4>2. QED
        BY <2>1, <3>1, <4>1 DEF ResultTrue
    <3>4. QED
      BY <3>2, <3>3
  <2>4. QED
    BY <2>2, <2>3
<1>7. QED
  BY <1>3, <1>6 DEF JobsFit, ResultsTrue

(* A command that changes at most the card and its session.                *)
LEMMA AnswerKeeps ==
  ASSUME PaceInv, NEW op, Pending(op), NEW code \in Codes,
         op # "CreateCardConnection",
         NEW cd \in CardRecords,
         NEW ss \in Sessions, Answer(code, cd, ss),
         UNCHANGED <<ctx, canAllowedMode>>, spent' \subseteq Cards,
         (op = "EstablishPaceChannel" /\ code = "OK") =>
           ss = IF jobs[1].type = "PACE_PIN" THEN "pin" ELSE "can",
         (op \in {"EstablishPaceChannel", "UpdateRetryCounter"} /\ code = "OK")
           => reader[R].card # NoCard
  PROVE  PaceInv'
<1>1. /\ jobs' = [jobs EXCEPT ![1].result = code] /\ card' = cd
      /\ reader' = [reader EXCEPT ![R].session = ss]
      /\ UNCHANGED <<state, phase, cancelDue, ctx>> /\ ctx \in Contexts
  BY DEF Answer, PaceInv, PaceTypeOK
<1>2. R \in Readers /\ reader \in [Readers -> ReaderStates]
  BY PendingFacts
<1>3. /\ reader' \in [Readers -> ReaderStates]
      /\ \A r \in Readers : /\ r # R => reader'[r] = reader[r]
                            /\ reader'[r].card = reader[r].card
                            /\ reader'[r].counter = reader[r].counter
      /\ reader'[R].session = ss
  BY <1>1, <1>2 DEF ReaderStates
<1>4. jobs' \in Seq(Jobs) /\ JobsFit' /\ ResultsTrue'
  BY <1>1, <1>2, <1>3, ResultWritten
<1>5. PaceTypeOK'
  BY <1>1, <1>3, <1>4 DEF PaceInv, PaceTypeOK
<1>6. ContextFits(state, ctx)'
  BY <1>1, <1>3, StaysFits, InfoStays DEF PaceInv, Stays
<1>7. WaitFits'
  BY <1>1, <1>3 DEF PaceInv, WaitFits, HasConnection, HasError
<1>8. QED
  BY <1>4, <1>5, <1>6, <1>7 DEF PaceInv

LEMMA FailKeeps ==
  ASSUME PaceInv, NEW op, Pending(op), NEW codes, Fail(codes),
         codes \subseteq Codes, op # "CreateCardConnection",
         UNCHANGED canAllowedMode,
         "OK" \in codes =>
           op \notin {"EstablishPaceChannel", "UpdateRetryCounter"}
  PROVE  PaceInv'
<1>1. PICK code \in codes : Answer(code, card, reader[R].session)
  BY DEF Fail
<1>2. UNCHANGED <<ctx, spent>> /\ spent \subseteq Cards
      /\ card \in CardRecords
  BY DEF Fail, PaceInv, PaceTypeOK
<1>3. reader[R].session \in Sessions
  BY PendingFacts DEF ReaderStates
<1>4. QED
  BY <1>1, <1>2, <1>3, AnswerKeeps

(* The codes of a broken exchange are codes, and none is OK.               *)
LEMMA BrokenCodes ==
  /\ \A r : BrokenPace(r) \subseteq Codes \ {"OK"}
  /\ \A r : GivenUp(r) \subseteq Codes \ {"OK"}
  /\ {"CARD_NOT_FOUND", "COMMAND_FAILED", "PROTOCOL_ERROR", "PIN_NOT_BLOCKED",
      "UNEXPECTED_TRANSMIT_STATUS", "NEW_PIN_MISMATCH",
      "NEW_PIN_INVALID_LENGTH", "INVALID_PIN", "INVALID_CAN", "INVALID_PUK",
      "PUK_INOPERATIVE", "OK"} \subseteq Codes
  BY DEF BrokenPace, GivenUp, Codes, equalsWrongPacePassword, Unrecoverable,
         CardVanished

(* What the card does to its own counters.                                 *)
LEMMA CardTypes ==
  ASSUME PaceInv, NEW c \in Cards
  PROVE  /\ card \in CardRecords /\ [card EXCEPT ![c].counter = 3] \in CardRecords
         /\ CounterOf(c) \in 0 .. 3
         /\ CounterOf(c) > 0 => [card EXCEPT ![c].counter = @ - 1] \in CardRecords
         /\ card[c].puk > 0 =>
              [card EXCEPT ![c].counter = 3, ![c].puk = @ - 1] \in CardRecords
         /\ \A b \in BOOLEAN : [card EXCEPT ![c].changed = b] \in CardRecords
<1>1. card \in CardRecords /\ card[c] \in [counter : 0 .. 3, puk : 0 .. PukUses,
                                           changed : BOOLEAN]
  BY DEF PaceInv, PaceTypeOK, CardRecords
<1>2. /\ card[c].counter \in 0 .. 3 /\ card[c].puk \in 0 .. PukUses
      /\ PukUses \in Nat
  BY <1>1, ConstantsAssumption
<1>3. [card[c] EXCEPT !.counter = 3]
        \in [counter : 0 .. 3, puk : 0 .. PukUses, changed : BOOLEAN]
  BY <1>1
<1>4. CounterOf(c) \in 0 .. 3 /\ (CounterOf(c) > 0 => card[c].counter > 0)
  BY <1>2 DEF CounterOf
<1>5. card[c].counter > 0 => card[c].counter - 1 \in 0 .. 3
  BY <1>2
<1>6. CounterOf(c) > 0 => [card EXCEPT ![c].counter = @ - 1] \in CardRecords
  BY <1>1, <1>4, <1>5 DEF CardRecords
<1>7. card[c].puk > 0 => card[c].puk - 1 \in 0 .. PukUses
  BY <1>2
<1>8. ASSUME card[c].puk > 0
      PROVE  [card EXCEPT ![c].counter = 3, ![c].puk = @ - 1] \in CardRecords
  <2> DEFINE n == card[c].puk - 1
             one == [card EXCEPT ![c].counter = 3]
  <2>1. one \in CardRecords /\ one[c].puk = card[c].puk
    BY <1>1 DEF CardRecords
  <2>2. [card EXCEPT ![c].counter = 3, ![c].puk = @ - 1] = [one EXCEPT ![c].puk = n]
    BY <2>1
  <2>3. n \in 0 .. PukUses
    BY <1>7, <1>8
  <2> HIDE DEF one, n
  <2>4. one[c] \in [counter : 0 .. 3, puk : 0 .. PukUses, changed : BOOLEAN]
    BY <2>1 DEF CardRecords
  <2>5. [one[c] EXCEPT !.puk = n]
          \in [counter : 0 .. 3, puk : 0 .. PukUses, changed : BOOLEAN]
    BY <2>3, <2>4
  <2>6. QED
    BY <2>1, <2>2, <2>5 DEF CardRecords
<1>9. QED
  BY <1>1, <1>4, <1>6, <1>8 DEF CardRecords

LEMMA AuthenticationKeeps ==
  ASSUME PaceInv, NEW op, NEW refusals, AuthenticationCommand(op, refusals),
         refusals \subseteq {"PROTOCOL_ERROR", "UNEXPECTED_TRANSMIT_STATUS"},
         op \in {"DidAuthenticateEAC1", "DidAuthenticateEAC2", "Transmit"},
         UNCHANGED canAllowedMode
  PROVE  PaceInv'
<1>1. Pending(op)
  BY DEF AuthenticationCommand
<1>2. CASE Fail({"OK"})
  BY <1>1, <1>2, FailKeeps, BrokenCodes
<1>3. CASE Fail({"CARD_NOT_FOUND", "COMMAND_FAILED"} \cup refusals)
  <2>1. {"CARD_NOT_FOUND", "COMMAND_FAILED"} \cup refusals \subseteq Codes
    BY BrokenCodes
  <2>2. QED
    BY <1>1, <1>3, <2>1, FailKeeps
<1>4. QED
  BY <1>2, <1>3 DEF AuthenticationCommand

LEMMA EstablishPinKeeps ==
  ASSUME PaceInv, EstablishPacePin, UNCHANGED canAllowedMode
  PROVE  PaceInv'
<1> DEFINE c == CardIn(R)
<1>1. /\ Pending("EstablishPaceChannel") /\ jobs[1].type = "PACE_PIN"
      /\ R \in Readers /\ reader[R] \in ReaderStates
  BY PendingFacts DEF EstablishPacePin
<1>2. CASE Fail(BrokenPace(R) \cup GivenUp(R))
  <2>1. BrokenPace(R) \cup GivenUp(R) \subseteq Codes \ {"OK"}
    BY BrokenCodes
  <2>2. QED
    BY <1>1, <1>2, <2>1, FailKeeps
<1>3. ASSUME Alive(R), CounterOf(c) > 0, NEW p \in Typed, p = c,
             \E code \in {"OK"} \cup BrokenPace(R) :
               Answer(code, [card EXCEPT ![c].counter = 3], "pin"),
             spent' = spent \ {c}, UNCHANGED ctx
      PROVE  PaceInv'
  <2>1. c \in Cards /\ c # NoCard
    BY <1>1, <1>3 DEF Alive, CardIn, ReaderStates
  <2>2. PICK code \in {"OK"} \cup BrokenPace(R) :
          Answer(code, [card EXCEPT ![c].counter = 3], "pin")
    BY <1>3
  <2>3. /\ code \in Codes /\ "pin" \in Sessions /\ spent' \subseteq Cards
        /\ reader[R].card # NoCard
    BY <1>3, <2>1, <2>2, BrokenCodes DEF Sessions, PaceInv, PaceTypeOK, CardIn
  <2>4. [card EXCEPT ![c].counter = 3] \in CardRecords
    BY <2>1, CardTypes
  <2> HIDE DEF c
  <2>5. QED
    BY <1>1, <1>3, <2>2, <2>3, <2>4, AnswerKeeps
<1>4. ASSUME Alive(R), CounterOf(c) > 0, NEW p \in Typed,
             \E code \in {"INVALID_PIN"} \cup BrokenPace(R) :
               Answer(code, [card EXCEPT ![c].counter = @ - 1], "open"),
             spent' = IF IsBasic(R) /\ ~ctx.doubted THEN spent \cup {c} ELSE spent,
             UNCHANGED ctx
      PROVE  PaceInv'
  <2>1. c \in Cards
    BY <1>1, <1>4 DEF Alive, CardIn, ReaderStates
  <2>2. PICK code \in {"INVALID_PIN"} \cup BrokenPace(R) :
          Answer(code, [card EXCEPT ![c].counter = @ - 1], "open")
    BY <1>4
  <2>3. /\ code \in Codes \ {"OK"} /\ "open" \in Sessions /\ spent' \subseteq Cards
    BY <1>4, <2>1, <2>2, BrokenCodes DEF Sessions, PaceInv, PaceTypeOK
  <2>4. [card EXCEPT ![c].counter = @ - 1] \in CardRecords
    BY <1>4, <2>1, CardTypes
  <2> HIDE DEF c
  <2>5. QED
    BY <1>1, <1>4, <2>2, <2>3, <2>4, AnswerKeeps
<1>5. QED
  BY <1>2, <1>3, <1>4 DEF EstablishPacePin

LEMMA EstablishCanKeeps ==
  ASSUME PaceInv, EstablishPaceCan, UNCHANGED canAllowedMode
  PROVE  PaceInv'
<1>1. /\ Pending("EstablishPaceChannel") /\ jobs[1].type = "PACE_CAN"
      /\ R \in Readers
  BY PendingFacts DEF EstablishPaceCan
<1>2. CASE Fail(BrokenPace(R) \cup GivenUp(R))
  <2>1. BrokenPace(R) \cup GivenUp(R) \subseteq Codes \ {"OK"}
    BY BrokenCodes
  <2>2. QED
    BY <1>1, <1>2, <2>1, FailKeeps
<1>3. CASE /\ Alive(R)
           /\ \E p \in Typed :
                \E code \in BrokenPace(R)
                     \cup {IF p = CardIn(R) THEN "OK" ELSE "INVALID_CAN"} :
                  Answer(code, card, IF p = CardIn(R) THEN "can" ELSE "open")
           /\ UNCHANGED <<ctx, spent>>
  <2>0. PICK p \in Typed :
          \E code \in BrokenPace(R)
               \cup {IF p = CardIn(R) THEN "OK" ELSE "INVALID_CAN"} :
            Answer(code, card, IF p = CardIn(R) THEN "can" ELSE "open")
    BY <1>3
  <2>1. PICK code \in BrokenPace(R)
                     \cup {IF p = CardIn(R) THEN "OK" ELSE "INVALID_CAN"} :
          Answer(code, card, IF p = CardIn(R) THEN "can" ELSE "open")
    BY <2>0
  <2>2. /\ code \in Codes /\ spent' \subseteq Cards
        /\ code = "OK" => p = CardIn(R)
        /\ reader[R].card # NoCard
        /\ card \in CardRecords
    BY <1>3, <2>1, BrokenCodes
       DEF PaceInv, PaceTypeOK, Alive, CardIn
  <2> DEFINE ss == IF p = CardIn(R) THEN "can" ELSE "open"
  <2>3. ss \in Sessions /\ (code = "OK" => ss = "can")
    BY <2>2 DEF Sessions
  <2>4. Answer(code, card, ss)
    BY <2>1
  <2> HIDE DEF ss
  <2>5. QED
    BY <1>1, <1>3, <2>2, <2>3, <2>4, AnswerKeeps
<1>4. QED
  BY <1>2, <1>3 DEF EstablishPaceCan

LEMMA UnblockKeeps ==
  ASSUME PaceInv, UnblockPin, UNCHANGED canAllowedMode
  PROVE  PaceInv'
<1> DEFINE c == CardIn(R)
<1>1. /\ Pending("UnblockPin") /\ R \in Readers /\ reader[R] \in ReaderStates
      /\ spent \subseteq Cards /\ card \in CardRecords /\ "open" \in Sessions
  BY PendingFacts DEF UnblockPin, PaceInv, PaceTypeOK, Sessions
<1>2. CASE Fail({"PIN_NOT_BLOCKED"})
  BY <1>1, <1>2, FailKeeps, BrokenCodes
<1>3. CASE Fail(BrokenPace(R) \cup GivenUp(R))
  <2>1. BrokenPace(R) \cup GivenUp(R) \subseteq Codes \ {"OK"}
    BY BrokenCodes
  <2>2. QED
    BY <1>1, <1>3, <2>1, FailKeeps
<1>4. ASSUME UNCHANGED <<ctx, spent>>,
             NEW code \in {"INVALID_PUK", "COMMAND_FAILED", "PUK_INOPERATIVE"},
             Answer(code, card, "open")
      PROVE  PaceInv'
  BY <1>1, <1>4, BrokenCodes, AnswerKeeps
<1>5. ASSUME UNCHANGED ctx, spent' = spent \ {c}, Alive(R), card[c].puk > 0,
             NEW code \in {"OK", "COMMAND_FAILED"},
             Answer(code, [card EXCEPT ![c].counter = 3, ![c].puk = @ - 1], "open")
      PROVE  PaceInv'
  <2>1. c \in Cards
    BY <1>1, <1>5 DEF Alive, CardIn, ReaderStates
  <2>2. [card EXCEPT ![c].counter = 3, ![c].puk = @ - 1] \in CardRecords
    BY <1>5, <2>1, CardTypes
  <2> HIDE DEF c
  <2>3. QED
    BY <1>1, <1>5, <2>2, BrokenCodes, AnswerKeeps
<1>6. QED
  BY <1>2, <1>3, <1>4, <1>5 DEF UnblockPin

LEMMA SetPinKeeps ==
  ASSUME PaceInv, SetEidPin, UNCHANGED canAllowedMode
  PROVE  PaceInv'
<1> DEFINE c == CardIn(R)
           b == card[c].changed \/ ~IsBasic(R) \/ Head(jobs).pw # NoPassword
<1>1. /\ Pending("SetEidPin") /\ R \in Readers /\ reader[R] \in ReaderStates
      /\ spent \subseteq Cards
  BY PendingFacts DEF SetEidPin, PaceInv, PaceTypeOK
<1>2. ASSUME Alive(R), NEW code \in {"OK", "COMMAND_FAILED"},
             Answer(code, [card EXCEPT ![CardIn(R)].changed =
                             @ \/ ~IsBasic(R) \/ Head(jobs).pw # NoPassword],
                    reader[R].session),
             UNCHANGED <<ctx, spent>>
      PROVE  PaceInv'
  <2>1. c \in Cards /\ reader[R].session \in Sessions
    BY <1>1, <1>2 DEF Alive, CardIn, ReaderStates
  <2>2. card \in CardRecords /\ card[c].changed \in BOOLEAN
    BY <2>1 DEF PaceInv, PaceTypeOK, CardRecords
  <2>3. b \in BOOLEAN
    BY <2>2
  <2>4. [card EXCEPT ![c].changed =
           @ \/ ~IsBasic(R) \/ Head(jobs).pw # NoPassword]
          = [card EXCEPT ![c].changed = b]
    BY <2>1, <2>2 DEF CardRecords
  <2>5. [card EXCEPT ![c].changed = b] \in CardRecords
    BY <2>1, <2>3, CardTypes
  <2>6. Answer(code, [card EXCEPT ![c].changed = b], reader[R].session)
    BY <1>2, <2>4
  <2> HIDE DEF c, b
  <2>7. QED
    BY <1>1, <1>2, <2>1, <2>5, <2>6, BrokenCodes, AnswerKeeps
<1>3. CASE Fail({"CARD_NOT_FOUND"}) \/ Fail({"COMMAND_FAILED"})
  BY <1>1, <1>3, FailKeeps, BrokenCodes
<1>4. CASE Fail(GivenUp(R) \cup {"NEW_PIN_MISMATCH", "NEW_PIN_INVALID_LENGTH",
                                 "PROTOCOL_ERROR"})
  <2>1. GivenUp(R) \cup {"NEW_PIN_MISMATCH", "NEW_PIN_INVALID_LENGTH",
                         "PROTOCOL_ERROR"} \subseteq Codes
    BY BrokenCodes
  <2>2. QED
    BY <1>1, <1>4, <2>1, FailKeeps
<1>5. QED
  BY <1>2, <1>3, <1>4 DEF SetEidPin

LEMMA DestroyChannelKeeps ==
  ASSUME PaceInv, DestroyPaceChannel, UNCHANGED canAllowedMode
  PROVE  PaceInv'
<1> DEFINE ss == IF reader[R].session = "closed" THEN "closed" ELSE "open"
<1>1. /\ Pending("DestroyPaceChannel") /\ Answer("OK", card, ss)
      /\ UNCHANGED <<ctx, spent>> /\ ss \in Sessions
  BY DEF DestroyPaceChannel, Sessions
<1>2. card \in CardRecords /\ spent \subseteq Cards /\ "OK" \in Codes
  BY BrokenCodes DEF PaceInv, PaceTypeOK
<1> HIDE DEF ss
<1>3. QED
  BY <1>1, <1>2, AnswerKeeps

(* Another counter for the card in a reader: CardConnection is told, or is *)
(* left in doubt.                                                          *)
Informed(n, doubted) == [ctx EXCEPT !.conn.counter = n, !.doubted = doubted]

LEMMA InfoKeeps ==
  ASSUME PaceInv, NEW r \in Readers, NEW n \in Counters,
         NEW doubted \in BOOLEAN, NEW d, d = Informed(n, doubted)
  PROVE  /\ d \in Contexts
         /\ d.pw = ctx.pw /\ d.paceType = ctx.paceType
         /\ d.readerName = ctx.readerName /\ d.vanished = ctx.vanished
         /\ d.last = ctx.last /\ d.status = ctx.status /\ d.killed = ctx.killed
         /\ d.doubted = doubted
         /\ d.conn.reader = ctx.conn.reader /\ d.conn.counter = n
         /\ (ctx.conn.reader = r) => HasConnection(d) /\ HasConnection(ctx)
<1>1. ctx \in Contexts /\ ctx.conn \in Connections
  BY ContextTypes DEF PaceInv, PaceTypeOK
<1>2. [ctx.conn EXCEPT !.counter = n] \in Connections
  BY <1>1 DEF Connections
<1>3. d \in Contexts /\ d.conn = [ctx.conn EXCEPT !.counter = n]
  BY <1>1, <1>2 DEF Informed, Contexts
<1>4. d.conn.reader = ctx.conn.reader /\ d.conn.counter = n
  BY <1>1, <1>3 DEF Connections
<1>5. ctx.conn.reader = r => HasConnection(d) /\ HasConnection(ctx)
  BY <1>4, NoConnectionTypes DEF HasConnection
<1>6. QED
  BY <1>1, <1>3, <1>4, <1>5 DEF Informed, Contexts

(* What the CardConnection is told of a reading.                           *)
LEMMA CounterReadFacts ==
  ASSUME PaceInv, R \in Readers, NEW n \in Counters, NEW told \in BOOLEAN
  PROVE  LET d == CounterRead(n, told)
         IN /\ d \in Contexts
            /\ d.pw = ctx.pw /\ d.paceType = ctx.paceType
            /\ d.readerName = ctx.readerName /\ d.vanished = ctx.vanished
            /\ d.last = ctx.last /\ d.status = ctx.status /\ d.killed = ctx.killed
            /\ d.doubted <=>
                 (ctx.doubted \/ (ctx.conn.reader = R /\ Doubtful(CardIn(R), n)))
            /\ d.conn.reader = ctx.conn.reader
            /\ d.conn.counter =
                 IF ctx.conn.reader = R /\ told /\ n # reader[R].counter
                   THEN n ELSE ctx.conn.counter
            /\ d.expectedReader = ctx.expectedReader
            /\ d.expectedCounter = ctx.expectedCounter
            /\ d.conn.paceCan = ctx.conn.paceCan
            /\ d.conn.pacePin = ctx.conn.pacePin
            /\ HasConnection(d) <=> HasConnection(ctx)
<1>1. ctx \in Contexts /\ ctx.conn \in Connections /\ ctx.doubted \in BOOLEAN
  BY ContextTypes DEF PaceInv, PaceTypeOK, Contexts
<1>2. CASE ctx.conn.reader # R
  BY <1>1, <1>2 DEF CounterRead
<1>3. CASE ctx.conn.reader = R
  <2> DEFINE m == IF told /\ n # reader[R].counter THEN n ELSE ctx.conn.counter
             doubted == ctx.doubted \/ Doubtful(CardIn(R), n)
             d == Informed(m, doubted)
  <2>1. m \in Counters /\ doubted \in BOOLEAN
    BY <1>1 DEF Connections, Doubtful
  <2>2. CounterRead(n, told) = d
    BY <1>1, <1>3 DEF CounterRead, Informed, Contexts, Connections
  <2>3. /\ d.expectedReader = ctx.expectedReader
        /\ d.expectedCounter = ctx.expectedCounter
        /\ d.conn.paceCan = ctx.conn.paceCan
        /\ d.conn.pacePin = ctx.conn.pacePin
    BY <1>1 DEF Informed, Contexts, Connections
  <2> HIDE DEF m, doubted
  <2>4. /\ d \in Contexts
        /\ d.pw = ctx.pw /\ d.paceType = ctx.paceType
        /\ d.readerName = ctx.readerName /\ d.vanished = ctx.vanished
        /\ d.last = ctx.last /\ d.status = ctx.status /\ d.killed = ctx.killed
        /\ d.doubted = doubted
        /\ d.conn.reader = ctx.conn.reader /\ d.conn.counter = m
        /\ HasConnection(d) /\ HasConnection(ctx)
    BY <1>3, <2>1, InfoKeeps
  <2>5. QED
    BY <1>3, <2>2, <2>3, <2>4 DEF m, doubted
<1>4. QED
  BY <1>2, <1>3

(* A card whose counter is read.                                           *)
LEMMA ReadingTypes ==
  ASSUME NEW c \in Cards, card \in CardRecords, NEW n \in Readings(c)
  PROVE  /\ n \in Counters /\ c # NoCard
         /\ ~Doubtful(c, n) => n = card[c].counter /\ n # -1
<1>1. card[c].counter \in 0 .. 3 /\ c # NoCard
  BY ConstantsAssumption DEF CardRecords
<1>2. QED
  BY <1>1 DEF Readings, CounterOf, Doubtful, Counters

LEMMA UpdateCommandKeeps ==
  ASSUME PaceInv, UpdateRetryCounter, UNCHANGED canAllowedMode
  PROVE  PaceInv'
<1>1. /\ Pending("UpdateRetryCounter") /\ R \in Readers
      /\ reader \in [Readers -> ReaderStates] /\ reader[R] \in ReaderStates
      /\ ctx \in Contexts /\ card \in CardRecords
  BY PendingFacts DEF UpdateRetryCounter, PaceInv, PaceTypeOK
<1>2. CASE Fail({"COMMAND_FAILED"})
  BY <1>1, <1>2, FailKeeps, BrokenCodes
<1> DEFINE told == reader[R].counter # -1
<1>3. ASSUME Alive(R), NEW n \in Readings(CardIn(R)),
             reader' = [reader EXCEPT ![R].counter = n],
             ctx' = CounterRead(n, told),
             jobs' = [jobs EXCEPT ![1].result = "OK"],
             UNCHANGED <<state, phase, cancelDue, card, spent>>
      PROVE  PaceInv'
  <2>1. /\ reader[R].card # NoCard /\ reader[R].card \in Cards
        /\ CardIn(R) = reader[R].card
    BY <1>1, <1>3 DEF Alive, CardIn, ReaderStates
  <2>2. n \in Counters
    BY <1>1, <1>3, <2>1, ReadingTypes
  <2>3. /\ reader' \in [Readers -> ReaderStates]
        /\ \A r \in Readers : /\ r # R => reader'[r] = reader[r]
                              /\ reader'[r].card = reader[r].card
        /\ reader'[R].counter = n
    BY <1>1, <1>3, <2>2 DEF ReaderStates
  <2>4. /\ Stays
        /\ ctx'.doubted <=> (ctx.doubted \/ (ctx.conn.reader = R /\ Doubtful(CardIn(R), n)))
        /\ ctx'.conn.counter =
             IF ctx.conn.reader = R /\ told /\ n # reader[R].counter
               THEN n ELSE ctx.conn.counter
    BY <1>1, <1>3, <2>2, <2>3, CounterReadFacts DEF Stays
  <2>5. jobs' \in Seq(Jobs) /\ JobsFit' /\ ResultsTrue'
    <3> DEFINE op == "UpdateRetryCounter"
               code == "OK"
    <3>1. code \in Codes /\ Pending(op) /\ op # "CreateCardConnection"
      BY <1>1, BrokenCodes
    <3>2. ctx'.paceType = ctx.paceType /\ ctx'.conn.reader = ctx.conn.reader
      BY <2>4 DEF Stays
    <3>3. /\ \A r \in Readers : r # R => reader'[r] = reader[r]
          /\ reader'[R].card = reader[R].card /\ reader[R].card # NoCard
          /\ UNCHANGED <<state, phase, cancelDue>>
          /\ jobs' = [jobs EXCEPT ![1].result = code]
      BY <1>1, <1>3, <2>1, <2>3
    <3>4. op # "EstablishPaceChannel"
      OBVIOUS
    <3> HIDE DEF op, code
    <3>5. QED
      BY <3>1, <3>2, <3>3, <3>4, ResultWritten
  <2>6. PaceTypeOK'
    BY <1>3, <2>3, <2>4, <2>5 DEF PaceInv, PaceTypeOK, Stays
  <2>8. InfoFits(ctx)'
    <3>1. HasConnection(ctx) => ctx.conn.reader \in Readers
      BY DEF PaceInv, ContextFits, ConnectionFits, HasConnection
    <3>2. CASE ctx.conn.reader = R
      <4>1. ASSUME ~ctx'.doubted, HasConnection(ctx)'
            PROVE  /\ told /\ ~Doubtful(CardIn(R), n)
                   /\ ctx.conn.counter = reader[R].counter
        BY <2>1, <2>4, <3>2, <4>1
           DEF PaceInv, ContextFits, InfoFits, Stays, Doubtful
      <4>2. QED
        <5>1. ASSUME ~ctx'.doubted, HasConnection(ctx)'
              PROVE  /\ ctx'.conn.counter = n /\ ~Doubtful(reader[R].card, n)
                     /\ ctx'.conn.reader = R /\ reader'[R].card = reader[R].card
          BY <1>1, <2>1, <2>3, <2>4, <3>2, <4>1, <5>1 DEF Stays
        <5>2. QED
          BY <2>3, <5>1 DEF InfoFits
    <3>3. CASE ctx.conn.reader # R
      BY <2>3, <2>4, <3>1, <3>3 DEF PaceInv, ContextFits, InfoFits, Stays
    <3>4. QED
      BY <3>2, <3>3
  <2>9. ContextFits(state, ctx)'
    BY <2>4, <2>8, StaysFits DEF PaceInv
  <2>10. WaitFits'
    BY <1>3, <2>4 DEF PaceInv, WaitFits, Stays, HasError
  <2>11. QED
    BY <2>5, <2>6, <2>9, <2>10 DEF PaceInv
<1>4. QED
  BY <1>2, <1>3 DEF UpdateRetryCounter, ReadCounter

(* One signal answers all the commands that wait for a connection; what    *)
(* else they cause comes later, unheard.                                   *)
LEMMA WorkerCreatedKeeps ==
  ASSUME PaceInv, Pending("CreateCardConnection"), NEW code \in Codes,
         WorkerCreated(code),
         UNCHANGED <<state, phase, cancelDue, ctx>>,
         \A r \in Readers : /\ r # R => reader'[r] = reader[r]
                            /\ reader'[r].card = reader[r].card
  PROVE  /\ jobs' \in Seq(Jobs) /\ JobsFit' /\ ResultsTrue'
         /\ \A i \in 1 .. Len(jobs') :
              jobs'[i].op # "CreateCardConnection" =>
                i \in 1 .. Len(jobs) /\ jobs'[i] = jobs[i]
<1>1. /\ jobs \in Seq(Jobs) /\ 1 \in 1 .. Len(jobs)
      /\ jobs[1].op = "CreateCardConnection"
      /\ jobs[1].reader = R /\ R \in Readers
      /\ \A i \in 1 .. Len(jobs) : jobs[i].op # "CreateCardConnection"
                                     => jobs[i].result = "PENDING"
  BY PendingFacts
<1>2. Cardinality(Others) \in Nat
  <2>1. Len(jobs) \in Int /\ 2 \in Int
    BY <1>1
  <2>2. IsFiniteSet(2 .. Len(jobs))
    BY <2>1, FS_Interval
  <2>3. Others \subseteq 2 .. Len(jobs)
    BY DEF Others
  <2>4. QED
    BY <2>2, <2>3, FS_Subset, FS_CardinalityType
<1> DEFINE n == Cardinality(Others)
           answered(i) == [jobs[i] EXCEPT !.result = code, !.reader = R]
           dropped(i) == [jobs[i] EXCEPT !.heard = FALSE]
           f == [i \in DOMAIN jobs |->
                   IF i = 1 \/ i \in Others THEN answered(i) ELSE jobs[i]]
           g(later) == [i \in DOMAIN later |-> dropped(later[i])]
<1>3. PICK later \in [1 .. n -> Others] : jobs' = f \o g(later)
  BY DEF WorkerCreated
<1>4. \A i \in 1 .. Len(jobs) :
        /\ jobs[i] \in Jobs
        /\ answered(i) \in Jobs /\ answered(i).op = jobs[i].op
        /\ answered(i).heard = jobs[i].heard
        /\ dropped(i) \in Jobs /\ dropped(i).op = jobs[i].op
        /\ ~dropped(i).heard
  <2>1. ASSUME NEW i \in 1 .. Len(jobs)
        PROVE  /\ jobs[i] \in Jobs
               /\ answered(i) \in Jobs /\ answered(i).op = jobs[i].op
               /\ answered(i).heard = jobs[i].heard
               /\ dropped(i) \in Jobs /\ dropped(i).op = jobs[i].op
               /\ ~dropped(i).heard
    <3>1. jobs[i] \in Jobs
      BY <1>1
    <3>2. QED
      BY <1>1, <3>1 DEF Jobs
  <2>2. QED
    BY <2>1
<1> HIDE DEF n, answered, dropped
<1>5. \A i \in Others : /\ i \in 1 .. Len(jobs) /\ i # 1
                        /\ jobs[i].op = "CreateCardConnection"
                        /\ jobs[i].heard
  <2>1. Len(jobs) \in Nat
    BY <1>1
  <2>2. QED
    BY <2>1 DEF Others, Waits
<1>6. f \in Seq(Jobs) /\ Len(f) = Len(jobs)
  <2>1. DOMAIN jobs = 1 .. Len(jobs) /\ Len(jobs) \in Nat
    BY <1>1
  <2>2. f \in [1 .. Len(jobs) -> Jobs]
    BY <1>4, <2>1
  <2> HIDE DEF f
  <2>3. QED
    BY <2>1, <2>2
<1>7. DOMAIN later = 1 .. n /\ \A i \in 1 .. n : later[i] \in Others
  BY <1>3
<1>8. g(later) \in Seq(Jobs) /\ Len(g(later)) = n
  <2>1. g(later) \in [1 .. n -> Jobs] /\ n \in Nat
    BY <1>2, <1>4, <1>5, <1>7 DEF n
  <2> HIDE DEF g
  <2>2. QED
    BY <2>1
<1>9. /\ jobs' \in Seq(Jobs) /\ Len(jobs') = Len(jobs) + n
      /\ \A i \in 1 .. Len(jobs) : jobs'[i] = f[i]
      /\ \A i \in 1 .. Len(jobs') :
           i \notin 1 .. Len(jobs) =>
             i - Len(jobs) \in 1 .. n /\ jobs'[i] = g(later)[i - Len(jobs)]
  <2> HIDE DEF f, g
  <2>1. QED
    BY <1>1, <1>2, <1>3, <1>6, <1>8 DEF n
<1>10. \A i \in 1 .. Len(jobs) :
         jobs'[i] = IF i = 1 \/ i \in Others THEN answered(i) ELSE jobs[i]
  <2>1. DOMAIN jobs = 1 .. Len(jobs)
    BY <1>1
  <2>2. QED
    BY <1>9, <2>1
<1> HIDE DEF f
<1>11. (state # "ConnectCard") => n = 0
  <2>1. ASSUME NEW i \in Others PROVE state = "ConnectCard"
    <3>1. JobFits(i) /\ jobs[i].heard /\ jobs[i].op = "CreateCardConnection"
      BY <1>5 DEF PaceInv, JobsFit
    <3>2. QED
      BY <3>1 DEF CallFits, PaceStates, JobFits, PaceCalls
  <2>2. Others = {} => n = 0
    BY FS_EmptySet DEF n
  <2>3. QED
    BY <2>1, <2>2
<1>12. ASSUME NEW i \in 1 .. Len(jobs')
       PROVE  /\ JobFits(i)' /\ ResultTrue(i)'
              /\ jobs'[i].op # "CreateCardConnection" =>
                   i \in 1 .. Len(jobs) /\ jobs'[i] = jobs[i]
  <2>1. CASE i \notin 1 .. Len(jobs)
    <3>1. i - Len(jobs) \in 1 .. n /\ jobs'[i] = dropped(later[i - Len(jobs)])
      BY <1>7, <1>9, <2>1
    <3>2. ~jobs'[i].heard /\ jobs'[i].op = "CreateCardConnection"
      BY <1>4, <1>5, <1>7, <3>1
    <3>3. QED
      BY <3>2 DEF JobFits, ResultTrue
  <2>2. CASE i \in 1 .. Len(jobs) /\ (i = 1 \/ i \in Others)
    <3>1. jobs'[i] = answered(i)
      BY <1>10, <2>2
    <3>2. /\ jobs[i].op = "CreateCardConnection" /\ JobFits(i)
          /\ jobs'[i].op = "CreateCardConnection"
          /\ jobs'[i].heard = jobs[i].heard
      BY <1>1, <1>4, <1>5, <2>2, <3>1 DEF PaceInv, JobsFit
    <3>3. jobs[i].heard => state = "ConnectCard"
      BY <3>2 DEF CallFits, PaceStates, JobFits, PaceCalls
    <3>4. QED
      BY <3>2, <3>3 DEF JobFits, ResultTrue
  <2>3. CASE i \in 1 .. Len(jobs) /\ ~(i = 1 \/ i \in Others)
    <3>1. jobs'[i] = jobs[i] /\ jobs[i] \in Jobs /\ JobFits(i) /\ ResultTrue(i)
      BY <1>4, <1>10, <2>3 DEF PaceInv, JobsFit, ResultsTrue
    <3>2. state # "ConnectCard" => Len(jobs') = Len(jobs)
      BY <1>1, <1>9, <1>11
    <3>3. JobFits(i)'
      BY <2>3, <3>1, <3>2 DEF JobFits
    <3>4. ResultTrue(i)'
      <4>1. jobs[i].op \in {"EstablishPaceChannel", "UpdateRetryCounter"}
              => jobs[i].result = "PENDING"
        BY <1>1, <2>3
      <4>2. QED
        BY <3>1, <4>1 DEF ResultTrue
    <3>5. QED
      BY <2>3, <3>1, <3>3, <3>4
  <2>4. QED
    BY <2>1, <2>2, <2>3
<1>13. QED
  BY <1>9, <1>12 DEF JobsFit, ResultsTrue

LEMMA CreateKeeps ==
  ASSUME PaceInv, CreateCardConnection, UNCHANGED canAllowedMode
  PROVE  PaceInv'
<1>1. /\ Pending("CreateCardConnection") /\ R \in Readers /\ ctx \in Contexts
      /\ reader \in [Readers -> ReaderStates]
      /\ UNCHANGED <<state, phase, cancelDue, ctx, card, spent>>
  BY PendingFacts DEF CreateCardConnection, PaceInv, PaceTypeOK
<1>2. /\ reader' \in [Readers -> ReaderStates]
      /\ \A r \in Readers : /\ r # R => reader'[r] = reader[r]
                            /\ reader'[r].card = reader[r].card
                            /\ reader'[r].counter = reader[r].counter
  <2>1. CASE reader' = [reader EXCEPT ![R].session = "open"]
    BY <1>1, <2>1 DEF ReaderStates, Sessions
  <2>2. CASE UNCHANGED reader
    BY <1>1, <2>2
  <2>3. QED
    BY <2>1, <2>2 DEF CreateCardConnection
<1>3. PICK code \in {"OK", "COMMAND_FAILED"} : WorkerCreated(code)
  BY DEF CreateCardConnection
<1>4. jobs' \in Seq(Jobs) /\ JobsFit' /\ ResultsTrue'
  BY <1>1, <1>2, <1>3, WorkerCreatedKeeps, BrokenCodes
<1>5. PaceTypeOK'
  BY <1>1, <1>2, <1>4 DEF PaceInv, PaceTypeOK
<1>6. ContextFits(state, ctx)'
  BY <1>1, <1>2, StaysFits, InfoStays DEF PaceInv, Stays
<1>7. WaitFits'
  BY <1>1, <1>2 DEF PaceInv, WaitFits
<1>8. QED
  BY <1>4, <1>5, <1>6, <1>7 DEF PaceInv

(* No command breaks the invariant.                                        *)
LEMMA CommandKeeps ==
  ASSUME PaceInv, ExecuteCommand, UNCHANGED canAllowedMode
  PROVE  PaceInv'
<1>1. CASE \/ AuthenticationCommand("DidAuthenticateEAC1", {})
           \/ AuthenticationCommand("DidAuthenticateEAC2", {"PROTOCOL_ERROR"})
           \/ AuthenticationCommand("Transmit", {"UNEXPECTED_TRANSMIT_STATUS"})
  BY <1>1, AuthenticationKeeps
<1>2. CASE CreateCardConnection
  BY <1>2, CreateKeeps
<1>3. CASE UpdateRetryCounter
  BY <1>3, UpdateCommandKeeps
<1>4. CASE EstablishPacePin \/ EstablishPaceCan
  BY <1>4, EstablishPinKeeps, EstablishCanKeeps
<1>5. CASE UnblockPin \/ SetEidPin \/ DestroyPaceChannel
  BY <1>5, UnblockKeeps, SetPinKeeps, DestroyChannelKeeps
<1>6. QED
  BY <1>1, <1>2, <1>3, <1>4, <1>5 DEF ExecuteCommand

-----------------------------------------------------------------------------
(***************************************************************************)
(* Cards come and go.                                                      *)
(***************************************************************************)
LEMMA NothingSentFacts ==
  ASSUME PaceInv, NothingSentBefore
  PROVE  \A i \in 1 .. Len(jobs) : jobs[i].op # "CreateCardConnection"
                                     => jobs[i].result = "PENDING"
<1>1. jobs \in Seq(Jobs)
  BY DEF PaceInv, PaceTypeOK
<1>2. jobs # <<>> => Head(jobs) = jobs[1] /\ jobs[1].result = "PENDING"
  BY <1>1 DEF NothingSentBefore, Result
<1>3. ASSUME NEW i \in 1 .. Len(jobs), jobs[i].op # "CreateCardConnection"
      PROVE  jobs[i].result = "PENDING"
  <2>1. JobFits(i) /\ jobs # <<>>
    BY <1>1, <1>3 DEF PaceInv, JobsFit
  <2>2. i > 1 \/ i = 1
    BY <1>1
  <2>3. QED
    BY <1>2, <1>3, <2>1, <2>2 DEF JobFits
<1>4. QED
  BY <1>3

LEMMA InfoChangedFacts ==
  ASSUME PaceInv, NEW r \in Readers, NEW c, NEW n \in Counters
  PROVE  LET d == InfoChanged(r, c, n)
         IN /\ d \in Contexts
            /\ d.pw = ctx.pw /\ d.paceType = ctx.paceType
            /\ d.readerName = ctx.readerName /\ d.vanished = ctx.vanished
            /\ d.last = ctx.last /\ d.status = ctx.status /\ d.killed = ctx.killed
            /\ d.doubted <=> (ctx.doubted \/ (ctx.conn.reader = r /\ Doubtful(c, n)))
            /\ d.conn.reader = ctx.conn.reader
            /\ d.conn.counter =
                 IF ctx.conn.reader = r THEN n ELSE ctx.conn.counter
            /\ HasConnection(d) <=> HasConnection(ctx)
<1>1. ctx \in Contexts /\ ctx.doubted \in BOOLEAN
  BY DEF PaceInv, PaceTypeOK, Contexts
<1>2. CASE ctx.conn.reader = r
  <2> DEFINE doubted == ctx.doubted \/ Doubtful(c, n)
             d == Informed(n, doubted)
  <2>1. doubted \in BOOLEAN
    BY <1>1 DEF Doubtful
  <2>2. InfoChanged(r, c, n) = d
    BY <1>1, <1>2 DEF InfoChanged, Informed, Contexts
  <2> HIDE DEF doubted
  <2>3. /\ d \in Contexts
        /\ d.pw = ctx.pw /\ d.paceType = ctx.paceType
        /\ d.readerName = ctx.readerName /\ d.vanished = ctx.vanished
        /\ d.last = ctx.last /\ d.status = ctx.status /\ d.killed = ctx.killed
        /\ d.doubted = doubted
        /\ d.conn.reader = ctx.conn.reader /\ d.conn.counter = n
        /\ HasConnection(d) /\ HasConnection(ctx)
    BY <1>2, <2>1, InfoKeeps
  <2>4. QED
    BY <1>2, <2>2, <2>3 DEF doubted
<1>3. CASE ctx.conn.reader # r
  BY <1>1, <1>3 DEF InfoChanged
<1>4. QED
  BY <1>2, <1>3

(* The queue when a card comes or goes: no result depends on it yet.       *)
LEMMA JobsStay ==
  ASSUME PaceInv, NothingSentBefore, UNCHANGED jobs, ctx'.paceType = ctx.paceType,
         ctx'.conn.reader = ctx.conn.reader,
         \/ UNCHANGED <<state, phase>>
         \/ state = "SelectReader"
  PROVE  JobsFit' /\ ResultsTrue'
<1>1. ASSUME NEW i \in 1 .. Len(jobs') PROVE JobFits(i)' /\ ResultTrue(i)'
  <2>1. /\ i \in 1 .. Len(jobs) /\ JobFits(i) /\ ResultTrue(i)
        /\ jobs[i].op \in {"EstablishPaceChannel", "UpdateRetryCounter"}
             => jobs[i].result = "PENDING"
    BY NothingSentFacts DEF PaceInv, JobsFit, ResultsTrue
  <2>2. state = "SelectReader" => ~jobs[i].heard
    BY <2>1 DEF CallFits, PaceStates, JobFits, PaceCalls
  <2>3. JobFits(i)'
    BY <2>1, <2>2 DEF JobFits
  <2>4. ResultTrue(i)'
    BY <2>1, <2>2 DEF ResultTrue
  <2>5. QED
    BY <2>3, <2>4
<1>2. QED
  BY <1>1 DEF JobsFit, ResultsTrue

LEMMA InsertKeeps ==
  ASSUME PaceInv, NEW r \in Readers, NEW c \in Cards, InsertCard(r, c),
         UNCHANGED canAllowedMode
  PROVE  PaceInv'
<1>1. PICK n \in Readings(c) :
        /\ reader' = [reader EXCEPT ![r] =
                        [card |-> c, counter |-> n, session |-> "closed"]]
        /\ \/ /\ state = "SelectReader" /\ phase = "waiting"
              /\ Enter("ConnectCard")
              /\ ctx' = [InfoChanged(r, c, n) EXCEPT !.readerName = r]
              /\ UNCHANGED jobs
           \/ /\ state = "ConnectCard" /\ phase = "waiting" /\ r = ctx.readerName
              /\ Len(jobs) < MaxJobs
              /\ ctx' = InfoChanged(r, c, n)
              /\ jobs' = Append(jobs,
                           [op |-> "CreateCardConnection", reader |-> r,
                            type |-> "UNKNOWN", pw |-> NoPassword,
                            heard |-> TRUE, result |-> "PENDING"])
              /\ UNCHANGED <<state, phase>>
           \/ /\ ~(state = "SelectReader" /\ phase = "waiting")
              /\ ~(state = "ConnectCard" /\ phase = "waiting" /\ r = ctx.readerName)
              /\ ctx' = InfoChanged(r, c, n)
              /\ UNCHANGED <<state, phase, jobs>>
  BY DEF InsertCard
<1>2. /\ NothingSentBefore /\ UNCHANGED <<cancelDue, card, spent>>
      /\ ctx \in Contexts /\ jobs \in Seq(Jobs)
      /\ reader \in [Readers -> ReaderStates] /\ card \in CardRecords
  BY DEF InsertCard, PaceInv, PaceTypeOK
<1>3. n \in Counters /\ c # NoCard
  BY <1>1, <1>2, ReadingTypes
<1>4. /\ reader' \in [Readers -> ReaderStates]
      /\ reader'[r].card = c /\ reader'[r].counter = n
      /\ \A q \in Readers : q # r => reader'[q] = reader[q]
  BY <1>1, <1>2, <1>3 DEF ReaderStates, Sessions
<1> DEFINE d == InfoChanged(r, c, n)
<1>5. /\ d \in Contexts
      /\ d.pw = ctx.pw /\ d.paceType = ctx.paceType
      /\ d.readerName = ctx.readerName /\ d.vanished = ctx.vanished
      /\ d.last = ctx.last /\ d.status = ctx.status /\ d.killed = ctx.killed
      /\ d.doubted <=> ctx.doubted \/ (ctx.conn.reader = r /\ Doubtful(c, n))
      /\ d.conn.reader = ctx.conn.reader
      /\ d.conn.counter = IF ctx.conn.reader = r THEN n ELSE ctx.conn.counter
      /\ HasConnection(d) <=> HasConnection(ctx)
  BY <1>3, InfoChangedFacts
<1> HIDE DEF d
<1>6. /\ ctx' \in Contexts
      /\ ctx'.pw = ctx.pw /\ ctx'.paceType = ctx.paceType
      /\ ctx'.vanished = ctx.vanished /\ ctx'.last = ctx.last
      /\ ctx'.status = ctx.status /\ ctx'.killed = ctx.killed
      /\ ctx'.doubted <=> ctx.doubted \/ (ctx.conn.reader = r /\ Doubtful(c, n))
      /\ ctx'.conn.reader = ctx.conn.reader
      /\ ctx'.conn.counter = IF ctx.conn.reader = r THEN n ELSE ctx.conn.counter
      /\ HasConnection(ctx') <=> HasConnection(ctx)
      /\ \/ state' = state /\ phase' = phase /\ ctx'.readerName = ctx.readerName
         \/ /\ state = "SelectReader" /\ state' = "ConnectCard"
            /\ phase' = "entered" /\ ctx'.readerName = r
  <2>1. CASE /\ state = "SelectReader" /\ state' = "ConnectCard"
             /\ phase' = "entered" /\ ctx' = [d EXCEPT !.readerName = r]
    <3>1. ctx' \in Contexts /\ ctx'.readerName = r /\ ctx'.conn = d.conn
      BY <1>5, <2>1 DEF Contexts
    <3>2. QED
      BY <1>5, <2>1, <3>1 DEF Contexts, HasConnection
  <2>2. CASE ctx' = d /\ state' = state /\ phase' = phase
    BY <1>5, <2>2
  <2>3. QED
    BY <1>1, <2>1, <2>2 DEF d, Enter
<1>7. jobs' \in Seq(Jobs) /\ JobsFit' /\ ResultsTrue'
  <2>1. CASE UNCHANGED jobs
    BY <1>2, <1>6, <2>1, JobsStay
  <2> DEFINE job == [op |-> "CreateCardConnection", reader |-> r,
                     type |-> "UNKNOWN", pw |-> NoPassword,
                     heard |-> TRUE, result |-> "PENDING"]
  <2>2. CASE /\ state = "ConnectCard" /\ phase = "waiting"
             /\ UNCHANGED <<state, phase>> /\ jobs' = Append(jobs, job)
    <3>1. job \in Jobs /\ job.op = "CreateCardConnection"
      BY DEF Jobs, Operations, PaceTypes, Passwords
    <3> HIDE DEF job
    <3>2. /\ jobs' \in Seq(Jobs) /\ Len(jobs') = Len(jobs) + 1
          /\ jobs'[Len(jobs')] = job
          /\ \A i \in 1 .. Len(jobs) : jobs'[i] = jobs[i]
      BY <1>2, <2>2, <3>1
    <3>3. ASSUME NEW i \in 1 .. Len(jobs') PROVE JobFits(i)' /\ ResultTrue(i)'
      <4>1. CASE i \in 1 .. Len(jobs)
        <5>1. /\ JobFits(i) /\ ResultTrue(i) /\ jobs'[i] = jobs[i]
              /\ jobs[i].op \in {"EstablishPaceChannel", "UpdateRetryCounter"}
                   => jobs[i].result = "PENDING"
          BY <1>2, <3>2, <4>1, NothingSentFacts DEF PaceInv, JobsFit, ResultsTrue
        <5>2. JobFits(i)'
          BY <2>2, <5>1 DEF JobFits
        <5>3. ResultTrue(i)'
          BY <1>6, <5>1 DEF ResultTrue
        <5>4. QED
          BY <5>2, <5>3
      <4>2. CASE i = Len(jobs')
        <5>1. jobs'[i] = job /\ job.op = "CreateCardConnection"
          BY <3>1, <3>2, <4>2
        <5>2. CallFits(state, job.op)
          BY <2>2, <3>1 DEF CallFits, PaceStates, PaceCalls
        <5>3. QED
          BY <2>2, <5>1, <5>2 DEF JobFits, ResultTrue
      <4>3. QED
        BY <1>2, <3>2, <4>1, <4>2
    <3>4. QED
      BY <3>2, <3>3 DEF JobsFit, ResultsTrue
  <2>3. QED
    BY <1>1, <2>1, <2>2
<1>8. PaceTypeOK'
  BY <1>2, <1>4, <1>6, <1>7 DEF PaceInv, PaceTypeOK
<1>9. ConnectionFits(state, ctx)'
  BY <1>6 DEF PaceInv, ContextFits, ConnectionFits, HasConnection
<1>10. ErrorFits(state, ctx)'
  BY <1>2, <1>6 DEF PaceInv, ContextFits, ErrorFits, HasError
<1>11. HasConnection(ctx) => ctx.conn.reader \in Readers
  BY DEF PaceInv, ContextFits, ConnectionFits, HasConnection
<1>12. InfoFits(ctx)'
  BY <1>4, <1>6, <1>11 DEF PaceInv, ContextFits, InfoFits
<1>13. \A q \in Readers : reader[q].card # NoCard => reader'[q].card # NoCard
  BY <1>3, <1>4
<1>14. CardFits(state, ctx)'
  BY <1>6, <1>11, <1>13 DEF PaceInv, ContextFits, CardFits, HasError
<1>15. WaitFits'
  BY <1>2, <1>6 DEF PaceInv, WaitFits, HasError
<1>17. QED
  BY <1>7, <1>8, <1>9, <1>10, <1>12, <1>14, <1>15 DEF PaceInv, ContextFits

(* What a user interface lets pass: the main loop is quiet.                *)
LEMMA QuietFacts ==
  ASSUME PaceInv, Quiet
  PROVE  /\ ~cancelDue
         /\ state \notin {"VerifyRetryCounter", "PreparePace",
                          "ClearPacePasswordsOnError",
                          "ClearPacePasswordsBeforeDestroy"}
         /\ state = "MaintainCardConnection" => HasError(ctx)
  BY UiAssumption
     DEF Quiet, PaceInv, WaitFits, PaceStates, PaceWaits, ContextFits, ErrorFits

LEMMA RemoveKeeps ==
  ASSUME PaceInv, NEW r \in Readers, NEW gone, RemoveCard(r, gone),
         UNCHANGED canAllowedMode
  PROVE  PaceInv'
<1> DEFINE d == InfoChanged(r, NoCard, -1)
<1>1. /\ Quiet /\ NothingSentBefore /\ UNCHANGED <<cancelDue, card, spent>>
      /\ ctx \in Contexts /\ jobs \in Seq(Jobs)
      /\ reader \in [Readers -> ReaderStates] /\ ctx' = d
      /\ reader' = [reader EXCEPT ![r] =
                      [card |-> NoCard, counter |-> -1, session |-> "closed"]]
      /\ \/ state = "ConnectCard" /\ Enter("SelectReader") /\ jobs' = Unheard(jobs)
         \/ UNCHANGED <<state, phase, jobs>>
  BY DEF RemoveCard, PaceInv, PaceTypeOK
<1>2. -1 \in Counters
  BY DEF Counters
<1>3. /\ reader' \in [Readers -> ReaderStates]
      /\ reader'[r].card = NoCard /\ reader'[r].counter = -1
      /\ \A q \in Readers : q # r => reader'[q] = reader[q]
  BY <1>1, <1>2 DEF ReaderStates, Sessions
<1>4. /\ ctx' \in Contexts
      /\ ctx'.pw = ctx.pw /\ ctx'.paceType = ctx.paceType
      /\ ctx'.readerName = ctx.readerName /\ ctx'.vanished = ctx.vanished
      /\ ctx'.last = ctx.last /\ ctx'.status = ctx.status
      /\ ctx'.killed = ctx.killed
      /\ ctx'.doubted <=> ctx.doubted
      /\ ctx'.conn.reader = ctx.conn.reader
      /\ ctx'.conn.counter = IF ctx.conn.reader = r THEN -1 ELSE ctx.conn.counter
      /\ HasConnection(ctx') <=> HasConnection(ctx)
  <2>1. ~Doubtful(NoCard, -1)
    BY ConstantsAssumption DEF Doubtful
  <2>2. QED
    BY <1>1, <1>2, <2>1, InfoChangedFacts
<1> HIDE DEF d
<1>5. jobs' \in Seq(Jobs) /\ JobsFit' /\ ResultsTrue'
  <2>1. CASE jobs' = Unheard(jobs)
    <3>1. \A i \in 1 .. Len(jobs) :
            (i > 1 /\ jobs[i].op # "CreateCardConnection")
              => jobs[i].result = "PENDING"
      BY DEF PaceInv, JobsFit, JobFits
    <3>2. QED
      BY <1>1, <2>1, <3>1, UnheardFits
  <2>2. CASE UNCHANGED <<state, phase, jobs>>
    BY <1>1, <1>4, <2>2, JobsStay
  <2>3. QED
    BY <1>1, <2>1, <2>2
<1>6. \/ state = "ConnectCard" /\ state' = "SelectReader" /\ phase' = "entered"
      \/ state' = state /\ phase' = phase
  BY <1>1 DEF Enter
<1>7. PaceTypeOK'
  BY <1>1, <1>3, <1>4, <1>5, <1>6 DEF PaceInv, PaceTypeOK
<1>8. ConnectionFits(state, ctx)'
  BY <1>4, <1>6 DEF PaceInv, ContextFits, ConnectionFits, HasConnection
<1>9. ErrorFits(state, ctx)'
  BY <1>1, <1>4, <1>6 DEF PaceInv, ContextFits, ErrorFits, HasError
<1>10. HasConnection(ctx) => ctx.conn.reader \in Readers
  BY DEF PaceInv, ContextFits, ConnectionFits, HasConnection
<1>11. InfoFits(ctx)'
  BY <1>3, <1>4, <1>10, ConstantsAssumption DEF Doubtful, PaceInv, ContextFits, InfoFits
<1>12. CardFits(state, ctx)'
  <2>1. /\ state \notin {"VerifyRetryCounter", "PreparePace"}
        /\ state = "MaintainCardConnection" => HasError(ctx)
    BY <1>1, QuietFacts
  <2>2. QED
    BY <1>4, <1>6, <2>1 DEF PaceInv, ContextFits, CardFits, HasError
<1>13. WaitFits'
  BY <1>1, <1>4, <1>6 DEF PaceInv, WaitFits, HasError
<1>15. QED
  BY <1>5, <1>7, <1>8, <1>9, <1>11, <1>12, <1>13 DEF PaceInv, ContextFits

(* Nothing that happens around the machine breaks the invariant.           *)
LEMMA EnvironmentKeeps ==
  ASSUME PaceInv, Environment, UNCHANGED canAllowedMode
  PROVE  PaceInv'
  BY ReaderErrorKeeps, PlugInTypesKeep, InsertKeeps, RemoveKeeps DEF Environment

-----------------------------------------------------------------------------
(***************************************************************************)
(* Every step of the composite.                                            *)
(***************************************************************************)
LEMMA PaceStepKeeps ==
  ASSUME PaceInv, PaceStep, ExitsOutside, UNCHANGED canAllowedMode
  PROVE  PaceInv'
<1>1. CASE StateMaintainCardConnection
  BY <1>1, MaintainKeeps
<1>2. CASE StateClearPacePasswords("ClearPacePasswordsOnError", OnAbort)
  BY <1>2, ClearKeeps DEF ExitsOutside
<1>3. CASE StateSelectReader
  BY <1>3, SelectReaderKeeps
<1>4. CASE StateConnectCard \/ ConnectCardDone
  BY <1>4, ConnectCardKeeps, ConnectCardDoneKeeps
<1>5. CASE StateUpdateRetryCounter("UpdateRetryCounter", "MaintainCardConnection")
  <2>1. CallFits("UpdateRetryCounter", "UpdateRetryCounter")
    BY DEF CallFits, PaceStates, PaceCalls
  <2>2. QED
    BY <1>5, <2>1, UpdateKeeps
<1>6. CASE UpdateRetryCounterDone("UpdateRetryCounter", "VerifyRetryCounter",
                                  "MaintainCardConnection")
  BY <1>6, UpdateDoneKeeps
<1>7. CASE StateVerifyRetryCounter
  BY <1>7, VerifyKeeps
<1>8. CASE StatePreparePace
  BY <1>8, PrepareKeeps
<1>9. CASE StateEnterPacePassword
  BY <1>9, EnterPasswordKeeps
<1>10. CASE StateEstablishPaceChannel \/ EstablishPaceChannelDone
  BY <1>10, EstablishKeeps, EstablishDoneKeeps
<1>11. CASE StateUnfortunateCardPosition
  BY <1>11, UnfortunateKeeps
<1>12. CASE StateClearPacePasswords("ClearPacePasswordsBeforeDestroy", "DestroyPace")
  BY <1>12, ClearKeeps
<1>13. CASE StateDestroyPace("DestroyPace")
  <2>1. CallFits("DestroyPace", "DestroyPaceChannel")
    BY DEF CallFits, PaceStates, PaceCalls
  <2>2. QED
    BY <1>13, <2>1, DestroyKeeps
<1>14. CASE DestroyPaceDone("DestroyPace", "MaintainCardConnection")
  BY <1>14, DestroyDoneKeeps
<1>15. QED
  BY <1>1, <1>2, <1>3, <1>4, <1>5, <1>6, <1>7, <1>8, <1>9, <1>10, <1>11, <1>12,
     <1>13, <1>14 DEF PaceStep

(***************************************************************************)
(* Start, cancel and kill.  The controller's transitions say where         *)
(* fireAbort leads.                                                        *)
(***************************************************************************)
LEMMA StartKeeps ==
  ASSUME PaceInv, NEW first, StartMachine(first), UNCHANGED canAllowedMode,
         first = "MaintainCardConnection" \/ first \notin PaceStates,
         ~HasConnection(ctx), jobs = <<>>
  PROVE  PaceInv'
<1>1. /\ state' = first
      /\ phase' = IF ctx.killed THEN "waiting" ELSE "entered"
      /\ UNCHANGED <<cancelDue, ctx, jobs, reader, card, spent>>
      /\ jobs' = <<>>
  BY DEF StartMachine
<1>2. PaceTypeOK'
  BY <1>1 DEF PaceInv, PaceTypeOK
<1>3. JobsFit' /\ ResultsTrue'
  BY <1>1 DEF JobsFit, ResultsTrue
<1>4. ConnectionFits(state, ctx)' /\ InfoFits(ctx)' /\ CardFits(state, ctx)'
  BY <1>1 DEF PaceInv, ContextFits, ConnectionFits, InfoFits, CardFits,
              HasConnection, PaceStates
<1>5. ErrorFits(state, ctx)'
  <2>1. state # "UnfortunateCardPosition"
    BY DEF StartMachine
  <2>2. QED
    BY <1>1, <2>1 DEF PaceInv, ContextFits, ErrorFits, HasError, PaceStates
<1>6. WaitFits'
  BY <1>1 DEF PaceInv, WaitFits, PaceStates
<1>7. QED
  BY <1>2, <1>3, <1>4, <1>5, <1>6 DEF PaceInv, ContextFits

LEMMA CancelKeeps ==
  ASSUME PaceInv, NEW target, onUserCancelled(target), UNCHANGED canAllowedMode,
         cancelDue' = cancelDue \/ cancelDue' = FALSE,
         target \in PaceStates =>
           target \in {"MaintainCardConnection", "ClearPacePasswordsOnError"},
         target = state => state \notin PaceStates
  PROVE  PaceInv' /\ HasError(ctx')
<1> DEFINE s == "Workflow_Cancellation_By_User"
           u == updateStatus(ctx, s)
           c == CancelledContext
<1>1. s \in Statuses /\ s # "No_Error" /\ ctx \in Contexts /\ jobs \in Seq(Jobs)
      /\ "CANCELLATION_BY_USER" \in Codes
  BY DEF Statuses, Codes, Unrecoverable, PaceInv, PaceTypeOK
<1>2. /\ u \in Contexts
      /\ u.pw = ctx.pw /\ u.paceType = ctx.paceType /\ u.conn = ctx.conn
      /\ u.readerName = ctx.readerName /\ u.vanished = ctx.vanished
      /\ u.last = ctx.last /\ u.killed = ctx.killed /\ HasError(u)
      /\ u.doubted = ctx.doubted
  BY <1>1, UpdateStatusKeeps
<1>3. c = [u EXCEPT !.last = IF state = "EstablishPaceChannel"
                               THEN "CANCELLATION_BY_USER" ELSE @]
  BY DEF CancelledContext
<1> HIDE DEF u
<1>4. /\ c \in Contexts
      /\ c.pw = ctx.pw /\ c.paceType = ctx.paceType /\ c.conn = ctx.conn
      /\ c.readerName = ctx.readerName /\ c.vanished = ctx.vanished
      /\ c.killed = ctx.killed /\ HasError(c)
      /\ c.doubted = ctx.doubted
  <2>1. u.last \in Codes
    BY <1>2, ContextTypes
  <2> DEFINE l == IF state = "EstablishPaceChannel"
                    THEN "CANCELLATION_BY_USER" ELSE u.last
  <2>2. l \in Codes /\ c = [u EXCEPT !.last = l]
    BY <1>1, <1>3, <2>1
  <2> HIDE DEF l, c
  <2>3. QED
    BY <1>2, <2>2 DEF Contexts, HasError
<1> HIDE DEF c
<1>5. /\ ctx' = c /\ reader' = SessionsAfter(c, jobs')
      /\ UNCHANGED <<card, spent>>
      /\ \/ UNCHANGED <<state, phase, jobs>> /\ state \notin PaceStates
         \/ state' = target /\ phase' = "entered" /\ jobs' = Unheard(jobs)
  BY DEF onUserCancelled, Main, Enter, c
<1>6. /\ reader' \in [Readers -> ReaderStates]
      /\ \A q \in Readers : /\ reader'[q].card = reader[q].card
                            /\ reader'[q].counter = reader[q].counter
  BY <1>5, SessionsKeep DEF PaceInv
<1>7. jobs' \in Seq(Jobs) /\ JobsFit' /\ ResultsTrue'
  <2>1. CASE jobs' = Unheard(jobs)
    <3>1. \A i \in 1 .. Len(jobs) :
            (i > 1 /\ jobs[i].op # "CreateCardConnection")
              => jobs[i].result = "PENDING"
      BY DEF PaceInv, JobsFit, JobFits
    <3>2. QED
      BY <1>1, <2>1, <3>1, UnheardFits
  <2>2. CASE UNCHANGED <<state, phase, jobs>> /\ state \notin PaceStates
    <3>1. ASSUME NEW i \in 1 .. Len(jobs') PROVE JobFits(i)' /\ ResultTrue(i)'
      <4>1. i \in 1 .. Len(jobs) /\ JobFits(i) /\ ResultTrue(i) /\ jobs[i] \in Jobs
        BY <1>1, <2>2 DEF PaceInv, JobsFit, ResultsTrue
      <4>2. jobs[i].heard => jobs[i].op # "EstablishPaceChannel"
        BY <2>2, <4>1 DEF CallFits, PaceStates, JobFits, PaceCalls
      <4>3. JobFits(i)'
        BY <1>4, <1>5, <2>2, <4>1 DEF JobFits
      <4>4. ResultTrue(i)'
        <5>1. jobs[i].reader \in Readers
          BY <4>1 DEF Jobs
        <5>2. QED
          BY <1>4, <1>5, <1>6, <2>2, <4>1, <4>2, <5>1 DEF ResultTrue
      <4>5. QED
        BY <4>3, <4>4
    <3>2. QED
      BY <1>1, <2>2, <3>1 DEF JobsFit, ResultsTrue
  <2>3. QED
    BY <1>5, <2>1, <2>2
<1>8. PaceTypeOK'
  BY <1>4, <1>5, <1>6, <1>7 DEF PaceInv, PaceTypeOK
<1>9. \/ state' \notin PaceStates
      \/ state' \in {"MaintainCardConnection", "ClearPacePasswordsOnError"}
  BY <1>5
<1>10. ConnectionFits(state, ctx)'
  BY <1>4, <1>5, <1>9 DEF PaceInv, ContextFits, ConnectionFits, PaceStates
<1>11. HasConnection(ctx) => ctx.conn.reader \in Readers
  BY DEF PaceInv, ContextFits, ConnectionFits, HasConnection
<1>12. ErrorFits(state, ctx)'
  BY <1>4, <1>5, <1>9 DEF PaceInv, ContextFits, ErrorFits, PaceStates
<1>13. InfoFits(ctx)'
  BY <1>4, <1>5, <1>6, <1>11 DEF PaceInv, ContextFits, InfoFits, HasConnection
<1>14. CardFits(state, ctx)'
  BY <1>4, <1>5, <1>9 DEF CardFits, PaceStates
<1>15. WaitFits'
  BY <1>5, <1>9 DEF WaitFits, PaceStates
<1>17. QED
  BY <1>4, <1>5, <1>7, <1>8, <1>10, <1>12, <1>13, <1>14, <1>15
     DEF PaceInv, ContextFits

LEMMA KillKeeps ==
  ASSUME PaceInv, killWorkflow, UNCHANGED canAllowedMode
  PROVE  PaceInv' /\ HasError(ctx') /\ ctx'.doubted = ctx.doubted
<1>1. /\ ctx' = [ctx EXCEPT !.killed = TRUE, !.status = "Card_Cancellation_By_User"]
      /\ ctx \in Contexts /\ cancelDue' = (state # "Initial")
      /\ UNCHANGED <<state, phase, jobs, reader, card, spent>>
  BY DEF killWorkflow, PaceInv, PaceTypeOK
<1>2. "Card_Cancellation_By_User" \in Statuses
  <2>1. /\ toGlobalStatus["CANCELLATION_BY_USER"] = "Card_Cancellation_By_User"
        /\ "CANCELLATION_BY_USER" \in Codes
    BY DEF toGlobalStatus, Codes, Unrecoverable
  <2>2. QED
    BY <2>1, StatusTypes
<1>3. /\ ctx' \in Contexts /\ ctx'.killed /\ HasError(ctx')
      /\ ctx'.pw = ctx.pw /\ ctx'.paceType = ctx.paceType /\ ctx'.conn = ctx.conn
      /\ ctx'.readerName = ctx.readerName /\ ctx'.vanished = ctx.vanished
      /\ ctx'.last = ctx.last /\ ctx'.doubted = ctx.doubted
  BY <1>1, <1>2 DEF Contexts, HasError
<1>4. PaceTypeOK'
  BY <1>1, <1>3 DEF PaceInv, PaceTypeOK
<1>5. JobsFit' /\ ResultsTrue'
  <2>1. ASSUME NEW i \in 1 .. Len(jobs') PROVE JobFits(i)' /\ ResultTrue(i)'
    BY <1>1, <1>3 DEF PaceInv, JobsFit, JobFits, ResultsTrue, ResultTrue
  <2>2. QED
    BY <2>1 DEF JobsFit, ResultsTrue
<1>6. ConnectionFits(state, ctx)' /\ ErrorFits(state, ctx)'
  BY <1>1, <1>3 DEF PaceInv, ContextFits, ConnectionFits, ErrorFits, HasConnection
<1>7. InfoFits(ctx)' /\ CardFits(state, ctx)'
  <2>1. HasConnection(ctx') <=> HasConnection(ctx)
    BY <1>3 DEF HasConnection
  <2>2. InfoFits(ctx)'
    BY <1>1, <1>3, <2>1 DEF PaceInv, ContextFits, InfoFits
  <2>3. CardFits(state, ctx)'
    BY <1>1, <1>3, <2>1 DEF PaceInv, ContextFits, CardFits
  <2>4. QED
    BY <2>2, <2>3
<1>8. WaitFits'
  BY <1>1, <1>3 DEF PaceInv, WaitFits, HasConnection
<1>9. QED
  BY <1>3, <1>4, <1>5, <1>6, <1>7, <1>8 DEF PaceInv, ContextFits

(***************************************************************************)
(* Where a step of the composite leads: it stays inside, or it leaves with *)
(* an error and no password, or with a connection and its channel.         *)
(***************************************************************************)
ChannelStands ==
  /\ HasConnection(ctx') /\ ~HasError(ctx') /\ jobs' = <<>>
  /\ reader'[ctx'.conn.reader].session = IF canAllowedMode THEN "can" ELSE "pin"

Leaves ==
  \/ state' \in PaceStates \cup {"Unreachable"}
  \/ /\ state' = OnAbort /\ HasError(ctx')
     /\ \A k \in PasswordKinds : ctx'.pw[k] = NoPassword
  \/ state' = OnEstablished /\ ChannelStands

Moves ==
  /\ UNCHANGED <<cancelDue, card>> /\ ctx'.killed = ctx.killed
  /\ HasError(ctx) => HasError(ctx')
  /\ state = "MaintainCardConnection" => phase = "entered"
  /\ phase' = "waiting" => state' \in PaceStates \ {"MaintainCardConnection"}
  /\ state \in PaceStates /\ Leaves

(* run() or a callback that fires a transition inside the composite.       *)
LEMMA InsideMoves ==
  ASSUME state \in PaceStates, NEW s \in PaceStates \cup {"Unreachable"}, NEW c,
         Go(s, c) \/ Return(s, c),
         state = "MaintainCardConnection" => phase = "entered",
         c.killed = ctx.killed, HasError(ctx) => HasError(c)
  PROVE  Moves
<1>1. state' = s /\ phase' = "entered" /\ ctx' = c /\ UNCHANGED <<cancelDue, card>>
  BY DEF Go, Return, Enter, Main
<1>2. QED
  BY <1>1 DEF Moves, Leaves

(* run() that hands over a command, or waits.                              *)
LEMMA WaitMoves ==
  ASSUME state \in PaceStates, state # "MaintainCardConnection",
         UNCHANGED <<state, cancelDue, ctx, card>>
  PROVE  Moves
  BY DEF Moves, Leaves, HasError

LEMMA CallMoves ==
  ASSUME state \in PaceStates, state # "MaintainCardConnection",
         NEW op, NEW r, NEW type, NEW pw, Call(op, r, type, pw)
  PROVE  Moves
  BY WaitMoves DEF Call, Main

LEMMA RunMoves ==
  ASSUME PaceInv,
         \/ StateMaintainCardConnection
         \/ StateClearPacePasswords("ClearPacePasswordsOnError", OnAbort)
         \/ StateSelectReader \/ StateConnectCard
         \/ StateUpdateRetryCounter("UpdateRetryCounter", "MaintainCardConnection")
         \/ StateVerifyRetryCounter \/ StatePreparePace
         \/ StateEnterPacePassword \/ StateEstablishPaceChannel
         \/ StateUnfortunateCardPosition
         \/ StateClearPacePasswords("ClearPacePasswordsBeforeDestroy", "DestroyPace")
         \/ StateDestroyPace("DestroyPace")
  PROVE  Moves
<1>1. ctx \in Contexts /\ ContextFits(state, ctx)
  BY DEF PaceInv, PaceTypeOK
<1>2. CASE StateMaintainCardConnection
  <2>1. state = "MaintainCardConnection" /\ phase = "entered"
    BY <1>2 DEF StateMaintainCardConnection, Run
  <2>2. PICK s \in PaceStates, c \in Contexts :
          /\ Go(s, c) /\ c.killed = ctx.killed /\ (HasError(ctx) => HasError(c))
    <3> DEFINE maintained(s, c) ==
                 /\ s \in PaceStates /\ c \in Contexts /\ Go(s, c)
                 /\ c.killed = ctx.killed /\ (HasError(ctx) => HasError(c))
    <3>1. CASE Go("ClearPacePasswordsOnError",
                  updateStatus(ctx, toGlobalStatus[ctx.last]))
      <4>1. toGlobalStatus[ctx.last] \in Statuses
        BY <1>1, ContextTypes, StatusTypes
      <4>2. maintained("ClearPacePasswordsOnError",
                       updateStatus(ctx, toGlobalStatus[ctx.last]))
        BY <1>1, <3>1, <4>1, UpdateStatusKeeps DEF PaceStates
      <4>3. QED
        BY <4>2
    <3> DEFINE t(a) == IF HasConnection(ctx) THEN a ELSE "SelectReader"
    <3>2. CASE Go(t("UpdateRetryCounter"), resetPacePasswords(ctx))
      <4>1. maintained(t("UpdateRetryCounter"), resetPacePasswords(ctx))
        BY <1>1, <3>2, ResetKeeps DEF PaceStates, HasError
      <4>2. QED
        BY <4>1
    <3>3. CASE Go("SelectReader",
                  [ctx EXCEPT !.conn = NoConnection, !.last = "OK"])
      <4> DEFINE c == [ctx EXCEPT !.conn = NoConnection, !.last = "OK"]
      <4>1. c \in Contexts /\ c.killed = ctx.killed /\ c.status = ctx.status
        BY <1>1, NoConnectionTypes DEF Contexts, Codes
      <4>2. maintained("SelectReader", c)
        BY <3>3, <4>1 DEF PaceStates, HasError
      <4>3. QED
        BY <4>2
    <3>4. CASE Go("UpdateRetryCounter", [ctx EXCEPT !.last = "OK"])
      <4> DEFINE c == [ctx EXCEPT !.last = "OK"]
      <4>1. c \in Contexts /\ c.killed = ctx.killed /\ c.status = ctx.status
        BY <1>1 DEF Contexts, Codes
      <4>2. maintained("UpdateRetryCounter", c)
        BY <3>4, <4>1 DEF PaceStates, HasError
      <4>3. QED
        BY <4>2
    <3>5. CASE Go(t("VerifyRetryCounter"), ctx)
      <4>1. maintained(t("VerifyRetryCounter"), ctx)
        BY <1>1, <3>5 DEF PaceStates
      <4>2. QED
        BY <4>1
    <3>6. QED
      BY <1>2, <3>1, <3>2, <3>3, <3>4, <3>5 DEF StateMaintainCardConnection
  <2>3. QED
    BY <2>1, <2>2, InsideMoves DEF PaceStates
<1>3. CASE StateClearPacePasswords("ClearPacePasswordsOnError", OnAbort)
  <2>1. /\ state = "ClearPacePasswordsOnError" /\ HasError(ctx)
        /\ Go(OnAbort, resetPacePasswords(ctx))
    BY <1>1, <1>3 DEF StateClearPacePasswords, Run, ContextFits, ErrorFits
  <2>2. /\ state' = OnAbort /\ phase' = "entered"
        /\ ctx' = resetPacePasswords(ctx) /\ UNCHANGED <<cancelDue, card>>
    BY <2>1 DEF Go, Enter, Main
  <2>3. /\ HasError(ctx') /\ ctx'.killed = ctx.killed
        /\ \A k \in PasswordKinds : ctx'.pw[k] = NoPassword
    BY <1>1, <2>1, <2>2, ResetKeeps DEF HasError
  <2>4. QED
    BY <2>1, <2>2, <2>3 DEF Moves, Leaves, PaceStates
<1>4. CASE StateClearPacePasswords("ClearPacePasswordsBeforeDestroy", "DestroyPace")
  <2>1. /\ state = "ClearPacePasswordsBeforeDestroy"
        /\ Go("DestroyPace", resetPacePasswords(ctx))
    BY <1>4 DEF StateClearPacePasswords, Run
  <2>2. QED
    BY <1>1, <2>1, ResetKeeps, InsideMoves DEF PaceStates, HasError
<1>5. CASE StateSelectReader
  <2>1. state = "SelectReader"
    BY <1>5 DEF StateSelectReader, Run
  <2>2. ASSUME NEW r \in Readers, Select(r) PROVE Moves
    <3> DEFINE c == [ctx EXCEPT !.readerName = r]
    <3>1. /\ Go("ConnectCard", c) /\ c.killed = ctx.killed /\ c.status = ctx.status
      BY <1>1, <2>2 DEF Select, Contexts
    <3>2. QED
      BY <2>1, <3>1, InsideMoves DEF PaceStates, HasError
  <2>3. QED
    BY <1>5, <2>1, <2>2, WaitMoves DEF StateSelectReader, PaceStates
<1>6. CASE StateConnectCard
  <2>1. state = "ConnectCard"
    BY <1>6 DEF StateConnectCard, Run
  <2>2. QED
    BY <1>6, <2>1, WaitMoves, CallMoves DEF StateConnectCard, PaceStates
<1>7. CASE StateUpdateRetryCounter("UpdateRetryCounter", "MaintainCardConnection")
  <2>1. state = "UpdateRetryCounter"
    BY <1>7 DEF StateUpdateRetryCounter, Run
  <2>2. QED
    BY <1>7, <2>1, InsideMoves, CallMoves DEF StateUpdateRetryCounter, PaceStates
<1>8. CASE StateVerifyRetryCounter
  <2>1. state = "VerifyRetryCounter"
    BY <1>8 DEF StateVerifyRetryCounter, Run
  <2>2. Verified.killed = ctx.killed /\ Verified.status = ctx.status
    <3> DEFINE d == resetPacePasswords(ctx)
    <3>1. d \in Contexts /\ d.killed = ctx.killed /\ d.status = ctx.status
      BY <1>1, ResetKeeps
    <3> HIDE DEF d
    <3>2. Verified = ctx \/ Verified = [d EXCEPT !.expectedReader = ctx.readerName,
                                         !.expectedCounter = ctx.conn.counter]
      BY DEF Verified, d
    <3>3. QED
      BY <3>1, <3>2 DEF Contexts
  <2>3. QED
    BY <1>8, <2>1, <2>2, InsideMoves DEF StateVerifyRetryCounter, PaceStates, HasError
<1>9. CASE StatePreparePace
  <2>1. state = "PreparePace"
    BY <1>9 DEF StatePreparePace, Run
  <2>2. PICK type : \/ Go("MaintainCardConnection", [ctx EXCEPT !.paceType = type])
                    \/ Go("Unreachable", [ctx EXCEPT !.paceType = type])
                    \/ Go("EnterPacePassword", [ctx EXCEPT !.paceType = type])
                    \/ Go("EstablishPaceChannel", [ctx EXCEPT !.paceType = type])
    BY <1>9 DEF StatePreparePace, PreparePaceInCanAllowedMode, Prepare
  <2> DEFINE c == [ctx EXCEPT !.paceType = type]
  <2>3. c.killed = ctx.killed /\ c.status = ctx.status
    BY <1>1 DEF Contexts
  <2>4. QED
    BY <2>1, <2>2, <2>3, InsideMoves DEF PaceStates, HasError
<1>10. CASE StateEnterPacePassword
  <2>1. state = "EnterPacePassword"
    BY <1>10 DEF StateEnterPacePassword, Run
  <2>2. PICK c \in TypePassword :
          /\ Enter(IF HasError(c) THEN "MaintainCardConnection"
                                  ELSE "EstablishPaceChannel")
          /\ ctx' = c
    BY <1>10 DEF StateEnterPacePassword
  <2>3. c.killed = ctx.killed /\ c.status = ctx.status
    BY <1>1, <2>2 DEF TypePassword, Contexts
  <2>4. UNCHANGED <<cancelDue, card>>
    BY <1>10 DEF StateEnterPacePassword
  <2>5. QED
    BY <2>1, <2>2, <2>3, <2>4 DEF Moves, Leaves, Enter, PaceStates, HasError
<1>11. CASE StateEstablishPaceChannel
  <2>1. state = "EstablishPaceChannel"
    BY <1>11 DEF StateEstablishPaceChannel, Run
  <2>2. \/ Go("MaintainCardConnection", ctx)
        \/ Go("MaintainCardConnection", [ctx EXCEPT !.last = "OK"])
        \/ Go("MaintainCardConnection",
              [resetPacePasswords(ctx) EXCEPT !.last = "OK"])
        \/ \E op, r, type, pw : Call(op, r, type, pw)
    BY <1>11 DEF StateEstablishPaceChannel
  <2> DEFINE c == [ctx EXCEPT !.last = "OK"]
             e == resetPacePasswords(ctx)
             d == [e EXCEPT !.last = "OK"]
  <2>3. c.killed = ctx.killed /\ c.status = ctx.status
    BY <1>1 DEF Contexts
  <2>4. d.killed = ctx.killed /\ d.status = ctx.status
    <3>1. e \in Contexts /\ e.killed = ctx.killed /\ e.status = ctx.status
      BY <1>1, ResetKeeps
    <3> HIDE DEF e
    <3>2. QED
      BY <3>1 DEF Contexts
  <2>5. QED
    BY <2>1, <2>2, <2>3, <2>4, InsideMoves, CallMoves DEF PaceStates, HasError
<1>12. CASE StateUnfortunateCardPosition
  <2> DEFINE c == setNpaPositionVerified(ctx)
  <2>1. /\ state = "UnfortunateCardPosition" /\ Go("MaintainCardConnection", c)
        /\ c.killed = ctx.killed /\ c.status = ctx.status
    BY <1>1, <1>12
       DEF StateUnfortunateCardPosition, Run, setNpaPositionVerified, Contexts
  <2>2. QED
    BY <2>1, InsideMoves DEF PaceStates, HasError
<1>13. CASE StateDestroyPace("DestroyPace")
  <2>1. state = "DestroyPace"
    BY <1>13 DEF StateDestroyPace, Run
  <2>2. QED
    BY <1>13, <2>1, CallMoves DEF StateDestroyPace, PaceStates
<1>14. QED
  BY <1>2, <1>3, <1>4, <1>5, <1>6, <1>7, <1>8, <1>9, <1>10, <1>11, <1>12, <1>13

(* The callbacks of the commands.                                          *)
LEMMA EstablishDoneMoves ==
  ASSUME PaceInv, EstablishPaceChannelDone
  PROVE  Moves
<1> DEFINE c == AfterPace
<1>1. Heard("EstablishPaceChannel") /\ state = "EstablishPaceChannel"
  BY DEF EstablishPaceChannelDone, Heard
<1>2. /\ c \in Contexts /\ c.last = Result /\ c.killed = ctx.killed
      /\ c.status = ctx.status /\ ~HasError(c) /\ c.paceType = ctx.paceType
      /\ Result \notin CardVanished =>
           HasConnection(c) /\ c.conn.reader = ctx.conn.reader
      /\ ctx.conn.reader \in Readers
  BY <1>1, AfterPaceFacts
     DEF HasError, PaceInv, ContextFits, ConnectionFits, HasConnection
<1> HIDE DEF c
<1>3. ASSUME NEW s \in PaceStates, NEW d, Return(s, d),
             d.killed = c.killed, d.status = c.status \/ HasError(d)
      PROVE  Moves
  BY <1>1, <1>2, <1>3, InsideMoves DEF PaceStates, HasError
<1>4. CASE /\ Result = "OK" /\ Established(ctx.paceType)
           /\ Return(OnEstablished,
                     [c EXCEPT !.expectedCounter =
                        IF ctx.paceType = "PACE_PIN" THEN 3 ELSE @])
  <2> DEFINE d == [c EXCEPT !.expectedCounter =
                     IF ctx.paceType = "PACE_PIN" THEN 3 ELSE @]
  <2>1. d.conn = c.conn /\ d.killed = c.killed /\ d.status = c.status
    BY <1>2 DEF Contexts
  <2> HIDE DEF d
  <2>2. /\ state' = OnEstablished /\ phase' = "entered" /\ ctx' = d
        /\ jobs' = Unheard(Tail(jobs)) /\ reader' = SessionsAfter(d, jobs')
        /\ UNCHANGED <<cancelDue, card>>
    BY <1>4 DEF Return, Enter, Main, d
  <2>3. /\ Len(jobs) = 1 /\ jobs \in Seq(Jobs) /\ ResultTrue(1)
        /\ jobs[1].heard /\ jobs[1].reader = ctx.conn.reader
        /\ jobs[1].result = "OK" /\ jobs[1] \in Jobs
        /\ jobs[1].op \in {"EstablishPaceChannel", "UnblockPin"}
    <3>1. /\ Head(jobs) = jobs[1] /\ Head(jobs).heard
          /\ CallFits(state, Head(jobs).op)
          /\ Len(jobs) = 1 /\ jobs \in Seq(Jobs) /\ ResultTrue(1)
          /\ Head(jobs).reader = ctx.conn.reader /\ Head(jobs) \in Jobs
      BY <1>1, HeardFacts DEF Heard
    <3>2. QED
      BY <1>1, <1>4, <3>1 DEF CallFits, PaceStates, PaceCalls, Result
  <2>4. jobs' = <<>>
    <3> DEFINE js == Tail(jobs)
    <3>1. js \in Seq(Jobs) /\ Len(js) = 0
      <4>1. jobs # <<>> /\ jobs \in Seq(Jobs) /\ Len(jobs) = 1
        BY <1>1, <2>3, HeardFacts
      <4>2. QED
        BY <4>1, TailKeeps
    <3>2. jobs' = Unheard(js)
      BY <2>2
    <3> HIDE DEF js
    <3>3. Unheard(js) \in Seq(Jobs) /\ Len(Unheard(js)) = 0
      BY <3>1, UnheardKeeps
    <3>4. QED
      BY <3>2, <3>3
  <2>5. reader[ctx.conn.reader].session = IF canAllowedMode THEN "can" ELSE "pin"
    <3>1. ctx.paceType = IF canAllowedMode THEN "PACE_CAN" ELSE "PACE_PIN"
      BY <1>1, <1>4 DEF Established, PaceInv, ContextFits, ConnectionFits
    <3>2. jobs[1].op = "EstablishPaceChannel"
      BY <2>3, <3>1 DEF ResultTrue
    <3>3. /\ jobs[1].type = ctx.paceType
          /\ reader[jobs[1].reader].session =
               IF jobs[1].type = "PACE_PIN" THEN "pin" ELSE "can"
      BY <2>3, <3>2 DEF ResultTrue
    <3>4. QED
      BY <2>3, <3>1, <3>3
  <2>6. ~("OK" \in CardVanished)
    BY DEF CardVanished
  <2>7. d.conn.reader = ctx.conn.reader /\ HasConnection(d) /\ ~HasError(d)
    BY <1>2, <1>4, <2>1, <2>6 DEF HasConnection, HasError
  <2>8. reader'[d.conn.reader] = reader[d.conn.reader]
    BY <1>2, <2>2, <2>7, SessionsKeep DEF PaceInv
  <2>9. ChannelStands
    BY <2>2, <2>4, <2>5, <2>7, <2>8 DEF ChannelStands, HasConnection, HasError
  <2>10. QED
    BY <1>1, <1>2, <2>1, <2>2, <2>7, <2>9
       DEF Moves, Leaves, HasError, PaceStates
<1>5. CASE Return("MaintainCardConnection", c)
  BY <1>3, <1>5 DEF PaceStates
<1>6. CASE Return("ClearPacePasswordsBeforeDestroy",
                  [resetPacePasswords(c) EXCEPT !.expectedCounter = -1,
                                                !.last = "OK_PUK"])
  <2> DEFINE e == resetPacePasswords(c)
             d == [e EXCEPT !.expectedCounter = -1, !.last = "OK_PUK"]
  <2>1. e \in Contexts /\ e.killed = c.killed /\ e.status = c.status
    BY <1>2, ResetKeeps
  <2>2. d.killed = c.killed /\ d.status = c.status
    <3> HIDE DEF e
    <3>1. QED
      BY <2>1 DEF Contexts
  <2>3. QED
    BY <1>3, <1>6, <2>2 DEF PaceStates
<1>7. CASE /\ Result \in {"PUK_INOPERATIVE", "CANCELLATION_BY_USER"}
           /\ Return("MaintainCardConnection",
                     updateStatus(c, toGlobalStatus[Result]))
  <2>1. toGlobalStatus[Result] \in Statuses /\ toGlobalStatus[Result] # "No_Error"
    BY <1>1, <1>7, HeardFacts, StatusTypes
  <2>2. QED
    BY <1>2, <1>3, <1>7, <2>1, UpdateStatusKeeps DEF PaceStates
<1>8. CASE Return("ClearPacePasswordsBeforeDestroy",
                  [c EXCEPT !.last = RefinedInvalidPin])
  <2> DEFINE d == [c EXCEPT !.last = RefinedInvalidPin]
  <2>1. d.killed = c.killed /\ d.status = c.status
    BY <1>2 DEF Contexts
  <2>2. QED
    BY <1>3, <1>8, <2>1 DEF PaceStates
<1>9. CASE \E told \in isNpaRepositioningRequired(c) :
             Return(IF told THEN "UnfortunateCardPosition"
                            ELSE "MaintainCardConnection", c)
  BY <1>3, <1>9 DEF PaceStates
<1>10. QED
  BY <1>4, <1>5, <1>6, <1>7, <1>8, <1>9 DEF EstablishPaceChannelDone, c

LEMMA DoneMoves ==
  ASSUME PaceInv,
         \/ ConnectCardDone
         \/ UpdateRetryCounterDone("UpdateRetryCounter", "VerifyRetryCounter",
                                   "MaintainCardConnection")
         \/ DestroyPaceDone("DestroyPace", "MaintainCardConnection")
  PROVE  Moves
<1>1. ctx \in Contexts
  BY DEF PaceInv, PaceTypeOK
<1>2. CASE ConnectCardDone
  <2> DEFINE conn == [reader |-> Head(jobs).reader,
                      counter |-> reader[Head(jobs).reader].counter,
                      paceCan |-> FALSE, pacePin |-> FALSE]
             c == [ctx EXCEPT !.conn = conn,
                     !.doubted = Doubtful(CardIn(conn.reader), conn.counter)]
             d == [c EXCEPT !.doubted = TRUE]
  <2>1. /\ state = "ConnectCard"
        /\ c.killed = ctx.killed /\ c.status = ctx.status
        /\ d.killed = ctx.killed /\ d.status = ctx.status
    BY <1>1, <1>2 DEF ConnectCardDone, Heard, Contexts
  <2>2. \/ Return("MaintainCardConnection", ctx)
        \/ Return("UpdateRetryCounter", c)
        \/ Main(d, Tail(jobs)) /\ UNCHANGED <<state, phase, cancelDue>>
    BY <1>2 DEF ConnectCardDone
  <2> HIDE DEF c, d
  <2>3. CASE Main(d, Tail(jobs)) /\ UNCHANGED <<state, phase, cancelDue>>
    BY <2>1, <2>3 DEF Moves, Leaves, Main, PaceStates, HasError
  <2>4. QED
    BY <2>1, <2>2, <2>3, InsideMoves DEF PaceStates, HasError
<1>3. CASE UpdateRetryCounterDone("UpdateRetryCounter", "VerifyRetryCounter",
                                  "MaintainCardConnection")
  <2> DEFINE c == [ctx EXCEPT !.conn = NoConnection]
  <2>1. /\ state = "UpdateRetryCounter"
        /\ c.killed = ctx.killed /\ c.status = ctx.status
    BY <1>1, <1>3 DEF UpdateRetryCounterDone, Heard, Contexts
  <2>2. \/ Return("VerifyRetryCounter", ctx)
        \/ Return("MaintainCardConnection", c)
    BY <1>3 DEF UpdateRetryCounterDone
  <2>3. QED
    BY <2>1, <2>2, InsideMoves DEF PaceStates, HasError
<1>4. CASE DestroyPaceDone("DestroyPace", "MaintainCardConnection")
  BY <1>4, InsideMoves DEF DestroyPaceDone, Heard, PaceStates
<1>5. QED
  BY <1>2, <1>3, <1>4

LEMMA PaceStepMoves ==
  ASSUME PaceInv, PaceStep
  PROVE  Moves
  BY RunMoves, EstablishDoneMoves, DoneMoves DEF PaceStep

(***************************************************************************)
(* What the commands and the cards leave alone.                            *)
(***************************************************************************)
(* Of the context only what is known of the reader changes.                *)
ContextStays ==
  /\ ctx'.pw = ctx.pw /\ ctx'.status = ctx.status /\ ctx'.killed = ctx.killed
  /\ ctx'.conn.reader = ctx.conn.reader
  /\ HasConnection(ctx') <=> HasConnection(ctx)

(* The job that is heard was heard before; at most its result is new.      *)
HeardBefore(i) ==
  (jobs'[i].heard /\ jobs'[i].op # "CreateCardConnection") =>
    /\ i \in 1 .. Len(jobs) /\ jobs[i].heard /\ jobs'[i].op = jobs[i].op
    /\ jobs'[i].reader = jobs[i].reader /\ jobs'[i].pw = jobs[i].pw
    /\ jobs'[i].result # jobs[i].result => i = 1 /\ jobs[1].result = "PENDING"

CommandMoves ==
  /\ UNCHANGED <<state, phase, cancelDue>> /\ ContextStays
  /\ \A c \in Cards : card[c].changed => card'[c].changed
  /\ \A i \in 1 .. Len(jobs') : HeardBefore(i)

(* A command that writes its result.                                       *)
LEMMA ResultMoves ==
  ASSUME PaceInv, NEW op, Pending(op), NEW code,
         jobs' = [jobs EXCEPT ![1].result = code]
  PROVE  /\ \A i \in 1 .. Len(jobs') : HeardBefore(i)
         /\ jobs'[1].result = code
<1>1. /\ jobs \in Seq(Jobs) /\ 1 \in 1 .. Len(jobs) /\ jobs[1].op = op
      /\ jobs[1].result = "PENDING"
  BY PendingFacts
<1>2. /\ Len(jobs') = Len(jobs)
      /\ jobs'[1] = [jobs[1] EXCEPT !.result = code]
      /\ \A i \in 1 .. Len(jobs) : i # 1 => jobs'[i] = jobs[i]
  BY <1>1
<1>3. jobs[1] \in Jobs
  BY <1>1
<1>4. /\ jobs'[1].op = jobs[1].op /\ jobs'[1].reader = jobs[1].reader
      /\ jobs'[1].pw = jobs[1].pw /\ jobs'[1].heard = jobs[1].heard
      /\ jobs'[1].result = code
  BY <1>2, <1>3 DEF Jobs
<1>5. QED
  BY <1>1, <1>2, <1>4 DEF HeardBefore

LEMMA AnswerMoves ==
  ASSUME PaceInv, NEW op, Pending(op), NEW code, NEW cd, NEW ss,
         Answer(code, cd, ss), UNCHANGED ctx,
         \A c \in Cards : card[c].changed => cd[c].changed
  PROVE  CommandMoves
  BY ResultMoves DEF Answer, CommandMoves, ContextStays, HasConnection

LEMMA FailMoves ==
  ASSUME PaceInv, NEW op, Pending(op), NEW codes, Fail(codes)
  PROVE  CommandMoves
  BY AnswerMoves DEF Fail

(* The cards' counters change, and that a PIN was changed stays true.      *)
LEMMA CardMoves ==
  ASSUME PaceInv, NEW c \in Cards
  PROVE  \A d \in Cards : card[d].changed =>
           /\ [card EXCEPT ![c].counter = 3][d].changed
           /\ [card EXCEPT ![c].counter = @ - 1][d].changed
           /\ [card EXCEPT ![c].counter = 3, ![c].puk = @ - 1][d].changed
           /\ \A b : [card EXCEPT ![c].changed = @ \/ b][d].changed
  BY DEF PaceInv, PaceTypeOK, CardRecords

LEMMA CommandsMove ==
  ASSUME PaceInv, ExecuteCommand
  PROVE  CommandMoves
<1>1. CASE \/ AuthenticationCommand("DidAuthenticateEAC1", {})
           \/ AuthenticationCommand("DidAuthenticateEAC2", {"PROTOCOL_ERROR"})
           \/ AuthenticationCommand("Transmit", {"UNEXPECTED_TRANSMIT_STATUS"})
  BY <1>1, FailMoves DEF AuthenticationCommand
<1>2. CASE CreateCardConnection
  <2>1. /\ Pending("CreateCardConnection") /\ R \in Readers
        /\ reader \in [Readers -> ReaderStates]
        /\ UNCHANGED <<state, phase, cancelDue, ctx, card, spent>>
    BY <1>2, PendingFacts DEF CreateCardConnection
  <2>2. \A r \in Readers : /\ r # R => reader'[r] = reader[r]
                           /\ reader'[r].card = reader[r].card
    <3>1. CASE reader' = [reader EXCEPT ![R].session = "open"]
      BY <2>1, <3>1 DEF ReaderStates
    <3>2. QED
      BY <1>2, <3>1 DEF CreateCardConnection
  <2>3. PICK code \in {"OK", "COMMAND_FAILED"} : WorkerCreated(code)
    BY <1>2 DEF CreateCardConnection
  <2>4. \A i \in 1 .. Len(jobs') :
          jobs'[i].op # "CreateCardConnection" =>
            i \in 1 .. Len(jobs) /\ jobs'[i] = jobs[i]
    BY <2>1, <2>2, <2>3, WorkerCreatedKeeps, BrokenCodes
  <2>5. QED
    BY <2>1, <2>4 DEF CommandMoves, HeardBefore, ContextStays, HasConnection
<1>3. CASE UpdateRetryCounter
  <2>1. CASE Fail({"COMMAND_FAILED"})
    BY <1>3, <2>1, FailMoves DEF UpdateRetryCounter
  <2>2. ASSUME NEW n, jobs' = [jobs EXCEPT ![1].result = "OK"],
               UNCHANGED <<state, phase, cancelDue, card>>,
               NEW told, ctx' = CounterRead(n, told)
        PROVE  CommandMoves
    <3>1. \A i \in 1 .. Len(jobs') : HeardBefore(i)
      BY <1>3, <2>2, ResultMoves DEF UpdateRetryCounter
    <3>2. ctx \in Contexts /\ R \in Readers
      BY <1>3, PendingFacts DEF UpdateRetryCounter, PaceInv, PaceTypeOK
    <3>3. ContextStays
      BY <2>2, <3>2, NoConnectionTypes
         DEF CounterRead, Contexts, Connections, ContextStays, HasConnection
    <3>4. QED
      BY <2>2, <3>1, <3>3 DEF CommandMoves
  <2>3. QED
    BY <1>3, <2>1, <2>2 DEF UpdateRetryCounter, ReadCounter
<1> DEFINE c == CardIn(R)
<1>4. ASSUME NEW op, Pending(op), Alive(R) PROVE c \in Cards
  BY <1>4, PendingFacts DEF Alive, CardIn, ReaderStates
<1>5. CASE EstablishPacePin
  <2>1. ASSUME NEW code, NEW ss, Alive(R), UNCHANGED ctx,
               \/ Answer(code, [card EXCEPT ![c].counter = 3], ss)
               \/ Answer(code, [card EXCEPT ![c].counter = @ - 1], ss)
        PROVE  CommandMoves
    <3>1. c \in Cards /\ Pending("EstablishPaceChannel")
      BY <1>4, <1>5, <2>1 DEF EstablishPacePin
    <3>2. \A d \in Cards : card[d].changed =>
             /\ [card EXCEPT ![c].counter = 3][d].changed
             /\ [card EXCEPT ![c].counter = @ - 1][d].changed
      BY <3>1, CardMoves
    <3> HIDE DEF c
    <3>3. QED
      BY <2>1, <3>1, <3>2, AnswerMoves
  <2>2. QED
    BY <1>5, <2>1, FailMoves DEF EstablishPacePin
<1>6. CASE EstablishPaceCan
  BY <1>6, FailMoves, AnswerMoves DEF EstablishPaceCan
<1>7. CASE UnblockPin
  <2>1. ASSUME NEW code, NEW ss, Alive(R), UNCHANGED ctx,
               Answer(code, [card EXCEPT ![c].counter = 3, ![c].puk = @ - 1], ss)
        PROVE  CommandMoves
    <3>1. c \in Cards /\ Pending("UnblockPin")
      BY <1>4, <1>7, <2>1 DEF UnblockPin
    <3> DEFINE cd == [card EXCEPT ![c].counter = 3, ![c].puk = @ - 1]
    <3>2. \A d \in Cards : card[d].changed => cd[d].changed
      BY <3>1, CardMoves
    <3>3. Answer(code, cd, ss)
      BY <2>1
    <3> HIDE DEF cd
    <3>4. QED
      BY <2>1, <3>1, <3>2, <3>3, AnswerMoves
  <2>2. QED
    BY <1>7, <2>1, FailMoves, AnswerMoves DEF UnblockPin
<1>8. CASE SetEidPin
  <2>1. ASSUME NEW code, NEW b, NEW ss, Alive(R), UNCHANGED ctx,
               Answer(code, [card EXCEPT ![c].changed = @ \/ b], ss)
        PROVE  CommandMoves
    <3>1. c \in Cards /\ Pending("SetEidPin")
      BY <1>4, <1>8, <2>1 DEF SetEidPin
    <3> DEFINE cd == [card EXCEPT ![c].changed = @ \/ b]
    <3>2. \A d \in Cards : card[d].changed => cd[d].changed
      BY <3>1, CardMoves
    <3>3. Answer(code, cd, ss)
      BY <2>1
    <3> HIDE DEF cd
    <3>4. QED
      BY <2>1, <3>1, <3>2, <3>3, AnswerMoves
  <2>2. QED
    BY <1>8, <2>1, FailMoves DEF SetEidPin
<1>9. CASE DestroyPaceChannel
  BY <1>9, AnswerMoves DEF DestroyPaceChannel
<1>10. QED
  BY <1>1, <1>2, <1>3, <1>5, <1>6, <1>7, <1>8, <1>9 DEF ExecuteCommand

(* A PIN is changed before the command says so, unless there was none to   *)
(* set.                                                                    *)
LEMMA PinIsSet ==
  ASSUME PaceInv, ExecuteCommand, jobs # <<>>, jobs[1].op = "SetEidPin",
         jobs[1].result = "PENDING", jobs'[1].result = "OK",
         jobs[1].pw # NoPassword \/ ~IsBasic(jobs[1].reader)
  PROVE  \E c \in Cards : card'[c].changed
<1>1. jobs \in Seq(Jobs)
  BY DEF PaceInv, PaceTypeOK
<1>2. Head(jobs) = jobs[1] /\ Pending("SetEidPin")
  BY <1>1 DEF Pending
<1>3. R = jobs[1].reader /\ R \in Readers /\ reader[R] \in ReaderStates
  BY <1>2, PendingFacts
<1>4. SetEidPin
  BY <1>2 DEF ExecuteCommand, AuthenticationCommand, Pending, CreateCardConnection,
              UpdateRetryCounter, EstablishPacePin, EstablishPaceCan, UnblockPin,
              DestroyPaceChannel
<1>5. ASSUME NEW codes, Fail(codes), "OK" \notin codes PROVE FALSE
  BY <1>2, <1>5, ResultMoves DEF Fail, Answer
<1>6. ~Fail({"CARD_NOT_FOUND"}) /\ ~Fail({"COMMAND_FAILED"})
  BY <1>5
<1>7. ~Fail(GivenUp(R) \cup {"NEW_PIN_MISMATCH", "NEW_PIN_INVALID_LENGTH",
                             "PROTOCOL_ERROR"})
  BY <1>5, BrokenCodes
<1>8. /\ Alive(R)
      /\ \E code \in {"OK", "COMMAND_FAILED"} :
           Answer(code, [card EXCEPT ![CardIn(R)].changed =
                           @ \/ ~IsBasic(R) \/ Head(jobs).pw # NoPassword],
                  reader[R].session)
  BY <1>4, <1>6, <1>7 DEF SetEidPin
<1>9. card' = [card EXCEPT ![CardIn(R)].changed = TRUE]
  BY <1>2, <1>3, <1>8 DEF Answer
<1>10. CardIn(R) \in Cards
  BY <1>3, <1>8 DEF Alive, CardIn, ReaderStates
<1>11. card \in CardRecords
  BY DEF PaceInv, PaceTypeOK
<1>12. QED
  BY <1>9, <1>10, <1>11 DEF CardRecords

(* What happens around the machine moves it inside the composite only.     *)
EnvironmentMoves ==
  /\ UNCHANGED <<cancelDue, card>> /\ ctx'.pw = ctx.pw /\ ctx'.killed = ctx.killed
  /\ HasError(ctx) => HasError(ctx')
  /\ \/ /\ UNCHANGED <<state, phase>> /\ ContextStays
        /\ state = "ConnectCard" \/ UNCHANGED jobs
     \/ /\ state \in {"SelectReader", "ConnectCard"} /\ phase' = "entered"
        /\ state' \in {"SelectReader", "ConnectCard", "MaintainCardConnection"}

LEMMA EnvironmentsMove ==
  ASSUME PaceInv, Environment
  PROVE  EnvironmentMoves
<1>1. ctx \in Contexts
  BY DEF PaceInv, PaceTypeOK
<1>2. CASE onReaderDeviceError
  <2>1. "Workflow_Reader_Device_Error" \in Statuses
    BY DEF Statuses
  <2>2. LET d == updateStatus(ctx, "Workflow_Reader_Device_Error")
        IN d.pw = ctx.pw /\ d.killed = ctx.killed /\ HasError(d)
    BY <1>1, <2>1, UpdateStatusKeeps
  <2>3. QED
    BY <1>2, <2>2 DEF onReaderDeviceError, Go, Enter, Main, EnvironmentMoves
<1>3. CASE setReaderPlugInTypes
  BY <1>3 DEF setReaderPlugInTypes, Go, Enter, Main, EnvironmentMoves
<1>4. ASSUME NEW r \in Readers, NEW c \in Cards, InsertCard(r, c)
      PROVE  EnvironmentMoves
  <2>1. PICK n \in Readings(c) :
          \/ /\ state = "SelectReader" /\ phase = "waiting"
             /\ Enter("ConnectCard")
             /\ ctx' = [InfoChanged(r, c, n) EXCEPT !.readerName = r]
             /\ UNCHANGED jobs
          \/ state = "ConnectCard" /\ ctx' = InfoChanged(r, c, n)
             /\ UNCHANGED <<state, phase>>
          \/ ctx' = InfoChanged(r, c, n) /\ UNCHANGED <<state, phase, jobs>>
    BY <1>4 DEF InsertCard
  <2>2. card \in CardRecords
    BY DEF PaceInv, PaceTypeOK
  <2>3. n \in Counters
    BY <2>1, <2>2, ReadingTypes
  <2> DEFINE d == InfoChanged(r, c, n)
  <2>4. /\ d \in Contexts /\ d.pw = ctx.pw /\ d.status = ctx.status
        /\ d.killed = ctx.killed /\ d.conn.reader = ctx.conn.reader
        /\ HasConnection(d) <=> HasConnection(ctx)
    BY <2>3, InfoChangedFacts
  <2> HIDE DEF d
  <2>5. LET e == [d EXCEPT !.readerName = r]
        IN e.pw = d.pw /\ e.status = d.status /\ e.killed = d.killed
    BY <2>4 DEF Contexts
  <2>6. UNCHANGED <<cancelDue, card>>
    BY <1>4 DEF InsertCard
  <2>7. QED
    BY <2>1, <2>4, <2>5, <2>6 DEF d, Enter, EnvironmentMoves, ContextStays, HasError
<1>5. ASSUME NEW r \in Readers, NEW gone \in BOOLEAN, RemoveCard(r, gone)
      PROVE  EnvironmentMoves
  <2>1. /\ ctx' = InfoChanged(r, NoCard, -1) /\ UNCHANGED <<cancelDue, card>>
        /\ \/ state = "ConnectCard" /\ Enter("SelectReader")
           \/ UNCHANGED <<state, phase, jobs>>
    BY <1>5 DEF RemoveCard
  <2>2. -1 \in Counters
    BY DEF Counters
  <2>3. /\ ctx'.pw = ctx.pw /\ ctx'.status = ctx.status
        /\ ctx'.killed = ctx.killed /\ ctx'.conn.reader = ctx.conn.reader
        /\ HasConnection(ctx') <=> HasConnection(ctx)
    BY <2>1, <2>2, InfoChangedFacts
  <2>4. QED
    BY <2>1, <2>3 DEF Enter, EnvironmentMoves, ContextStays, HasError
<1>6. QED
  BY <1>2, <1>3, <1>4, <1>5 DEF Environment

(* A cancel changes the status, and moves the machine where it leads.      *)
CancelMoves(target) ==
  /\ UNCHANGED card /\ ctx'.pw = ctx.pw /\ ctx'.killed = ctx.killed
  /\ ctx'.conn = ctx.conn /\ HasError(ctx')
  /\ IF target = state THEN UNCHANGED <<state, phase, jobs>>
                       ELSE state' = target /\ phase' = "entered"

LEMMA CancelsMove ==
  ASSUME PaceInv, NEW target, onUserCancelled(target)
  PROVE  CancelMoves(target)
<1> DEFINE s == "Workflow_Cancellation_By_User"
           u == updateStatus(ctx, s)
<1>1. s \in Statuses /\ s # "No_Error" /\ ctx \in Contexts
  BY DEF Statuses, PaceInv, PaceTypeOK
<1>2. /\ u \in Contexts /\ u.pw = ctx.pw /\ u.conn = ctx.conn
      /\ u.killed = ctx.killed /\ HasError(u)
  BY <1>1, UpdateStatusKeeps
<1>3. \A l : /\ [u EXCEPT !.last = l].pw = u.pw
            /\ [u EXCEPT !.last = l].conn = u.conn
            /\ [u EXCEPT !.last = l].killed = u.killed
            /\ [u EXCEPT !.last = l].status = u.status
  BY <1>2 DEF Contexts
<1> HIDE DEF u
<1>4. ctx' = CancelledContext /\ UNCHANGED card
  BY DEF onUserCancelled, Main
<1>5. \E l : ctx' = [u EXCEPT !.last = l]
  BY <1>4, Zenon DEF CancelledContext, u
<1>6. /\ ctx'.pw = u.pw /\ ctx'.conn = u.conn /\ ctx'.killed = u.killed
      /\ ctx'.status = u.status
  BY <1>3, <1>5
<1>7. QED
  BY <1>2, <1>4, <1>6 DEF CancelMoves, onUserCancelled, Main, Enter, HasError

(* The result of a command nobody listens to any more.                     *)
DropMoves ==
  /\ UNCHANGED <<state, phase, cancelDue, card>> /\ ContextStays
  /\ Len(jobs) \in Nat /\ Len(jobs') = Len(jobs) - 1
  /\ \A i \in 1 .. Len(jobs') : i + 1 \in 1 .. Len(jobs) /\ jobs'[i] = jobs[i + 1]

LEMMA DropsMove ==
  ASSUME PaceInv, DropResult
  PROVE  DropMoves
<1>1. /\ ctx \in Contexts /\ jobs \in Seq(Jobs) /\ jobs # <<>>
      /\ ctx' = PaceFlags(ctx, Head(jobs)) /\ jobs' = Tail(jobs)
      /\ UNCHANGED <<state, phase, cancelDue, card>>
  BY DEF DropResult, Answered, Main, PaceInv, PaceTypeOK
<1>2. /\ ctx'.pw = ctx.pw /\ ctx'.conn.reader = ctx.conn.reader
      /\ ctx'.killed = ctx.killed /\ ctx'.status = ctx.status
  BY <1>1, PaceFlagsKeep
<1>3. ctx.conn = NoConnection => ctx' = ctx
  BY <1>1, JobTypes, NoConnectionTypes DEF PaceFlags
<1>4. ctx.conn # NoConnection => ctx'.conn # NoConnection
  BY <1>2, NoConnectionTypes DEF PaceInv, ContextFits, ConnectionFits
<1>5. ContextStays
  BY <1>2, <1>3, <1>4 DEF ContextStays, HasConnection
<1>6. QED
  BY <1>1, <1>5, TailKeeps DEF DropMoves

-----------------------------------------------------------------------------
(***************************************************************************)
(* What a controller needs to know about its own states.                   *)
(***************************************************************************)
(* A step of a controller between its states, and to the composite, where  *)
(* it begins or after a failure.                                           *)
LEMMA OutsideFits ==
  ASSUME PaceInv, state \notin PaceStates, NEW s, NEW c \in Contexts,
         \/ s \notin PaceStates
         \/ /\ s = "MaintainCardConnection"
            /\ c.last # "OK" \/ HasError(c) \/ ~HasConnection(c),
         c.conn \in {ctx.conn, NoConnection}, c.vanished = ctx.vanished,
         c.killed = ctx.killed /\ c.doubted = ctx.doubted, HasError(ctx) => HasError(c)
  PROVE  ContextFits(s, c)
<1>1. ConnectionFits(s, c)
  BY DEF PaceInv, ContextFits, ConnectionFits, PaceStates
<1>2. ErrorFits(s, c)
  BY DEF PaceInv, ContextFits, ErrorFits, PaceStates
<1>3. InfoFits(c)
  BY DEF PaceInv, ContextFits, InfoFits, HasConnection
<1>4. CardFits(s, c)
  BY DEF CardFits, PaceStates
<1>5. QED
  BY <1>1, <1>2, <1>3, <1>4 DEF ContextFits

(* The machine rests.                                                      *)
LEMMA RestKeeps ==
  ASSUME PaceInv,
         UNCHANGED <<state, phase, ctx, jobs, reader, card, spent, canAllowedMode>>,
         \/ UNCHANGED cancelDue
         \/ cancelDue' = FALSE /\ state \notin PaceStates
  PROVE  PaceInv'
<1>1. PaceTypeOK'
  BY DEF PaceInv, PaceTypeOK
<1>2. JobsFit' /\ ResultsTrue'
  BY DEF PaceInv, JobsFit, JobFits, ResultsTrue, ResultTrue
<1>3. ConnectionFits(state, ctx)' /\ ErrorFits(state, ctx)'
  BY DEF PaceInv, ContextFits, ConnectionFits, ErrorFits, PaceStates,
         HasConnection, HasError
<1>4. InfoFits(ctx)' /\ CardFits(state, ctx)'
  BY DEF PaceInv, ContextFits, InfoFits, CardFits, HasConnection, HasError
<1>5. WaitFits'
  BY DEF PaceInv, WaitFits, HasConnection, HasError, PaceStates
<1>6. QED
  BY <1>1, <1>2, <1>3, <1>4, <1>5 DEF PaceInv, ContextFits

(* Nobody listens in a state that has just been entered.                   *)
LEMMA NobodyListens ==
  ASSUME PaceInv', phase' = "entered", NEW i \in 1 .. Len(jobs')
  PROVE  ~jobs'[i].heard
  BY DEF PaceInv, JobsFit, JobFits

-----------------------------------------------------------------------------
(***************************************************************************)
(* Where the commands of the queue come from, and what happens to the      *)
(* channels on the cards.                                                  *)
(***************************************************************************)
(* The command was in the queue before.                                    *)
Descends(k) ==
  \E i \in 1 .. Len(jobs) :
    jobs'[k].op = jobs[i].op /\ jobs'[k].reader = jobs[i].reader

(* What is not new was there; a new command is one that its state hears.   *)
QueueMoves == \A k \in 1 .. Len(jobs') : Descends(k) \/ jobs'[k].heard

(* A channel can only be lost.                                             *)
SessionsCalm ==
  \A r \in Readers : reader'[r].session \in {reader[r].session, "closed"}

LEMMA QueueDescends ==
  ASSUME jobs \in Seq(Jobs),
         \/ jobs' \in {jobs, Unheard(jobs)}
         \/ jobs # <<>> /\ jobs' \in {Tail(jobs), Unheard(Tail(jobs))}
         \/ \E job : job.heard /\ jobs' = Append(jobs, job)
  PROVE  QueueMoves
<1>1. CASE jobs' = jobs
  BY <1>1 DEF QueueMoves, Descends
<1>2. CASE jobs' = Unheard(jobs)
  BY <1>2, UnheardKeeps DEF QueueMoves, Descends
<1>3. CASE jobs # <<>> /\ jobs' = Tail(jobs)
  BY <1>3, TailKeeps DEF QueueMoves, Descends
<1>4. CASE jobs # <<>> /\ jobs' = Unheard(Tail(jobs))
  <2> DEFINE js == Tail(jobs)
  <2>1. /\ js \in Seq(Jobs)
        /\ \A i \in 1 .. Len(js) : i + 1 \in 1 .. Len(jobs) /\ js[i] = jobs[i + 1]
    BY <1>4, TailKeeps
  <2> HIDE DEF js
  <2>2. /\ Len(Unheard(js)) = Len(js)
        /\ \A i \in 1 .. Len(js) : Unheard(js)[i].op = js[i].op
                                 /\ Unheard(js)[i].reader = js[i].reader
    BY <2>1, UnheardKeeps
  <2>3. jobs' = Unheard(js)
    BY <1>4 DEF js
  <2>4. ASSUME NEW k \in 1 .. Len(jobs') PROVE Descends(k)
    BY <2>1, <2>2, <2>3 DEF Descends
  <2>5. QED
    BY <2>4 DEF QueueMoves
<1>5. CASE \E job : job.heard /\ jobs' = Append(jobs, job)
  <2>1. PICK job : job.heard /\ jobs' = Append(jobs, job)
    BY <1>5
  <2>2. /\ Len(jobs') = Len(jobs) + 1 /\ jobs'[Len(jobs) + 1] = job
        /\ \A k \in 1 .. Len(jobs) : jobs'[k] = jobs[k]
    BY <2>1
  <2>3. QED
    BY <2>1, <2>2 DEF QueueMoves, Descends
<1>6. QED
  BY <1>1, <1>2, <1>3, <1>4, <1>5

(* The main thread's steps.                                                *)
LEMMA MainCalm ==
  ASSUME PaceInv, NEW c, NEW js, Main(c, js)
  PROVE  SessionsCalm
  BY SessionsKeep DEF PaceInv, Main, SessionsCalm

LEMMA GoCalm ==
  ASSUME PaceInv, NEW s, NEW c, Go(s, c) \/ (jobs # <<>> /\ Return(s, c))
  PROVE  /\ SessionsCalm /\ \A k \in 1 .. Len(jobs') : Descends(k)
         /\ state' = s /\ phase' = "entered" /\ ctx' = c
<1>1. /\ jobs \in Seq(Jobs) /\ \E js : Main(c, js)
      /\ state' = s /\ phase' = "entered" /\ ctx' = c
      /\ \/ jobs' = Unheard(jobs)
         \/ jobs # <<>> /\ jobs' = Unheard(Tail(jobs))
  BY DEF Go, Return, Enter, Main, PaceInv, PaceTypeOK
<1>2. QueueMoves
  BY <1>1, QueueDescends
<1>3. \A k \in 1 .. Len(jobs') : ~jobs'[k].heard
  <2>1. PICK js \in Seq(Jobs) : jobs' = Unheard(js)
    BY <1>1, TailKeeps
  <2>2. QED
    BY <2>1, UnheardKeeps
<1>4. QED
  BY <1>1, <1>2, <1>3, MainCalm DEF QueueMoves

LEMMA CallCalm ==
  ASSUME PaceInv, NEW op, NEW r, NEW type, NEW pw, Call(op, r, type, pw)
  PROVE  /\ SessionsCalm
         /\ \A k \in 1 .. Len(jobs') :
              Descends(k) \/ (jobs'[k].op = op /\ jobs'[k].reader = r)
<1> DEFINE job == [op |-> op, reader |-> r, type |-> type, pw |-> pw,
                   heard |-> TRUE, result |-> "PENDING"]
<1>1. jobs \in Seq(Jobs) /\ jobs' = Append(jobs, job) /\ \E c, js : Main(c, js)
  BY DEF Call, Main, PaceInv, PaceTypeOK
<1>2. job.op = op /\ job.reader = r
  OBVIOUS
<1> HIDE DEF job
<1>3. /\ Len(jobs') = Len(jobs) + 1 /\ jobs'[Len(jobs) + 1] = job
      /\ \A k \in 1 .. Len(jobs) : jobs'[k] = jobs[k]
  BY <1>1
<1>4. QED
  BY <1>1, <1>2, <1>3, MainCalm DEF Descends

(* The steps of the composite.                                             *)
LEMMA PaceStepQueue ==
  ASSUME PaceInv, PaceStep
  PROVE  QueueMoves
<1> DEFINE moved == \/ jobs' \in {jobs, Unheard(jobs)}
                    \/ jobs # <<>> /\ jobs' \in {Tail(jobs), Unheard(Tail(jobs))}
                    \/ \E job : job.heard /\ jobs' = Append(jobs, job)
<1>1. jobs \in Seq(Jobs)
  BY DEF PaceInv, PaceTypeOK
<1>2. ASSUME NEW s, NEW c, Go(s, c) PROVE moved
  BY <1>2 DEF Go, Main
<1>3. ASSUME NEW op, NEW r, NEW type, NEW pw, Call(op, r, type, pw) PROVE moved
  <2> DEFINE job == [op |-> op, reader |-> r, type |-> type, pw |-> pw,
                     heard |-> TRUE, result |-> "PENDING"]
  <2>1. job.heard /\ jobs' = Append(jobs, job)
    BY <1>3 DEF Call, Main
  <2> HIDE DEF job
  <2>2. QED
    BY <2>1
<1>4. ASSUME NEW s, Heard(s), NEW t, NEW c, Return(t, c) PROVE moved
  BY <1>4 DEF Heard, Answered, Return, Main
<1> HIDE DEF moved
<1>5. CASE \/ StateMaintainCardConnection
           \/ StateClearPacePasswords("ClearPacePasswordsOnError", OnAbort)
           \/ StateClearPacePasswords("ClearPacePasswordsBeforeDestroy",
                                      "DestroyPace")
           \/ StateUnfortunateCardPosition \/ StateVerifyRetryCounter
  <2>1. moved
    BY <1>2, <1>5
       DEF StateMaintainCardConnection, StateClearPacePasswords,
           StateUnfortunateCardPosition, StateVerifyRetryCounter
  <2>2. QED
    BY <1>1, <2>1, QueueDescends DEF moved
<1>6. CASE \/ StateSelectReader \/ StateConnectCard
           \/ StateUpdateRetryCounter("UpdateRetryCounter", "MaintainCardConnection")
           \/ StateEstablishPaceChannel \/ StateDestroyPace("DestroyPace")
           \/ StateEnterPacePassword
  <2>1. moved \/ UNCHANGED jobs
    BY <1>2, <1>3, <1>6
       DEF StateSelectReader, Select, StateConnectCard, StateUpdateRetryCounter,
           StateEstablishPaceChannel, StateDestroyPace, StateEnterPacePassword
  <2>2. QED
    BY <1>1, <2>1, QueueDescends DEF moved
<1>7. CASE StatePreparePace
  <2>1. moved
    BY <1>2, <1>7 DEF StatePreparePace, PreparePaceInCanAllowedMode, Prepare
  <2>2. QED
    BY <1>1, <2>1, QueueDescends DEF moved
<1>8. CASE ConnectCardDone
  <2>1. jobs # <<>>
    BY <1>8 DEF ConnectCardDone, Heard, Answered
  <2>2. moved \/ (jobs # <<>> /\ jobs' = Tail(jobs))
    BY <1>4, <1>8, <2>1 DEF ConnectCardDone, Main
  <2>3. QED
    BY <1>1, <2>2, QueueDescends DEF moved
<1>9. CASE \/ UpdateRetryCounterDone("UpdateRetryCounter", "VerifyRetryCounter",
                                     "MaintainCardConnection")
           \/ DestroyPaceDone("DestroyPace", "MaintainCardConnection")
  <2>1. moved
    BY <1>4, <1>9 DEF UpdateRetryCounterDone, DestroyPaceDone
  <2>2. QED
    BY <1>1, <2>1, QueueDescends DEF moved
<1>10. CASE EstablishPaceChannelDone
  <2>1. moved
    BY <1>4, <1>10 DEF EstablishPaceChannelDone
  <2>2. QED
    BY <1>1, <2>1, QueueDescends DEF moved
<1>11. QED
  BY <1>5, <1>6, <1>7, <1>8, <1>9, <1>10 DEF PaceStep

(* The cards and readers.                                                  *)
LEMMA EnvironmentCalm ==
  ASSUME PaceInv, Environment
  PROVE  QueueMoves /\ SessionsCalm
<1>1. jobs \in Seq(Jobs) /\ reader \in [Readers -> ReaderStates]
  BY DEF PaceInv, PaceTypeOK
<1>2. CASE onReaderDeviceError \/ setReaderPlugInTypes
  <2>1. PICK s, c : Go(s, c)
    BY <1>2 DEF onReaderDeviceError, setReaderPlugInTypes
  <2>2. QED
    BY <2>1, GoCalm DEF QueueMoves
<1>3. ASSUME NEW r \in Readers, NEW c \in Cards, InsertCard(r, c)
      PROVE  QueueMoves /\ SessionsCalm
  <2> DEFINE job == [op |-> "CreateCardConnection", reader |-> r,
                     type |-> "UNKNOWN", pw |-> NoPassword,
                     heard |-> TRUE, result |-> "PENDING"]
  <2>1. /\ UNCHANGED jobs \/ jobs' = Append(jobs, job)
        /\ \E n : reader' = [reader EXCEPT ![r] =
                               [card |-> c, counter |-> n, session |-> "closed"]]
    BY <1>3 DEF InsertCard
  <2>2. job.heard
    OBVIOUS
  <2> HIDE DEF job
  <2>3. QueueMoves
    BY <1>1, <2>1, <2>2, QueueDescends
  <2>4. SessionsCalm
    BY <1>1, <2>1 DEF SessionsCalm
  <2>5. QED
    BY <2>3, <2>4
<1>4. ASSUME NEW r \in Readers, NEW gone \in BOOLEAN, RemoveCard(r, gone)
      PROVE  QueueMoves /\ SessionsCalm
  <2>1. /\ UNCHANGED jobs \/ jobs' = Unheard(jobs)
        /\ reader' = [reader EXCEPT ![r] =
                        [card |-> NoCard, counter |-> -1, session |-> "closed"]]
    BY <1>4 DEF RemoveCard
  <2>2. QueueMoves
    BY <1>1, <2>1, QueueDescends
  <2>3. SessionsCalm
    BY <1>1, <2>1 DEF SessionsCalm
  <2>4. QED
    BY <2>2, <2>3
<1>5. QED
  BY <1>2, <1>3, <1>4 DEF Environment

(* The thread: only CreateCardConnection adds commands, of its own kind,   *)
(* and the commands of an authentication leave the channels as they are.   *)
LEMMA CommandsCalm ==
  ASSUME PaceInv, ExecuteCommand
  PROVE  /\ 1 \in 1 .. Len(jobs)
         /\ \A k \in 1 .. Len(jobs') :
              \/ Descends(k)
              \/ /\ jobs[1].op = "CreateCardConnection"
                 /\ jobs'[k].op = "CreateCardConnection"
         /\ jobs[1].op \in {"DidAuthenticateEAC1", "DidAuthenticateEAC2",
                            "Transmit", "UpdateRetryCounter"} => SessionsCalm
<1>1. ASSUME NEW op, Pending(op), NEW code,
             jobs' = [jobs EXCEPT ![1].result = code]
      PROVE  \A k \in 1 .. Len(jobs') : Descends(k)
  <2>1. jobs \in Seq(Jobs) /\ 1 \in 1 .. Len(jobs) /\ jobs[1] \in Jobs
    BY <1>1, PendingFacts
  <2>2. /\ Len(jobs') = Len(jobs)
        /\ jobs'[1] = [jobs[1] EXCEPT !.result = code]
        /\ \A i \in 1 .. Len(jobs) : i # 1 => jobs'[i] = jobs[i]
    BY <1>1, <2>1
  <2>3. jobs'[1].op = jobs[1].op /\ jobs'[1].reader = jobs[1].reader
    BY <2>1, <2>2 DEF Jobs
  <2>4. QED
    BY <2>1, <2>2, <2>3 DEF Descends
<1>2. ASSUME NEW op, Pending(op)
      PROVE  1 \in 1 .. Len(jobs) /\ jobs[1].op = op
  BY <1>2, PendingFacts
<1>3. ASSUME NEW op, Pending(op), NEW code, NEW cd, Answer(code, cd, reader[R].session)
      PROVE  SessionsCalm
  BY <1>3, PendingFacts DEF Answer, SessionsCalm, ReaderStates
<1>4. CASE \/ AuthenticationCommand("DidAuthenticateEAC1", {})
           \/ AuthenticationCommand("DidAuthenticateEAC2", {"PROTOCOL_ERROR"})
           \/ AuthenticationCommand("Transmit", {"UNEXPECTED_TRANSMIT_STATUS"})
  <2>1. PICK op : /\ Pending(op) /\ op \in {"DidAuthenticateEAC1",
                                            "DidAuthenticateEAC2", "Transmit"}
                  /\ \E codes : Fail(codes)
    BY <1>4 DEF AuthenticationCommand
  <2>2. \E code : /\ Answer(code, card, reader[R].session)
                  /\ jobs' = [jobs EXCEPT ![1].result = code]
    BY <2>1 DEF Fail, Answer
  <2>3. QED
    BY <1>1, <1>2, <1>3, <2>1, <2>2
<1>5. CASE CreateCardConnection
  <2>1. /\ Pending("CreateCardConnection") /\ R \in Readers
        /\ reader \in [Readers -> ReaderStates]
        /\ UNCHANGED <<state, phase, cancelDue, ctx, card, spent>>
    BY <1>5, PendingFacts DEF CreateCardConnection
  <2>2. \A r \in Readers : /\ r # R => reader'[r] = reader[r]
                           /\ reader'[r].card = reader[r].card
    BY <1>5, <2>1 DEF CreateCardConnection, ReaderStates
  <2>3. \E code \in {"OK", "COMMAND_FAILED"} : WorkerCreated(code)
    BY <1>5 DEF CreateCardConnection
  <2>4. {"OK", "COMMAND_FAILED"} \subseteq Codes
    BY DEF Codes, CardVanished, Unrecoverable, equalsWrongPacePassword
  <2>5. \A i \in 1 .. Len(jobs') :
          jobs'[i].op # "CreateCardConnection" =>
            i \in 1 .. Len(jobs) /\ jobs'[i] = jobs[i]
    BY <2>1, <2>2, <2>3, <2>4, WorkerCreatedKeeps
  <2>6. QED
    BY <1>2, <2>1, <2>5 DEF Descends
<1>6. CASE UpdateRetryCounter
  <2>1. Pending("UpdateRetryCounter")
    BY <1>6 DEF UpdateRetryCounter
  <2>2. CASE \E codes : Fail(codes)
    <3>1. \E code : /\ Answer(code, card, reader[R].session)
                    /\ jobs' = [jobs EXCEPT ![1].result = code]
      BY <2>2 DEF Fail, Answer
    <3>2. QED
      BY <1>1, <1>2, <1>3, <2>1, <3>1
  <2>3. CASE /\ \E n : reader' = [reader EXCEPT ![R].counter = n]
             /\ jobs' = [jobs EXCEPT ![1].result = "OK"]
    <3>1. SessionsCalm
      BY <2>1, <2>3, PendingFacts DEF SessionsCalm, ReaderStates
    <3>2. QED
      BY <1>1, <1>2, <2>1, <2>3, <3>1
  <2>4. QED
    BY <1>6, <2>2, <2>3 DEF UpdateRetryCounter, ReadCounter
<1>7. CASE EstablishPacePin \/ EstablishPaceCan
  <2>1. /\ Pending("EstablishPaceChannel")
        /\ \E code : jobs' = [jobs EXCEPT ![1].result = code]
    BY <1>7 DEF EstablishPacePin, EstablishPaceCan, Fail, Answer
  <2>2. QED
    BY <1>1, <1>2, <2>1
<1>8. CASE UnblockPin
  <2>1. /\ Pending("UnblockPin")
        /\ \E code : jobs' = [jobs EXCEPT ![1].result = code]
    BY <1>8 DEF UnblockPin, Fail, Answer
  <2>2. QED
    BY <1>1, <1>2, <2>1
<1>9. CASE SetEidPin
  <2>1. /\ Pending("SetEidPin")
        /\ \E code : jobs' = [jobs EXCEPT ![1].result = code]
    BY <1>9 DEF SetEidPin, Fail, Answer
  <2>2. QED
    BY <1>1, <1>2, <2>1
<1>10. CASE DestroyPaceChannel
  <2>1. /\ Pending("DestroyPaceChannel")
        /\ \E code : jobs' = [jobs EXCEPT ![1].result = code]
    BY <1>10 DEF DestroyPaceChannel, Answer
  <2>2. QED
    BY <1>1, <1>2, <2>1
<1>11. QED
  BY <1>4, <1>5, <1>6, <1>7, <1>8, <1>9, <1>10 DEF ExecuteCommand

(* The other steps of the main thread.                                     *)
LEMMA OthersCalm ==
  ASSUME PaceInv, DropResult \/ \E target : onUserCancelled(target)
  PROVE  SessionsCalm /\ \A k \in 1 .. Len(jobs') : Descends(k)
<1>1. jobs \in Seq(Jobs) /\ \E c, js : Main(c, js)
  BY DEF PaceInv, PaceTypeOK, DropResult, onUserCancelled
<1>2. CASE DropResult
  <2>1. jobs # <<>> /\ jobs' = Tail(jobs)
    BY <1>2 DEF DropResult, Answered, Main
  <2>2. \A k \in 1 .. Len(jobs') : Descends(k)
    BY <1>1, <2>1, TailKeeps DEF Descends
  <2>3. QED
    BY <1>1, <2>2, MainCalm
<1>3. CASE \E target : onUserCancelled(target)
  <2>1. jobs' \in {jobs, Unheard(jobs)}
    BY <1>3 DEF onUserCancelled, Main
  <2>2. \A k \in 1 .. Len(jobs') : Descends(k)
    BY <1>1, <2>1, UnheardKeeps DEF Descends
  <2>3. QED
    BY <1>1, <2>2, MainCalm
<1>4. QED
  BY <1>2, <1>3

-----------------------------------------------------------------------------
(***************************************************************************)
(* The password that is sent fits the counter of the card, as long as no   *)
(* reading of the connection's card left its counter open and the PIN is   *)
(* what the workflow is after.                                             *)
(***************************************************************************)
PinWanted == AsksByName = FALSE /\ canAllowedMode = FALSE

PasswordCommands == {"EstablishPaceChannel", "UnblockPin"}
CounterIn(r) == card[CardIn(r)].counter

(* No command with a password waits behind another one, and without an     *)
(* error its state still listens.                                          *)
PasswordsFirst ==
  ~ctx.doubted => \A i \in 1 .. Len(jobs) : i > 1 => jobs[i].op \notin PasswordCommands

PasswordHeard ==
  ~HasError(ctx) => \A i \in 1 .. Len(jobs) :
                      jobs[i].op \in PasswordCommands => jobs[i].heard

NoPasswordUnderWay == \A i \in 1 .. Len(jobs) : jobs[i].op \notin PasswordCommands

(* What the oldest command will find at a card that is still connected,    *)
(* and what its answer says of the counter.                                *)
CommandFits(job) ==
  Alive(job.reader) =>
    LET n == CounterIn(job.reader)
    IN /\ (/\ job.op = "EstablishPaceChannel" /\ job.type = "PACE_PIN"
           /\ job.result = "PENDING")
            => n > 0 /\ (n = 1 => reader[job.reader].session = "can")
       /\ (/\ job.op = "EstablishPaceChannel" /\ job.type = "PACE_PIN"
           /\ job.result = "OK")
            => n = 3
       /\ job.op = "UnblockPin"
            => n = 0 \/ (n = 3 /\ job.result # "PENDING")
       /\ (job.op = "UpdateRetryCounter" /\ job.result = "OK" /\ job.heard)
            => reader[job.reader].counter = n

OldestFits == (~ctx.doubted /\ jobs # <<>>) => CommandFits(jobs[1])

(* The states of the composite, and those of the controller (outer), in    *)
(* which the channel stands or is made: commands of earlier states are     *)
(* gone.                                                                   *)
IsCalm(outer, s, c) ==
  \/ s \in (PaceStates \ {"SelectReader", "ConnectCard", "UpdateRetryCounter"})
             \cup outer
  \/ s = "UpdateRetryCounter" /\ c.conn.paceCan

(* The connection of the context c where the state s is entered: the       *)
(* counter is read where it is looked at, the flag of the CAN is true of a *)
(* suspended card, and the password is chosen for the counter.             *)
EntryFits(outer, s, c, js) ==
  (HasConnection(c) /\ ~HasError(c) /\ ~c.doubted) =>
    /\ IsCalm(outer, s, c) => Len(js) = 0
    /\ Alive(c.conn.reader) =>
         LET n == CounterIn(c.conn.reader)
         IN /\ (\/ s \in {"VerifyRetryCounter", "PreparePace",
                          "EnterPacePassword", "EstablishPaceChannel"}
                \/ s = "MaintainCardConnection" /\ c.last = "OK")
                 => reader[c.conn.reader].counter = n
            /\ (IsCalm(outer, s, c) /\ c.conn.paceCan /\ n = 1)
                 => reader[c.conn.reader].session = "can"
            /\ (/\ s \in {"ClearPacePasswordsBeforeDestroy", "DestroyPace"}
                /\ c.conn.paceCan)
                 => n # 1
            /\ (s \in {"EnterPacePassword", "EstablishPaceChannel"}
                /\ c.paceType = "PACE_PIN")
                 => n > 0 /\ (n = 1 => reader[c.conn.reader].session = "can")
            /\ (s \in {"EnterPacePassword", "EstablishPaceChannel"}
                /\ c.paceType = "PACE_PUK")
                 => n = 0

(* The same while the state waits for its command.                         *)
WaitingFits(outer) ==
  (/\ HasConnection(ctx) /\ ~HasError(ctx) /\ ~ctx.doubted
   /\ IsCalm(outer, state, ctx)) =>
    /\ Len(jobs) = 1 /\ jobs[1].heard
    /\ Alive(ctx.conn.reader) =>
         LET n == CounterIn(ctx.conn.reader)
         IN /\ (/\ state = "EstablishPaceChannel"
                /\ \/ jobs[1].result = "PENDING"
                   \/ /\ jobs[1].op = "EstablishPaceChannel"
                      /\ jobs[1].type = "PACE_CAN")
                 => reader[ctx.conn.reader].counter = n
            /\ (/\ ctx.conn.paceCan /\ n = 1
                /\ jobs[1].op # "EstablishPaceChannel"
                   \/ jobs[1].result = "PENDING")
                 => reader[ctx.conn.reader].session = "can"
            /\ (state = "DestroyPace" /\ ctx.conn.paceCan) => n # 1

ChoiceFits(outer) ==
  /\ phase = "entered" => EntryFits(outer, state, ctx, jobs)
  /\ phase = "waiting" => WaitingFits(outer)

PasswordInv(outer) ==
  PasswordsFirst /\ PasswordHeard /\ OldestFits /\ ChoiceFits(outer)

-----------------------------------------------------------------------------
(* The queue after a step of the main thread: the oldest command stays the *)
(* oldest, or the next one, which has no password, takes its place.        *)
LEMMA OldestStays ==
  ASSUME CommandFits(jobs[1]), jobs # <<>>, jobs' # <<>>,
         NEW r, r = jobs[1].reader,
         jobs'[1].op = jobs[1].op, jobs'[1].type = jobs[1].type,
         jobs'[1].reader = r, jobs'[1].result = jobs[1].result,
         jobs'[1].heard => jobs[1].heard,
         UNCHANGED card, reader'[r].card = reader[r].card,
         reader'[r].counter = reader[r].counter,
         reader'[r].session \in {reader[r].session, "closed"}
  PROVE  OldestFits'
<1>1. CASE reader'[r].session = "closed"
  BY <1>1 DEF OldestFits, CommandFits, Alive, CardIn
<1>2. CASE reader'[r].session = reader[r].session
  BY <1>2 DEF OldestFits, CommandFits, Alive, CardIn, CounterIn
<1>3. QED
  BY <1>1, <1>2

LEMMA OldestHarmless ==
  ASSUME jobs' = <<>> \/ /\ jobs'[1].op \notin PasswordCommands
                         /\ \/ jobs'[1].op # "UpdateRetryCounter"
                            \/ jobs'[1].result = "PENDING"
  PROVE  OldestFits'
  BY DEF OldestFits, CommandFits, PasswordCommands

LEMMA MainQueueFits ==
  ASSUME PaceInv, PasswordsFirst, OldestFits, NEW c, NEW js, Main(c, js),
         \/ /\ js \in {jobs, Unheard(jobs)}
            /\ ~c.doubted => ~ctx.doubted
         \/ /\ jobs # <<>> /\ js \in {Tail(jobs), Unheard(Tail(jobs))}
            /\ (~c.doubted => ~ctx.doubted) \/ NoPasswordUnderWay
  PROVE  PasswordsFirst' /\ OldestFits'
<1>1. /\ jobs \in Seq(Jobs) /\ jobs' = js /\ UNCHANGED card /\ PaceTypeOK
      /\ reader' = SessionsAfter(c, js) /\ ctx' = c
  BY DEF PaceInv, PaceTypeOK, Main
<1>2. \A r \in Readers : /\ reader'[r].card = reader[r].card
                         /\ reader'[r].counter = reader[r].counter
                         /\ reader'[r].session \in {reader[r].session, "closed"}
  BY <1>1, SessionsKeep
<1>3. CASE js \in {jobs, Unheard(jobs)} /\ (~c.doubted => ~ctx.doubted)
  <2>1. /\ jobs' \in Seq(Jobs) /\ Len(jobs') = Len(jobs)
        /\ \A i \in 1 .. Len(jobs) :
             /\ jobs'[i].op = jobs[i].op /\ jobs'[i].type = jobs[i].type
             /\ jobs'[i].reader = jobs[i].reader
             /\ jobs'[i].result = jobs[i].result
             /\ jobs'[i].heard => jobs[i].heard
    BY <1>1, <1>3, UnheardKeeps
  <2>2. PasswordsFirst'
    BY <1>1, <1>3, <2>1 DEF PasswordsFirst
  <2>3. CASE jobs = <<>>
    <3>1. jobs' = <<>>
      BY <1>1, <2>1, <2>3
    <3>2. QED
      BY <2>2, <3>1, OldestHarmless
  <2>4. CASE jobs # <<>>
    <3>1. 1 \in 1 .. Len(jobs) /\ jobs[1].reader \in Readers /\ jobs' # <<>>
      BY <1>1, <2>1, <2>4, JobTypes
    <3>2. CASE ctx'.doubted
      BY <2>2, <3>2 DEF OldestFits
    <3>3. CASE ~ctx'.doubted
      <4>1. CommandFits(jobs[1])
        BY <1>1, <1>3, <2>4, <3>3 DEF OldestFits
      <4>2. QED
        BY <1>1, <1>2, <2>1, <2>2, <2>4, <3>1, <4>1, OldestStays
    <3>4. QED
      BY <3>2, <3>3
  <2>5. QED
    BY <2>2, <2>3, <2>4
<1>4. CASE /\ jobs # <<>> /\ js \in {Tail(jobs), Unheard(Tail(jobs))}
           /\ (~c.doubted => ~ctx.doubted) \/ NoPasswordUnderWay
  <2>1. /\ Tail(jobs) \in Seq(Jobs)
        /\ \A i \in 1 .. Len(Tail(jobs)) :
             i + 1 \in 1 .. Len(jobs) /\ i + 1 > 1 /\ Tail(jobs)[i] = jobs[i + 1]
    BY <1>1, <1>4, TailKeeps
  <2>2. /\ jobs' \in Seq(Jobs) /\ Len(jobs') = Len(Tail(jobs))
        /\ \A i \in 1 .. Len(jobs') :
             /\ jobs'[i].op = Tail(jobs)[i].op
             /\ jobs'[i].result = Tail(jobs)[i].result
    <3>1. CASE js = Tail(jobs)
      BY <1>1, <2>1, <3>1
    <3>2. CASE js = Unheard(Tail(jobs))
      <4> DEFINE rest == Tail(jobs)
      <4>1. rest \in Seq(Jobs) /\ jobs' = Unheard(rest)
        BY <1>1, <2>1, <3>2
      <4> HIDE DEF rest
      <4>2. /\ jobs' \in Seq(Jobs) /\ Len(jobs') = Len(rest)
            /\ \A i \in 1 .. Len(rest) :
                 jobs'[i].op = rest[i].op /\ jobs'[i].result = rest[i].result
        BY <4>1, UnheardKeeps
      <4>3. QED
        BY <4>2 DEF rest
    <3>3. QED
      BY <1>4, <3>1, <3>2
  <2>3. \A i \in 1 .. Len(jobs') :
          /\ ~ctx'.doubted => jobs'[i].op \notin PasswordCommands
          /\ jobs'[i].op = "UpdateRetryCounter" => jobs'[i].result = "PENDING"
    BY <1>1, <1>4, <2>1, <2>2
       DEF PasswordsFirst, NoPasswordUnderWay, PaceInv, JobsFit, JobFits
  <2>4. PasswordsFirst'
    BY <2>3 DEF PasswordsFirst
  <2>5. jobs' = <<>> \/ 1 \in 1 .. Len(jobs')
    BY <2>2
  <2>6. QED
    BY <2>3, <2>4, <2>5, OldestHarmless DEF OldestFits
<1>5. QED
  BY <1>3, <1>4

(* Only StateEstablishPaceChannel listens to a command with a password.    *)
LEMMA PasswordListener ==
  ASSUME PaceInv, NEW i \in 1 .. Len(jobs), jobs[i].heard,
         jobs[i].op \in PasswordCommands
  PROVE  state = "EstablishPaceChannel" /\ phase = "waiting"
  BY DEF PaceInv, JobsFit, JobFits, CallFits, PaceCalls, PasswordCommands

(* The machine enters the state s with the context c.                      *)
LEMMA EntryMoves ==
  ASSUME PaceInv, PaceInv', NEW outer, NEW s, NEW c, NEW js, Main(c, jobs'),
         Enter(s), EntryFits(outer, s, c, js), Len(js) = 0 => Len(jobs') = 0
  PROVE  ChoiceFits(outer)'
<1>1. /\ state' = s /\ phase' = "entered" /\ ctx' = c /\ UNCHANGED card
      /\ reader' = SessionsAfter(c, jobs')
  BY DEF Main, Enter
<1>2. HasConnection(c) => c.conn.reader \in Readers
  BY <1>1 DEF PaceInv, ContextFits, ConnectionFits, HasConnection
<1>3. HasConnection(c) => reader'[c.conn.reader] = reader[c.conn.reader]
  BY <1>1, <1>2, SessionsKeep DEF PaceInv
<1>4. EntryFits(outer, s, c, js)'
  <2> SUFFICES ASSUME HasConnection(c), ~HasError(c), ~c.doubted
               PROVE  EntryFits(outer, s, c, js)'
    BY DEF EntryFits, HasConnection, HasError
  <2>1. /\ (Alive(c.conn.reader))' <=> Alive(c.conn.reader)
        /\ CounterIn(c.conn.reader)' = CounterIn(c.conn.reader)
    BY <1>1, <1>3 DEF Alive, CardIn, CounterIn
  <2>2. IsCalm(outer, s, c)' <=> IsCalm(outer, s, c)
    BY DEF IsCalm, PaceStates
  <2>3. QED
    BY <1>3, <2>1, <2>2 DEF EntryFits, HasConnection, HasError
<1>5. EntryFits(outer, state, ctx, jobs)'
  BY <1>1, <1>4 DEF EntryFits, HasConnection, HasError, IsCalm, Alive, CardIn,
     CounterIn
<1>6. QED
  BY <1>1, <1>5 DEF ChoiceFits

(* run() and a callback that fire a transition.                            *)
LEMMA GoFits ==
  ASSUME PaceInv, PaceInv', NEW outer, PasswordInv(outer), NEW s, NEW c,
         Go(s, c), EntryFits(outer, s, c, jobs), HasError(ctx) => HasError(c),
         ~c.doubted => ~ctx.doubted,
         \/ phase = "entered" \/ state # "EstablishPaceChannel" \/ HasError(c)
  PROVE  PasswordInv(outer)'
<1>1. /\ Main(c, Unheard(jobs)) /\ Enter(s) /\ jobs' = Unheard(jobs)
      /\ jobs \in Seq(Jobs) /\ ctx' = c
  BY DEF Go, Main, PaceInv, PaceTypeOK
<1>2. PasswordsFirst' /\ OldestFits'
  BY <1>1, MainQueueFits DEF PasswordInv
<1>3. /\ Len(jobs') = Len(jobs) /\ jobs' \in Seq(Jobs)
      /\ \A i \in 1 .. Len(jobs) : jobs'[i].op = jobs[i].op
  BY <1>1, UnheardKeeps
<1>4. PasswordHeard'
  <2>1. CASE HasError(c)
    BY <1>1, <2>1 DEF PasswordHeard, HasError
  <2>2. CASE ~HasError(c)
    <3>1. NoPasswordUnderWay
      BY <2>2, PasswordListener
         DEF PasswordInv, PasswordHeard, NoPasswordUnderWay
    <3>2. QED
      BY <1>3, <3>1 DEF PasswordHeard, NoPasswordUnderWay
  <2>3. QED
    BY <2>1, <2>2
<1>5. Len(jobs) = 0 => Len(jobs') = 0
  BY <1>1, <1>3
<1>6. ChoiceFits(outer)'
  BY <1>1, <1>5, EntryMoves
<1>7. QED
  BY <1>2, <1>4, <1>6 DEF PasswordInv

LEMMA ReturnFits ==
  ASSUME PaceInv, PaceInv', NEW outer, PasswordInv(outer), NEW s, NEW c,
         NEW t, Heard(t), Return(s, c), EntryFits(outer, s, c, Tail(jobs)),
         HasError(ctx) => HasError(c),
         (~c.doubted => ~ctx.doubted) \/ state = "ConnectCard"
  PROVE  PasswordInv(outer)'
<1> DEFINE js == Tail(jobs)
<1>1. /\ Main(c, Unheard(js)) /\ Enter(s) /\ jobs' = Unheard(js)
      /\ jobs \in Seq(Jobs) /\ ctx' = c /\ phase = "waiting"
      /\ jobs # <<>> /\ ~cancelDue
      /\ state # "ConnectCard" => Len(jobs) = 1
  <2>1. /\ state = t /\ phase = "waiting" /\ ~cancelDue
        /\ jobs \in Seq(Jobs) /\ jobs # <<>>
        /\ t # "ConnectCard" => Len(jobs) = 1
    BY HeardFacts
  <2>2. QED
    BY <2>1 DEF Return, Main
<1>2. state = "ConnectCard" => NoPasswordUnderWay
  BY <1>1, PasswordListener
     DEF PasswordInv, PasswordHeard, NoPasswordUnderWay, PaceInv, ContextFits,
         ErrorFits
<1>3. /\ js \in Seq(Jobs)
      /\ \A i \in 1 .. Len(js) :
           i + 1 \in 1 .. Len(jobs) /\ i + 1 > 1 /\ js[i] = jobs[i + 1]
  BY <1>1, TailKeeps
<1>4. ~HasError(c) =>
        \A i \in 1 .. Len(js) : js[i].op \notin PasswordCommands
  <2>1. CASE state = "ConnectCard"
    BY <1>2, <1>3, <2>1 DEF NoPasswordUnderWay
  <2>2. CASE state # "ConnectCard"
    <3>1. Len(jobs) = 1 /\ Len(js) \in Nat
      BY <1>1, <1>3, <2>2
    <3>2. \A i \in 1 .. Len(js) : i + 1 \in 1 .. 1 /\ i + 1 > 1
      BY <1>3, <3>1
    <3> HIDE DEF js
    <3>3. QED
      BY <3>1, <3>2
  <2>3. QED
    BY <2>1, <2>2
<1>6. PasswordsFirst' /\ OldestFits'
  BY <1>1, <1>2, MainQueueFits DEF PasswordInv
<1> HIDE DEF js
<1>5. /\ Len(jobs') = Len(js) /\ jobs' \in Seq(Jobs)
      /\ \A i \in 1 .. Len(js) : jobs'[i].op = js[i].op
  BY <1>1, <1>3, UnheardKeeps
<1>7. PasswordHeard'
  BY <1>1, <1>4, <1>5 DEF PasswordHeard, HasError
<1>8. Len(js) = 0 => Len(jobs') = 0
  BY <1>3, <1>5
<1>9. EntryFits(outer, s, c, js)
  BY DEF js
<1>10. ChoiceFits(outer)'
  BY <1>1, <1>8, <1>9, EntryMoves
<1>11. QED
  BY <1>6, <1>7, <1>10 DEF PasswordInv

(* run() that hands over a command.                                        *)
LEMMA CallsFit ==
  ASSUME PaceInv, PaceInv', NEW outer, PasswordInv(outer), phase = "entered",
         NEW op \in Operations, NEW r \in Readers, NEW type \in PaceTypes,
         NEW pw \in Passwords, Call(op, r, type, pw),
         op \in PasswordCommands =>
           /\ state = "EstablishPaceChannel" /\ r = ctx.conn.reader
           /\ HasConnection(ctx) /\ ~HasError(ctx),
         op = "EstablishPaceChannel" => type = ctx.paceType,
         op = "UnblockPin" => ctx.paceType = "PACE_PUK"
  PROVE  PasswordInv(outer)'
<1> DEFINE job == [op |-> op, reader |-> r, type |-> type, pw |-> pw,
                   heard |-> TRUE, result |-> "PENDING"]
<1>1. /\ jobs \in Seq(Jobs) /\ jobs' = Append(jobs, job) /\ PaceTypeOK
      /\ phase' = "waiting" /\ UNCHANGED <<state, ctx, card>>
      /\ reader' = SessionsAfter(ctx, jobs')
      /\ EntryFits(outer, state, ctx, jobs)
  BY DEF PaceInv, PaceTypeOK, Call, Main, PasswordInv, ChoiceFits
<1>2. /\ job.op = op /\ job.reader = r /\ job.type = type /\ job.heard
      /\ job.result = "PENDING" /\ job \in Jobs
  BY DEF Jobs
<1> HIDE DEF job
<1>3. /\ jobs' \in Seq(Jobs) /\ Len(jobs') = Len(jobs) + 1
      /\ jobs'[Len(jobs')] = job
      /\ \A i \in 1 .. Len(jobs) : jobs'[i] = jobs[i]
  BY <1>1, <1>2
<1>4. \A q \in Readers : /\ reader'[q].card = reader[q].card
                         /\ reader'[q].counter = reader[q].counter
                         /\ reader'[q].session \in {reader[q].session, "closed"}
                         /\ ctx.conn.reader = q => reader'[q] = reader[q]
  BY <1>1, SessionsKeep
<1>5. HasConnection(ctx) => ctx.conn.reader \in Readers
  BY DEF PaceInv, ContextFits, ConnectionFits, HasConnection
<1>6. (op \in PasswordCommands /\ ~ctx.doubted) => Len(jobs) = 0
  BY <1>1 DEF EntryFits, IsCalm, PaceStates
<1>7. PasswordsFirst'
  <2>1. ASSUME ~ctx.doubted, NEW i \in 1 .. Len(jobs'), i > 1
        PROVE  jobs'[i].op \notin PasswordCommands
    <3>1. CASE i \in 1 .. Len(jobs)
      BY <1>3, <2>1, <3>1 DEF PasswordInv, PasswordsFirst
    <3>2. CASE i = Len(jobs')
      BY <1>1, <1>2, <1>3, <1>6, <2>1, <3>2
    <3>3. QED
      BY <1>1, <1>3, <3>1, <3>2
  <2>2. QED
    BY <1>1, <2>1 DEF PasswordsFirst
<1>8. PasswordHeard'
  <2> SUFFICES ASSUME ~HasError(ctx), NEW i \in 1 .. Len(jobs'),
                      jobs'[i].op \in PasswordCommands
               PROVE  jobs'[i].heard
    BY <1>1 DEF PasswordHeard
  <2>1. NoPasswordUnderWay
    BY PasswordListener DEF PasswordInv, PasswordHeard, NoPasswordUnderWay
  <2>2. i = Len(jobs')
    BY <1>1, <1>3, <2>1 DEF NoPasswordUnderWay
  <2>3. QED
    BY <1>2, <1>3, <2>2
<1>11. OldestFits'
  <2>1. CASE Len(jobs) = 0
    <3>1. jobs'[1] = job /\ jobs' # <<>>
      BY <1>1, <1>3, <2>1
    <3>2. CASE op \notin PasswordCommands
      BY <1>2, <3>1, <3>2, OldestHarmless
    <3>3. CASE op \in PasswordCommands /\ ~ctx.doubted
      <4>1. reader'[r] = reader[r] /\ r = ctx.conn.reader
        BY <1>4, <3>3
      <4>2. CommandFits(job)'
        BY <1>1, <1>2, <3>3, <4>1
           DEF EntryFits, CommandFits, PasswordCommands, Alive, CardIn, CounterIn
      <4>3. QED
        BY <3>1, <4>2 DEF OldestFits, CommandFits, Alive, CardIn, CounterIn
    <3>4. CASE ctx.doubted
      BY <1>1, <3>4 DEF OldestFits
    <3>5. QED
      BY <3>2, <3>3, <3>4
  <2>2. CASE Len(jobs) # 0 /\ ~ctx.doubted
    <3>1. /\ jobs # <<>> /\ 1 \in 1 .. Len(jobs) /\ jobs' # <<>> /\ jobs'[1] = jobs[1]
          /\ jobs[1].reader \in Readers
      BY <1>1, <1>3, <2>2, JobTypes
    <3>2. CommandFits(jobs[1])
      BY <2>2, <3>1 DEF PasswordInv, OldestFits
    <3>3. QED
      BY <1>1, <1>4, <2>2, <3>1, <3>2, OldestStays
  <2>3. CASE ctx.doubted
    BY <1>1, <2>3 DEF OldestFits
  <2>4. QED
    BY <2>1, <2>2, <2>3
<1>9. WaitingFits(outer)'
  <2> SUFFICES ASSUME HasConnection(ctx), ~HasError(ctx), ~ctx.doubted,
                      IsCalm(outer, state, ctx)
               PROVE  WaitingFits(outer)'
    BY <1>1 DEF WaitingFits, HasConnection, HasError, IsCalm
  <2>1. Len(jobs) = 0
    BY <1>1 DEF EntryFits
  <2>2. Len(jobs') = 1 /\ jobs'[1] = job
    BY <1>1, <1>3, <2>1
  <2>3. reader'[ctx.conn.reader] = reader[ctx.conn.reader]
    BY <1>4, <1>5
  <2>4. QED
    BY <1>1, <1>2, <2>2, <2>3
       DEF WaitingFits, EntryFits, Alive, CardIn, CounterIn, IsCalm
<1>10. QED
  BY <1>1, <1>7, <1>8, <1>9, <1>11 DEF PasswordInv, ChoiceFits

-----------------------------------------------------------------------------
(* The queue behind its only command.                                      *)
LEMMA OnlyCommand ==
  ASSUME NEW js \in Seq(Jobs), Len(js) = 1
  PROVE  Len(Tail(js)) = 0
<1>1. Len(<<>>) = 0 /\ 0 # 1
  OBVIOUS
<1>2. js # <<>>
  BY <1>1, Zenon
<1>3. QED
  BY <1>2, TailKeeps

(* Where the invariant says nothing.                                       *)
LEMMA NothingToFit ==
  ASSUME NEW outer, outer \cap PaceStates = {}, NEW s, NEW c, NEW js,
         \/ ~HasConnection(c) \/ HasError(c)
         \/ s \in {"SelectReader", "ConnectCard"}
         \/ s \notin PaceStates \cup outer
  PROVE  EntryFits(outer, s, c, js)
  BY DEF EntryFits, IsCalm, PaceStates

LEMMA MaintainFits ==
  ASSUME PaceInv, PaceInv', NEW outer, outer \cap PaceStates = {},
         PasswordInv(outer), StateMaintainCardConnection
  PROVE  PasswordInv(outer)'
<1>1. /\ phase = "entered" /\ state = "MaintainCardConnection"
      /\ EntryFits(outer, state, ctx, jobs) /\ ctx \in Contexts
  BY DEF StateMaintainCardConnection, Run, PasswordInv, ChoiceFits, PaceInv,
     PaceTypeOK
<1>2. CASE Go("ClearPacePasswordsOnError",
              updateStatus(ctx, toGlobalStatus[ctx.last]))
  <2> DEFINE c == updateStatus(ctx, toGlobalStatus[ctx.last])
  <2>1. Go("ClearPacePasswordsOnError", c)
    BY <1>2
  <2> HIDE DEF c
  <2>2. HasError(c) /\ c.doubted = ctx.doubted
    <3>1. toGlobalStatus[ctx.last] \in Statuses
      BY <1>1, StatusTypes DEF Contexts
    <3>2. c.doubted = ctx.doubted
      BY <1>1, <3>1, UpdateStatusKeeps DEF c
    <3>3. QED
      BY <2>1, <3>2 DEF Go, Main, Enter, PaceInv, ContextFits, ErrorFits, HasError
  <2>3. EntryFits(outer, "ClearPacePasswordsOnError", c, jobs)
    BY <2>2 DEF EntryFits
  <2>4. QED
    BY <2>1, <2>2, <2>3, GoFits
<1>3. CASE ~MaintainAborts /\ ctx.last \in equalsWrongPacePassword
           /\ Go(IF HasConnection(ctx) THEN "UpdateRetryCounter"
                                       ELSE "SelectReader",
                 resetPacePasswords(ctx))
  <2> DEFINE c == resetPacePasswords(ctx)
             s == IF HasConnection(ctx) THEN "UpdateRetryCounter"
                                        ELSE "SelectReader"
  <2>1. Go(s, c) /\ s \in {"UpdateRetryCounter", "SelectReader"}
    BY <1>3
  <2>2. c.conn = ctx.conn /\ c.status = ctx.status /\ c.doubted = ctx.doubted
    BY <1>1, ResetKeeps
  <2> HIDE DEF c, s
  <2>3. EntryFits(outer, s, c, jobs)
    BY <1>1, <2>1, <2>2
       DEF EntryFits, IsCalm, PaceStates, HasConnection, HasError
  <2>4. QED
    BY <1>1, <2>1, <2>2, <2>3, GoFits DEF HasError
<1>4. CASE ~MaintainAborts
           /\ Go("SelectReader", [ctx EXCEPT !.conn = NoConnection, !.last = "OK"])
  <2> DEFINE c == [ctx EXCEPT !.conn = NoConnection, !.last = "OK"]
  <2>1. Go("SelectReader", c) /\ ~HasError(ctx) /\ c.doubted = ctx.doubted
    BY <1>1, <1>4 DEF MaintainAborts, Contexts
  <2> HIDE DEF c
  <2>2. EntryFits(outer, "SelectReader", c, jobs)
    BY NothingToFit
  <2>3. QED
    BY <1>1, <2>1, <2>2, GoFits
<1>5. CASE ~MaintainAborts
           /\ Go("UpdateRetryCounter", [ctx EXCEPT !.last = "OK"])
  <2> DEFINE c == [ctx EXCEPT !.last = "OK"]
  <2>1. Go("UpdateRetryCounter", c) /\ ~HasError(ctx)
    BY <1>5 DEF MaintainAborts
  <2>2. c.conn = ctx.conn /\ c.status = ctx.status /\ c.doubted = ctx.doubted
    BY <1>1 DEF Contexts
  <2> HIDE DEF c
  <2>3. EntryFits(outer, "UpdateRetryCounter", c, jobs)
    BY <1>1, <2>1, <2>2
       DEF EntryFits, IsCalm, PaceStates, HasConnection, HasError
  <2>4. QED
    BY <1>1, <2>1, <2>2, <2>3, GoFits
<1>6. CASE /\ ~MaintainAborts /\ ctx.last = "OK"
           /\ Go(IF HasConnection(ctx) THEN "VerifyRetryCounter"
                                       ELSE "SelectReader", ctx)
  <2> DEFINE s == IF HasConnection(ctx) THEN "VerifyRetryCounter"
                                        ELSE "SelectReader"
  <2>1. Go(s, ctx) /\ ~HasError(ctx) /\ s \in {"VerifyRetryCounter", "SelectReader"}
    BY <1>6 DEF MaintainAborts
  <2> HIDE DEF s
  <2>2. EntryFits(outer, s, ctx, jobs)
    BY <1>1, <1>6, <2>1 DEF EntryFits, IsCalm, PaceStates
  <2>3. QED
    BY <1>1, <2>1, <2>2, GoFits
<1>7. QED
  BY <1>2, <1>3, <1>4, <1>5, <1>6 DEF StateMaintainCardConnection

(* StateClearPacePasswords, StateSelectReader and StateConnectCard.        *)
LEMMA ClearFits ==
  ASSUME PaceInv, PaceInv', NEW outer, outer \cap PaceStates = {},
         PasswordInv(outer), NEW s, NEW t, StateClearPacePasswords(s, t),
         \/ t \notin PaceStates \cup outer
         \/ s = "ClearPacePasswordsBeforeDestroy" /\ t = "DestroyPace"
  PROVE  PasswordInv(outer)'
<1> DEFINE c == resetPacePasswords(ctx)
<1>1. /\ phase = "entered" /\ state = s /\ Go(t, c) /\ ctx \in Contexts
      /\ EntryFits(outer, state, ctx, jobs)
  BY DEF StateClearPacePasswords, Run, PasswordInv, ChoiceFits, PaceInv, PaceTypeOK
<1>2. c.conn = ctx.conn /\ c.status = ctx.status /\ c.doubted = ctx.doubted
  BY <1>1, ResetKeeps
<1> HIDE DEF c
<1>3. EntryFits(outer, t, c, jobs)
  <2>1. CASE t \notin PaceStates \cup outer
    BY <2>1, NothingToFit
  <2>2. CASE s = "ClearPacePasswordsBeforeDestroy" /\ t = "DestroyPace"
    BY <1>1, <1>2, <2>2 DEF EntryFits, IsCalm, PaceStates, HasConnection, HasError
  <2>3. QED
    BY <2>1, <2>2
<1>4. QED
  BY <1>1, <1>2, <1>3, GoFits DEF HasError

(* run() that only waits.                                                  *)
LEMMA WaitFitsToo ==
  ASSUME NEW outer, PasswordInv(outer), phase' = "waiting",
         UNCHANGED <<state, ctx, jobs, reader, card>>,
         ~IsCalm(outer, state, ctx)
  PROVE  PasswordInv(outer)'
<1>1. PasswordsFirst' /\ PasswordHeard'
  BY DEF PasswordInv, PasswordsFirst, PasswordHeard, HasError
<1>2. OldestFits'
  BY DEF PasswordInv, OldestFits, CommandFits, Alive, CardIn, CounterIn
<1>3. ChoiceFits(outer)'
  BY DEF ChoiceFits, WaitingFits, IsCalm
<1>4. QED
  BY <1>1, <1>2, <1>3 DEF PasswordInv

LEMMA SelectReaderFits ==
  ASSUME PaceInv, PaceInv', NEW outer, outer \cap PaceStates = {},
         PasswordInv(outer), StateSelectReader \/ StateConnectCard
  PROVE  PasswordInv(outer)'
<1>1. /\ phase = "entered" /\ state \in {"SelectReader", "ConnectCard"}
      /\ ~IsCalm(outer, state, ctx) /\ ctx \in Contexts
  BY DEF StateSelectReader, StateConnectCard, Run, IsCalm, PaceStates, PaceInv,
     PaceTypeOK
<1>2. ASSUME NEW r \in Readers, Select(r) PROVE PasswordInv(outer)'
  <2> DEFINE c == [ctx EXCEPT !.readerName = r]
  <2>1. Go("ConnectCard", c)
    BY <1>2 DEF Select
  <2>2. c.status = ctx.status /\ c.doubted = ctx.doubted
    BY <1>1 DEF Contexts
  <2> HIDE DEF c
  <2>3. EntryFits(outer, "ConnectCard", c, jobs)
    BY NothingToFit
  <2>4. QED
    BY <1>1, <2>1, <2>2, <2>3, GoFits DEF HasError
<1>3. CASE /\ state = "ConnectCard"
           /\ Call("CreateCardConnection", ctx.readerName, "UNKNOWN", NoPassword)
  <2>1. ctx.readerName \in Readers
    BY <1>1, <1>3 DEF PaceInv, ContextFits, ConnectionFits
  <2>2. /\ "CreateCardConnection" \in Operations \ PasswordCommands
        /\ "UNKNOWN" \in PaceTypes /\ NoPassword \in Passwords
    BY DEF Operations, PasswordCommands, PaceTypes, Passwords
  <2>3. QED
    BY <1>1, <1>3, <2>1, <2>2, CallsFit
<1>4. CASE phase' = "waiting" /\ UNCHANGED <<state, ctx, jobs, reader, card>>
  BY <1>1, <1>4, WaitFitsToo
<1>5. QED
  BY <1>2, <1>3, <1>4 DEF StateSelectReader, StateConnectCard, Run

LEMMA ConnectCardDoneFits ==
  ASSUME PaceInv, PaceInv', NEW outer, outer \cap PaceStates = {}, PinWanted,
         PasswordInv(outer), ConnectCardDone
  PROVE  PasswordInv(outer)'
<1> DEFINE q == Head(jobs).reader
           c == [ctx EXCEPT
                   !.conn = [reader |-> q, counter |-> reader[q].counter,
                             paceCan |-> FALSE, pacePin |-> FALSE],
                   !.doubted = Doubtful(CardIn(q), reader[q].counter)]
           d == [c EXCEPT !.doubted = TRUE]
<1>1. /\ Heard("ConnectCard") /\ state = "ConnectCard" /\ phase = "waiting"
      /\ jobs # <<>> /\ ~cancelDue /\ ctx \in Contexts
  BY HeardFacts DEF ConnectCardDone, PaceInv, PaceTypeOK
<1>2. /\ c.conn.paceCan = FALSE /\ c.status = ctx.status
      /\ d.doubted = TRUE /\ d.status = ctx.status
  BY <1>1 DEF Contexts
<1>3. CASE Return("MaintainCardConnection", ctx)
  <2>1. ~HasConnection(ctx) \/ ctx.doubted
    BY <1>1 DEF PaceInv, ContextFits, CardFits, PinWanted
  <2>2. EntryFits(outer, "MaintainCardConnection", ctx, Tail(jobs))
    BY <2>1 DEF EntryFits
  <2>3. QED
    BY <1>1, <1>3, <2>2, ReturnFits
<1>4. CASE Return("UpdateRetryCounter", c)
  <2>1. HasError(ctx) => HasError(c)
    BY <1>2 DEF HasError
  <2>2. EntryFits(outer, "UpdateRetryCounter", c, Tail(jobs))
    <3> HIDE DEF c, d
    <3>1. QED
      BY <1>2 DEF EntryFits, IsCalm, PaceStates
  <2> HIDE DEF c, d
  <2>3. QED
    BY <1>1, <1>4, <2>1, <2>2, ReturnFits
<1>5. CASE Main(d, Tail(jobs)) /\ UNCHANGED <<state, phase, cancelDue>>
  <2> HIDE DEF c, d
  <2>1. NoPasswordUnderWay
    BY <1>1, PasswordListener
       DEF PasswordInv, PasswordHeard, NoPasswordUnderWay, PaceInv, ContextFits,
           ErrorFits
  <2>2. PasswordsFirst' /\ OldestFits'
    BY <1>1, <1>5, <2>1, MainQueueFits DEF PasswordInv
  <2>3. PasswordHeard'
    BY <1>1, <1>5, <2>1, TailKeeps
       DEF PasswordHeard, NoPasswordUnderWay, Main, PaceInv, PaceTypeOK
  <2>4. ChoiceFits(outer)'
    BY <1>1, <1>5 DEF ChoiceFits, EntryFits, WaitingFits, IsCalm, PaceStates, Main
  <2>5. QED
    BY <2>2, <2>3, <2>4 DEF PasswordInv
<1>6. QED
  BY <1>3, <1>4, <1>5 DEF ConnectCardDone

(* StateUpdateRetryCounter, also at the end of a controller.               *)
LEMMA UpdateFits ==
  ASSUME PaceInv, PaceInv', NEW outer, outer \cap PaceStates = {},
         PasswordInv(outer), NEW s, NEW a, StateUpdateRetryCounter(s, a)
  PROVE  PasswordInv(outer)'
<1>1. phase = "entered" /\ state = s
  BY DEF StateUpdateRetryCounter, Run
<1>2. CASE ~HasConnection(ctx) /\ Go(a, ctx)
  BY <1>1, <1>2, NothingToFit, GoFits
<1>3. CASE /\ HasConnection(ctx)
           /\ Call("UpdateRetryCounter", ctx.conn.reader, "UNKNOWN", NoPassword)
  <2>1. ctx.conn.reader \in Readers
    BY <1>3 DEF PaceInv, ContextFits, ConnectionFits, HasConnection
  <2>2. /\ "UpdateRetryCounter" \in Operations \ PasswordCommands
        /\ "UNKNOWN" \in PaceTypes /\ NoPassword \in Passwords
    BY DEF Operations, PasswordCommands, PaceTypes, Passwords
  <2>3. QED
    BY <1>1, <1>3, <2>1, <2>2, CallsFit
<1>4. QED
  BY <1>2, <1>3 DEF StateUpdateRetryCounter

LEMMA UpdateDoneFits ==
  ASSUME PaceInv, PaceInv', NEW outer, outer \cap PaceStates = {},
         PasswordInv(outer), NEW s, NEW t, NEW a, UpdateRetryCounterDone(s, t, a),
         \/ s = "UpdateRetryCounter" /\ t = "VerifyRetryCounter"
         \/ t \notin PaceStates \cup outer
  PROVE  PasswordInv(outer)'
<1>1. Heard(s) /\ state = s /\ phase = "waiting" /\ jobs # <<>>
  BY HeardFacts DEF UpdateRetryCounterDone
<1>2. CASE Result = "OK" /\ Return(t, ctx)
  <2>1. CASE t \notin PaceStates \cup outer
    BY <1>1, <1>2, <2>1, NothingToFit, ReturnFits
  <2>2. CASE s = "UpdateRetryCounter" /\ t = "VerifyRetryCounter"
    <3>1. /\ jobs[1].op = "UpdateRetryCounter" /\ jobs[1].result = "OK"
          /\ jobs[1].reader = ctx.conn.reader /\ jobs[1].heard
          /\ Len(Tail(jobs)) = 0
      <4>1. /\ jobs \in Seq(Jobs) /\ Len(jobs) = 1 /\ Head(jobs) = jobs[1]
            /\ Head(jobs).reader = ctx.conn.reader
            /\ CallFits("UpdateRetryCounter", Head(jobs).op)
        BY <1>1, <2>2, HeardFacts
      <4>2. /\ Head(jobs).op = "UpdateRetryCounter" /\ Head(jobs).result = "OK"
            /\ Head(jobs).heard
        BY <1>1, <1>2, <4>1 DEF CallFits, PaceCalls, PaceStates, Result, Heard
      <4>3. Len(Tail(jobs)) = 0
        BY <4>1, OnlyCommand
      <4>4. QED
        BY <4>1, <4>2, <4>3
    <3>2. (~ctx.doubted => CommandFits(jobs[1])) /\ WaitingFits(outer)
      BY <1>1 DEF PasswordInv, OldestFits, ChoiceFits
    <3>3. EntryFits(outer, "VerifyRetryCounter", ctx, Tail(jobs))
      BY <1>1, <2>2, <3>1, <3>2
         DEF EntryFits, WaitingFits, CommandFits, IsCalm, PaceStates
    <3>4. QED
      BY <1>1, <1>2, <2>2, <3>3, ReturnFits
  <2>3. QED
    BY <2>1, <2>2
<1>3. CASE Return(a, [ctx EXCEPT !.conn = NoConnection])
  <2> DEFINE c == [ctx EXCEPT !.conn = NoConnection]
  <2>1. ~HasConnection(c) /\ c.doubted = ctx.doubted /\ c.status = ctx.status
    BY DEF HasConnection, PaceInv, PaceTypeOK, Contexts
  <2> HIDE DEF c
  <2>2. EntryFits(outer, a, c, Tail(jobs))
    BY <2>1, NothingToFit
  <2>3. Return(a, c)
    BY <1>3 DEF c
  <2>4. QED
    BY <1>1, <2>1, <2>2, <2>3, ReturnFits DEF HasError
<1>4. QED
  BY <1>2, <1>3 DEF UpdateRetryCounterDone

LEMMA VerifyFits ==
  ASSUME PaceInv, PaceInv', NEW outer, outer \cap PaceStates = {},
         PasswordInv(outer), StateVerifyRetryCounter
  PROVE  PasswordInv(outer)'
<1>1. /\ phase = "entered" /\ state = "VerifyRetryCounter" /\ ctx \in Contexts
      /\ EntryFits(outer, state, ctx, jobs)
  BY DEF StateVerifyRetryCounter, Run, PasswordInv, ChoiceFits, PaceInv, PaceTypeOK
<1>2. CASE ~HasConnection(ctx) /\ Go("MaintainCardConnection", ctx)
  BY <1>1, <1>2, NothingToFit, GoFits
<1>3. CASE HasConnection(ctx) /\ Go("PreparePace", Verified)
  <2>1. /\ Verified.conn = ctx.conn /\ Verified.status = ctx.status
        /\ Verified.doubted = ctx.doubted
    <3> DEFINE d == resetPacePasswords(ctx)
               e == [d EXCEPT !.expectedReader = ctx.readerName,
                              !.expectedCounter = ctx.conn.counter]
    <3>1. /\ d \in Contexts /\ d.conn = ctx.conn /\ d.status = ctx.status
          /\ d.doubted = ctx.doubted
      BY <1>1, ResetKeeps
    <3>2. e.conn = d.conn /\ e.status = d.status /\ e.doubted = d.doubted
      <4> HIDE DEF d
      <4>1. QED
        BY <3>1 DEF Contexts
    <3>3. Verified = ctx \/ Verified = e
      BY DEF Verified
    <3>4. QED
      BY <3>1, <3>2, <3>3
  <2>2. EntryFits(outer, "PreparePace", Verified, jobs)
    BY <1>1, <2>1 DEF EntryFits, IsCalm, PaceStates, HasConnection, HasError
  <2>3. QED
    BY <1>1, <1>3, <2>1, <2>2, GoFits DEF HasError
<1>4. QED
  BY <1>2, <1>3 DEF StateVerifyRetryCounter

(* The password is chosen by the counter, and after the CAN by the flag.   *)
LEMMA PrepareFits ==
  ASSUME PaceInv, PaceInv', NEW outer, outer \cap PaceStates = {},
         "Unreachable" \notin outer, PinWanted, PasswordInv(outer),
         StatePreparePace
  PROVE  PasswordInv(outer)'
<1>1. /\ phase = "entered" /\ state = "PreparePace" /\ ctx \in Contexts
      /\ EntryFits(outer, state, ctx, jobs) /\ card \in CardRecords
      /\ reader \in [Readers -> ReaderStates]
  BY DEF StatePreparePace, Run, PasswordInv, ChoiceFits, PaceInv, PaceTypeOK
<1>2. ASSUME NEW type \in PaceTypes
      PROVE  LET c == [ctx EXCEPT !.paceType = type]
             IN /\ c.paceType = type /\ c.conn = ctx.conn
                /\ c.status = ctx.status /\ c.doubted = ctx.doubted
  BY <1>1 DEF Contexts
<1>3. CASE /\ ~HasConnection(ctx)
           /\ Go("MaintainCardConnection", [ctx EXCEPT !.paceType = "UNKNOWN"])
  <2> DEFINE c == [ctx EXCEPT !.paceType = "UNKNOWN"]
  <2>1. c.conn = ctx.conn /\ c.status = ctx.status /\ c.doubted = ctx.doubted
    BY <1>2 DEF PaceTypes
  <2>2. Go("MaintainCardConnection", c)
    BY <1>3
  <2> HIDE DEF c
  <2>3. EntryFits(outer, "MaintainCardConnection", c, jobs)
    BY <1>3, <2>1, NothingToFit DEF HasConnection
  <2>4. QED
    BY <1>1, <2>1, <2>2, <2>3, GoFits DEF HasError
<1>4. ASSUME NEW type \in {"PACE_PIN", "PACE_CAN", "PACE_PUK"}, Prepare(type),
             HasConnection(ctx),
             type = "PACE_PUK" => ctx.conn.counter = 0,
             type = "PACE_PIN" => ctx.conn.counter # 0 /\ ~CanStillRequired
      PROVE  PasswordInv(outer)'
  <2> DEFINE c == [ctx EXCEPT !.paceType = type]
             s == IF ctx.pw[KindOf[type]] = NoPassword THEN "EnterPacePassword"
                                                       ELSE "EstablishPaceChannel"
  <2>1. /\ c.conn = ctx.conn /\ c.status = ctx.status /\ c.paceType = type
        /\ c.doubted = ctx.doubted
    BY <1>2 DEF PaceTypes
  <2>2. Go(s, c) /\ s \in {"EnterPacePassword", "EstablishPaceChannel"}
    BY <1>4 DEF Prepare
  <2> HIDE DEF c, s
  <2>3. /\ ctx.conn.reader \in Readers
        /\ ~ctx.doubted => ctx.conn.counter = reader[ctx.conn.reader].counter
    BY <1>4 DEF PaceInv, ContextFits, ConnectionFits, InfoFits, HasConnection
  <2>4. Alive(ctx.conn.reader) => CounterIn(ctx.conn.reader) \in 0 .. 3
    BY <1>1, <2>3 DEF Alive, CardIn, CounterIn, CardRecords, ReaderStates
  <2>5. EntryFits(outer, s, c, jobs)
    BY <1>1, <1>4, <2>1, <2>2, <2>3, <2>4
       DEF EntryFits, IsCalm, PaceStates, HasConnection, HasError, CanStillRequired
  <2>6. QED
    BY <1>1, <2>1, <2>2, <2>5, GoFits DEF HasError
<1>5. CASE Go("Unreachable", [ctx EXCEPT !.paceType = "PACE_PIN"])
  <2> DEFINE c == [ctx EXCEPT !.paceType = "PACE_PIN"]
  <2>1. c.status = ctx.status /\ c.doubted = ctx.doubted
    BY <1>2 DEF PaceTypes
  <2>2. Go("Unreachable", c)
    BY <1>5
  <2> HIDE DEF c
  <2>3. EntryFits(outer, "Unreachable", c, jobs)
    BY NothingToFit DEF PaceStates
  <2>4. QED
    BY <1>1, <2>1, <2>2, <2>3, GoFits DEF HasError
<1>6. CASE HasConnection(ctx) /\ ctx.conn.counter = 0 /\ Prepare("PACE_PUK")
  BY <1>4, <1>6
<1>7. CASE HasConnection(ctx) /\ CanStillRequired /\ Prepare("PACE_CAN")
  BY <1>4, <1>7
<1>8. CASE /\ HasConnection(ctx) /\ ctx.conn.counter # 0 /\ ~CanStillRequired
           /\ Prepare("PACE_PIN")
  BY <1>4, <1>8
<1>9. QED
  BY <1>3, <1>5, <1>6, <1>7, <1>8 DEF StatePreparePace, PinWanted

LEMMA EnterPasswordFits ==
  ASSUME PaceInv, PaceInv', NEW outer, outer \cap PaceStates = {},
         PasswordInv(outer), StateEnterPacePassword
  PROVE  PasswordInv(outer)'
<1>1. /\ state = "EnterPacePassword" /\ phase = "entered" /\ ctx \in Contexts
      /\ EntryFits(outer, state, ctx, jobs)
  BY DEF StateEnterPacePassword, Run, PasswordInv, ChoiceFits, PaceInv, PaceTypeOK
<1>2. PICK c \in TypePassword :
        /\ Enter(IF HasError(c) THEN "MaintainCardConnection"
                                ELSE "EstablishPaceChannel")
        /\ ctx' = c /\ UNCHANGED <<jobs, reader, card>>
  BY <1>1 DEF StateEnterPacePassword
<1>3. /\ c.conn = ctx.conn /\ c.status = ctx.status /\ c.paceType = ctx.paceType
      /\ c.doubted = ctx.doubted
  <2>1. \/ c = ctx
        \/ \E p \in Passwords : c = [ctx EXCEPT !.pw[KindOf[ctx.paceType]] = p]
    BY <1>2 DEF TypePassword, Passwords
  <2>2. QED
    BY <1>1, <2>1 DEF Contexts
<1>4. PasswordsFirst' /\ PasswordHeard' /\ OldestFits'
  BY <1>2, <1>3
     DEF PasswordInv, PasswordsFirst, PasswordHeard, OldestFits, CommandFits,
         Alive, CardIn, CounterIn, HasError
<1>5. ChoiceFits(outer)'
  <2>1. EntryFits(outer, state, ctx, jobs)'
    BY <1>1, <1>2, <1>3
       DEF EntryFits, IsCalm, PaceStates, HasConnection, HasError, Alive, CardIn,
           CounterIn, Enter
  <2>2. QED
    BY <1>2, <2>1 DEF ChoiceFits, Enter
<1>6. QED
  BY <1>4, <1>5 DEF PasswordInv

LEMMA EstablishFits ==
  ASSUME PaceInv, PaceInv', NEW outer, outer \cap PaceStates = {},
         PasswordInv(outer), StateEstablishPaceChannel
  PROVE  PasswordInv(outer)'
<1>1. /\ state = "EstablishPaceChannel" /\ phase = "entered" /\ ctx \in Contexts
      /\ EntryFits(outer, state, ctx, jobs)
      /\ ctx.paceType \in {"PACE_PIN", "PACE_CAN", "PACE_PUK"}
  BY ContextTypes
     DEF StateEstablishPaceChannel, Run, PasswordInv, ChoiceFits, PaceInv,
         PaceTypeOK, ContextFits, ConnectionFits, PaceTypes
<1> DEFINE pw == ctx.pw[KindOf[ctx.paceType]]
           r == ctx.conn.reader
<1>2. CASE \/ HasError(ctx) /\ Go("MaintainCardConnection", ctx)
           \/ /\ ~HasError(ctx) /\ ~HasConnection(ctx)
              /\ Go("MaintainCardConnection", [ctx EXCEPT !.last = "OK"])
           \/ /\ ~HasError(ctx) /\ HasConnection(ctx)
              /\ Go("MaintainCardConnection",
                    [resetPacePasswords(ctx) EXCEPT !.last = "OK"])
  <2> DEFINE d == resetPacePasswords(ctx)
             e == [d EXCEPT !.last = "OK"]
             f == [ctx EXCEPT !.last = "OK"]
  <2>1. /\ d \in Contexts /\ d.conn = ctx.conn /\ d.status = ctx.status
        /\ d.doubted = ctx.doubted
    BY <1>1, ResetKeeps
  <2>2. e.conn = d.conn /\ e.status = d.status /\ e.doubted = d.doubted
    <3> HIDE DEF d
    <3>1. QED
      BY <2>1 DEF Contexts
  <2>3. f.conn = ctx.conn /\ f.status = ctx.status /\ f.doubted = ctx.doubted
    BY <1>1 DEF Contexts
  <2>4. \/ Go("MaintainCardConnection", ctx)
        \/ Go("MaintainCardConnection", f)
        \/ Go("MaintainCardConnection", e)
    BY <1>2
  <2> HIDE DEF d, e, f
  <2>5. ASSUME NEW c, c.conn = ctx.conn, c.status = ctx.status,
             c.doubted = ctx.doubted
        PROVE  EntryFits(outer, "MaintainCardConnection", c, jobs)
    BY <1>1, <2>5 DEF EntryFits, IsCalm, PaceStates, HasConnection, HasError
  <2>6. /\ EntryFits(outer, "MaintainCardConnection", ctx, jobs)
        /\ EntryFits(outer, "MaintainCardConnection", e, jobs)
        /\ EntryFits(outer, "MaintainCardConnection", f, jobs)
    BY <2>1, <2>2, <2>3, <2>5
  <2>7. /\ HasError(ctx) => HasError(e)
        /\ HasError(ctx) => HasError(f)
        /\ e.doubted = ctx.doubted /\ f.doubted = ctx.doubted
    BY <2>1, <2>2, <2>3 DEF HasError
  <2>8. QED
    BY <1>1, <2>4, <2>6, <2>7, GoFits
<1>3. CASE /\ ~HasError(ctx) /\ HasConnection(ctx)
           /\ Call(IF ctx.paceType = "PACE_PUK" THEN "UnblockPin"
                                                ELSE "EstablishPaceChannel",
                   r, ctx.paceType, pw)
  <2> DEFINE op == IF ctx.paceType = "PACE_PUK" THEN "UnblockPin"
                                                ELSE "EstablishPaceChannel"
  <2>1. /\ op \in Operations /\ ctx.paceType \in PaceTypes /\ pw \in Passwords
    BY <1>1, KindTypes, ContextTypes DEF Operations, PaceTypes
  <2>2. r \in Readers
    BY <1>1, <1>3 DEF PaceInv, ContextFits, ConnectionFits, HasConnection
  <2>3. QED
    BY <1>1, <1>3, <2>1, <2>2, CallsFit
<1>4. QED
  BY <1>2, <1>3 DEF StateEstablishPaceChannel

LEMMA UnfortunateFits ==
  ASSUME PaceInv, PaceInv', NEW outer, outer \cap PaceStates = {},
         PasswordInv(outer), StateUnfortunateCardPosition
  PROVE  PasswordInv(outer)'
<1> DEFINE c == setNpaPositionVerified(ctx)
<1>1. /\ Go("MaintainCardConnection", c) /\ phase = "entered" /\ ctx \in Contexts
      /\ state = "UnfortunateCardPosition"
  BY DEF StateUnfortunateCardPosition, Run, PaceInv, PaceTypeOK
<1>2. c.conn = ctx.conn /\ c.status = ctx.status /\ c.doubted = ctx.doubted
  BY <1>1 DEF setNpaPositionVerified, Contexts
<1>3. ~HasConnection(c)
  BY <1>1, <1>2 DEF PaceInv, ContextFits, ConnectionFits, HasConnection
<1> HIDE DEF c
<1>4. EntryFits(outer, "MaintainCardConnection", c, jobs)
  BY <1>3, NothingToFit
<1>5. QED
  BY <1>1, <1>2, <1>4, GoFits DEF HasError

(* StateDestroyPace, in the composite and in a controller.                 *)
LEMMA DestroyFits ==
  ASSUME PaceInv, PaceInv', NEW outer, PasswordInv(outer), NEW s,
         StateDestroyPace(s)
  PROVE  PasswordInv(outer)'
<1>1. /\ state = s /\ phase = "entered" /\ HasConnection(ctx)
      /\ Call("DestroyPaceChannel", ctx.conn.reader, "UNKNOWN", NoPassword)
  BY DEF StateDestroyPace, Run
<1>2. /\ "DestroyPaceChannel" \in Operations \ PasswordCommands
      /\ "UNKNOWN" \in PaceTypes /\ NoPassword \in Passwords
  BY DEF Operations, PasswordCommands, PaceTypes, Passwords
<1>3. ctx.conn.reader \in Readers
  BY <1>1 DEF PaceInv, ContextFits, ConnectionFits, HasConnection
<1>4. QED
  BY <1>1, <1>2, <1>3, CallsFit

LEMMA DestroyDoneFits ==
  ASSUME PaceInv, PaceInv', NEW outer, outer \cap PaceStates = {},
         PasswordInv(outer), NEW s, NEW t, DestroyPaceDone(s, t),
         \/ s = "DestroyPace" /\ t = "MaintainCardConnection"
         \/ t \notin PaceStates \cup outer
  PROVE  PasswordInv(outer)'
<1>1. /\ Heard(s) /\ state = s /\ phase = "waiting" /\ jobs # <<>>
      /\ Return(t, ctx)
  BY HeardFacts DEF DestroyPaceDone
<1>2. CASE t \notin PaceStates \cup outer
  BY <1>1, <1>2, NothingToFit, ReturnFits
<1>3. CASE s = "DestroyPace" /\ t = "MaintainCardConnection"
  <2>1. /\ jobs[1].op = "DestroyPaceChannel" /\ Len(Tail(jobs)) = 0
    <3>1. /\ jobs \in Seq(Jobs) /\ Len(jobs) = 1 /\ Head(jobs) = jobs[1]
          /\ CallFits("DestroyPace", Head(jobs).op)
      BY <1>1, <1>3, HeardFacts
    <3>2. Head(jobs).op = "DestroyPaceChannel"
      BY <3>1 DEF CallFits, PaceCalls, PaceStates
    <3>3. QED
      BY <3>1, <3>2, OnlyCommand
  <2>2. WaitingFits(outer) /\ ctx.last # "OK"
    BY <1>1, <1>3 DEF PasswordInv, ChoiceFits, PaceInv, ContextFits, ConnectionFits
  <2>3. EntryFits(outer, "MaintainCardConnection", ctx, Tail(jobs))
    BY <1>1, <1>3, <2>1, <2>2 DEF EntryFits, WaitingFits, IsCalm, PaceStates
  <2>4. QED
    BY <1>1, <1>3, <2>3, ReturnFits
<1>4. QED
  BY <1>2, <1>3

(* The callback of the password: the flag of the CAN and the counter agree *)
(* in every state it leads to.                                             *)
LEMMA FlagAfterPace ==
  ASSUME PaceInv, Heard("EstablishPaceChannel"), Result \notin CardVanished
  PROVE  AfterPace.conn.paceCan =
           IF jobs[1].op # "EstablishPaceChannel" THEN ctx.conn.paceCan
           ELSE IF jobs[1].type = "PACE_CAN" THEN Result = "OK"
           ELSE ctx.conn.paceCan /\ Result = "OK"
<1> DEFINE f == PaceFlags(ctx, Head(jobs))
           d == [f EXCEPT !.last = Result]
<1>1. /\ ctx \in Contexts /\ Head(jobs) = jobs[1] /\ Result = jobs[1].result
      /\ jobs[1].reader = ctx.conn.reader
  BY HeardFacts DEF PaceInv, PaceTypeOK, Result
<1>2. f.conn.paceCan =
        IF jobs[1].op # "EstablishPaceChannel" THEN ctx.conn.paceCan
        ELSE IF jobs[1].type = "PACE_CAN" THEN Result = "OK"
        ELSE ctx.conn.paceCan /\ Result = "OK"
  BY <1>1 DEF PaceFlags, Contexts, Connections
<1>3. AfterPace = setNpaPositionVerified(d)
  BY DEF AfterPace
<1>4. f \in Contexts
  BY <1>1, PaceFlagsKeep
<1> HIDE DEF f
<1>5. AfterPace.conn = f.conn
  BY <1>3, <1>4 DEF setNpaPositionVerified, Contexts
<1>6. QED
  BY <1>2, <1>5

LEMMA EstablishDoneFits ==
  ASSUME PaceInv, PaceInv', NEW outer, outer \cap PaceStates = {},
         PasswordInv(outer), PinWanted, ExitsOutside,
         EstablishPaceChannelDone
  PROVE  PasswordInv(outer)'
<1> DEFINE c == AfterPace
<1>1. Heard("EstablishPaceChannel")
  BY DEF EstablishPaceChannelDone
<1>2. /\ state = "EstablishPaceChannel" /\ phase = "waiting" /\ jobs # <<>>
      /\ Head(jobs) = jobs[1] /\ jobs \in Seq(Jobs) /\ Len(Tail(jobs)) = 0
      /\ ResultTrue(1) /\ jobs[1].heard /\ jobs[1].result = Result
      /\ jobs[1].op \in {"EstablishPaceChannel", "UnblockPin"}
      /\ jobs[1].reader = ctx.conn.reader
      /\ HasConnection(ctx) /\ ~HasError(ctx)
  <2>1. /\ state = "EstablishPaceChannel" /\ phase = "waiting" /\ jobs # <<>>
        /\ Head(jobs) = jobs[1] /\ jobs \in Seq(Jobs) /\ Len(jobs) = 1
        /\ ResultTrue(1) /\ Head(jobs).reader = ctx.conn.reader
        /\ CallFits("EstablishPaceChannel", Head(jobs).op)
    BY <1>1, HeardFacts
  <2>2. Head(jobs).heard /\ Result = Head(jobs).result
    BY <1>1 DEF Heard, Result
  <2>3. Head(jobs).op \in {"EstablishPaceChannel", "UnblockPin"}
    BY <2>1 DEF CallFits, PaceCalls, PaceStates
  <2>4. QED
    BY <1>1, <2>1, <2>2, <2>3, OnlyCommand, AfterPaceFacts
<1>3. /\ c \in Contexts /\ c.last = Result /\ c.status = ctx.status
      /\ c.doubted = ctx.doubted
      /\ Result \in CardVanished => c.conn = NoConnection
      /\ Result \notin CardVanished =>
           /\ HasConnection(c) /\ c.conn.reader = ctx.conn.reader
           /\ c.conn.paceCan =
                IF jobs[1].op # "EstablishPaceChannel" THEN ctx.conn.paceCan
                ELSE IF jobs[1].type = "PACE_CAN" THEN Result = "OK"
                ELSE ctx.conn.paceCan /\ Result = "OK"
  BY <1>1, AfterPaceFacts, FlagAfterPace
<1>4. (~ctx.doubted => CommandFits(jobs[1])) /\ WaitingFits(outer)
  BY <1>2 DEF PasswordInv, OldestFits, ChoiceFits
<1>5. jobs[1].op = "EstablishPaceChannel" =>
        /\ jobs[1].type \in {"PACE_PIN", "PACE_CAN"}
        /\ jobs[1].type = ctx.paceType
        /\ Result = "OK" => reader[ctx.conn.reader].session =
                              IF jobs[1].type = "PACE_PIN" THEN "pin" ELSE "can"
  BY <1>2 DEF ResultTrue
<1> HIDE DEF c
(* Where the answer leads, with what is done to the context on the way.    *)
<1>6. ASSUME NEW t, NEW d, Return(t, d), d.conn = c.conn,
             d.doubted = c.doubted,
             \/ HasError(d)
             \/ t \notin {"VerifyRetryCounter", "PreparePace", "EnterPacePassword",
                          "EstablishPaceChannel", "DestroyPace"},
             t = "ClearPacePasswordsBeforeDestroy" =>
               Result = "INVALID_PIN" \/ ctx.paceType = "PACE_PUK",
             (t = "MaintainCardConnection" /\ d.last = "OK") =>
               HasError(d) \/ (Result = "OK" /\ ctx.paceType = "PACE_CAN")
      PROVE  PasswordInv(outer)'
  <2>1. CASE Result \in CardVanished
    <3>1. ~HasConnection(d)
      BY <1>3, <1>6, <2>1 DEF HasConnection
    <3>2. EntryFits(outer, t, d, Tail(jobs))
      BY <3>1 DEF EntryFits
    <3>3. QED
      BY <1>1, <1>2, <1>3, <1>6, <3>2, ReturnFits
  <2>2. CASE Result \notin CardVanished
    <3> DEFINE r == ctx.conn.reader
    <3>1. /\ d.conn.reader = r
          /\ d.conn.paceCan =
                IF jobs[1].op # "EstablishPaceChannel" THEN ctx.conn.paceCan
                ELSE IF jobs[1].type = "PACE_CAN" THEN Result = "OK"
                ELSE ctx.conn.paceCan /\ Result = "OK"
      BY <1>3, <1>6, <2>2
    <3>3. ASSUME Alive(r), d.conn.paceCan, CounterIn(r) = 1, ~ctx.doubted
          PROVE  /\ reader[r].session = "can"
                 /\ Result = "OK" /\ jobs[1].type = "PACE_CAN"
                 /\ jobs[1].op = "EstablishPaceChannel"
      <4>1. jobs[1].op = "EstablishPaceChannel"
        BY <1>2, <1>4, <3>3 DEF CommandFits
      <4>2. Result = "OK"
        BY <3>1, <3>3, <4>1
      <4>3. jobs[1].type = "PACE_CAN"
        BY <1>2, <1>4, <1>5, <3>3, <4>1, <4>2 DEF CommandFits
      <4>4. QED
        BY <1>5, <4>1, <4>2, <4>3
    <3>4. (~ctx.doubted /\ Alive(r) /\ ctx.paceType = "PACE_CAN" /\ Result = "OK"
           /\ jobs[1].op = "EstablishPaceChannel")
             => reader[r].counter = CounterIn(r)
      BY <1>2, <1>4, <1>5 DEF WaitingFits, IsCalm, PaceStates
    <3>5. jobs[1].op = "UnblockPin" => ctx.paceType = "PACE_PUK"
      BY <1>2 DEF ResultTrue
    <3> HIDE DEF r
    <3>6. EntryFits(outer, t, d, Tail(jobs))
      <4> SUFFICES ASSUME HasConnection(d), ~HasError(d), ~ctx.doubted
                   PROVE  EntryFits(outer, t, d, Tail(jobs))
        BY <1>3, <1>6 DEF EntryFits
      <4>1. t = "ClearPacePasswordsBeforeDestroy" =>
              ~(Alive(r) /\ d.conn.paceCan /\ CounterIn(r) = 1)
        BY <1>5, <1>6, <3>3
      <4>2. (t = "MaintainCardConnection" /\ d.last = "OK" /\ Alive(r))
              => reader[r].counter = CounterIn(r)
        BY <1>2, <1>6, <3>4, <3>5
      <4>3. QED
        BY <1>2, <1>6, <3>1, <3>3, <4>1, <4>2 DEF EntryFits
    <3>7. QED
      BY <1>1, <1>2, <1>3, <1>6, <3>6, ReturnFits
  <2>3. QED
    BY <2>1, <2>2
<1>7. CASE /\ Result = "OK" /\ Established(ctx.paceType)
           /\ Return(OnEstablished,
                     [c EXCEPT !.expectedCounter =
                        IF ctx.paceType = "PACE_PIN" THEN 3 ELSE @])
  <2> DEFINE d == [c EXCEPT !.expectedCounter =
                     IF ctx.paceType = "PACE_PIN" THEN 3 ELSE @]
  <2>1. d.conn = c.conn /\ d.doubted = c.doubted
    BY <1>3 DEF Contexts
  <2>2. Return(OnEstablished, d)
    BY <1>7
  <2> HIDE DEF d
  <2>3. OnEstablished \notin PaceStates
    BY DEF ExitsOutside
  <2>4. QED
    BY <1>6, <2>1, <2>2, <2>3 DEF PaceStates
<1>8. CASE /\ Result = "OK" /\ ctx.paceType = "PACE_CAN"
           /\ Return("MaintainCardConnection", c)
  BY <1>6, <1>8
<1>9. CASE /\ Result = "OK" /\ ctx.paceType = "PACE_PUK"
           /\ Return("ClearPacePasswordsBeforeDestroy",
                     [resetPacePasswords(c) EXCEPT !.expectedCounter = -1,
                                                   !.last = "OK_PUK"])
  <2> DEFINE e == resetPacePasswords(c)
             d == [e EXCEPT !.expectedCounter = -1, !.last = "OK_PUK"]
  <2>1. e \in Contexts /\ e.conn = c.conn /\ e.doubted = c.doubted
    BY <1>3, ResetKeeps
  <2>2. d.conn = e.conn /\ d.doubted = e.doubted
    <3> HIDE DEF e
    <3>1. QED
      BY <2>1 DEF Contexts
  <2>3. Return("ClearPacePasswordsBeforeDestroy", d)
    BY <1>9
  <2> HIDE DEF d, e
  <2>4. QED
    BY <1>6, <1>9, <2>1, <2>2, <2>3
<1>10. CASE /\ Result \in {"PUK_INOPERATIVE", "CANCELLATION_BY_USER"}
            /\ Return("MaintainCardConnection",
                      updateStatus(c, toGlobalStatus[Result]))
  <2> DEFINE d == updateStatus(c, toGlobalStatus[Result])
  <2>1. Result \in Codes
    BY <1>1, HeardFacts
  <2>2. /\ toGlobalStatus[Result] \in Statuses
        /\ toGlobalStatus[Result] # "No_Error"
    BY <1>10, <2>1, StatusTypes
  <2>3. HasError(d) /\ d.conn = c.conn /\ d.doubted = c.doubted
    BY <1>3, <2>2, UpdateStatusKeeps
  <2>4. Return("MaintainCardConnection", d)
    BY <1>10
  <2> HIDE DEF d
  <2>5. QED
    BY <1>6, <2>3, <2>4
<1>11. CASE /\ Result = "INVALID_PIN"
            /\ Return("ClearPacePasswordsBeforeDestroy",
                      [c EXCEPT !.last = RefinedInvalidPin])
  <2> DEFINE d == [c EXCEPT !.last = RefinedInvalidPin]
  <2>1. d.conn = c.conn /\ d.doubted = c.doubted
    BY <1>3 DEF Contexts
  <2>2. Return("ClearPacePasswordsBeforeDestroy", d)
    BY <1>11
  <2> HIDE DEF d
  <2>3. QED
    BY <1>6, <1>11, <2>1, <2>2
<1>12. CASE /\ Result \notin {"OK", "PUK_INOPERATIVE", "CANCELLATION_BY_USER",
                              "INVALID_PIN"}
            /\ \E told \in isNpaRepositioningRequired(c) :
                 Return(IF told THEN "UnfortunateCardPosition"
                                ELSE "MaintainCardConnection", c)
  <2>1. PICK told \in isNpaRepositioningRequired(c) :
          Return(IF told THEN "UnfortunateCardPosition"
                         ELSE "MaintainCardConnection", c)
    BY <1>12
  <2>2. QED
    BY <1>3, <1>6, <1>12, <2>1
<1>13. QED
  BY <1>7, <1>8, <1>9, <1>10, <1>11, <1>12 DEF EstablishPaceChannelDone, c

(* StateCleanUpReaderManager gives the connection up.                      *)
LEMMA CleanUpFits ==
  ASSUME PaceInv, PaceInv', NEW outer, outer \cap PaceStates = {},
         PasswordInv(outer), NEW t, StateCleanUpReaderManager(t)
  PROVE  PasswordInv(outer)'
<1> DEFINE c == [ctx EXCEPT !.conn = NoConnection]
<1>1. Go(t, c) /\ phase = "entered" /\ ctx \in Contexts
  BY DEF StateCleanUpReaderManager, Run, PaceInv, PaceTypeOK
<1>2. ~HasConnection(c) /\ c.status = ctx.status /\ c.doubted = ctx.doubted
  BY <1>1 DEF HasConnection, Contexts
<1> HIDE DEF c
<1>3. EntryFits(outer, t, c, jobs)
  BY <1>2, NothingToFit
<1>4. QED
  BY <1>1, <1>2, <1>3, GoFits DEF HasError

(* Every step of the composite.                                            *)
LEMMA PaceStepFits ==
  ASSUME PaceInv, PaceInv', NEW outer, outer \cap PaceStates = {},
         {OnAbort, "Unreachable"} \cap outer = {}, PinWanted, ExitsOutside,
         PasswordInv(outer), PaceStep
  PROVE  PasswordInv(outer)'
<1>0. OnAbort \notin PaceStates \cup outer
  BY DEF ExitsOutside
<1>1. CASE StateMaintainCardConnection
  BY <1>1, MaintainFits
<1>2. CASE \/ StateClearPacePasswords("ClearPacePasswordsOnError", OnAbort)
           \/ StateClearPacePasswords("ClearPacePasswordsBeforeDestroy", "DestroyPace")
  BY <1>0, <1>2, ClearFits
<1>3. CASE StateSelectReader \/ StateConnectCard
  BY <1>3, SelectReaderFits
<1>4. CASE ConnectCardDone
  BY <1>4, ConnectCardDoneFits
<1>5. CASE StateUpdateRetryCounter("UpdateRetryCounter", "MaintainCardConnection")
  BY <1>5, UpdateFits
<1>6. CASE UpdateRetryCounterDone("UpdateRetryCounter", "VerifyRetryCounter",
                                  "MaintainCardConnection")
  BY <1>6, UpdateDoneFits
<1>7. CASE StateVerifyRetryCounter
  BY <1>7, VerifyFits
<1>8. CASE StatePreparePace
  BY <1>8, PrepareFits
<1>9. CASE StateEnterPacePassword
  BY <1>9, EnterPasswordFits
<1>10. CASE StateEstablishPaceChannel \/ EstablishPaceChannelDone
  BY <1>10, EstablishFits, EstablishDoneFits
<1>11. CASE StateUnfortunateCardPosition
  BY <1>11, UnfortunateFits
<1>12. CASE StateDestroyPace("DestroyPace")
  BY <1>12, DestroyFits
<1>13. CASE DestroyPaceDone("DestroyPace", "MaintainCardConnection")
  BY <1>13, DestroyDoneFits
<1>14. QED
  BY <1>1, <1>2, <1>3, <1>4, <1>5, <1>6, <1>7, <1>8, <1>9, <1>10, <1>11, <1>12,
     <1>13 DEF PaceStep

-----------------------------------------------------------------------------
(* Nothing is said of a state before the channel, or after an error.       *)
LEMMA NotCalmFits ==
  ASSUME NEW outer, outer \cap PaceStates = {},
         \/ ~HasConnection(ctx') \/ HasError(ctx') \/ ctx'.doubted
         \/ ~IsCalm(outer, state', ctx')
  PROVE  ChoiceFits(outer)'
<1>1. EntryFits(outer, state, ctx, jobs)'
  BY DEF EntryFits, IsCalm, PaceStates, HasConnection, HasError
<1>2. WaitingFits(outer)'
  BY DEF WaitingFits, IsCalm, PaceStates, HasConnection, HasError
<1>3. QED
  BY <1>1, <1>2 DEF ChoiceFits

(* A result nobody listens to: no state of the channel waits meanwhile.    *)
LEMMA DropFits ==
  ASSUME PaceInv, PaceInv', NEW outer, outer \cap PaceStates = {},
         PasswordInv(outer), DropResult
  PROVE  PasswordInv(outer)'
<1>1. /\ jobs # <<>> /\ jobs \in Seq(Jobs) /\ ~Head(jobs).heard
      /\ Head(jobs) = jobs[1] /\ UNCHANGED <<state, phase>>
      /\ Main(PaceFlags(ctx, Head(jobs)), Tail(jobs))
      /\ ctx' = PaceFlags(ctx, Head(jobs)) /\ jobs' = Tail(jobs)
      /\ ctx \in Contexts
  BY DEF DropResult, Answered, Main, PaceInv, PaceTypeOK
<1>2. PasswordsFirst' /\ OldestFits'
  BY <1>1, PaceFlagsKeep, MainQueueFits DEF PasswordInv
<1>3. PasswordHeard'
  <2>1. HasError(ctx') <=> HasError(ctx)
    BY <1>1, PaceFlagsKeep DEF HasError
  <2>2. QED
    BY <1>1, <2>1, TailKeeps DEF PasswordInv, PasswordHeard
<1>4. ChoiceFits(outer)'
  <2>1. CASE HasError(ctx)
    <3>1. HasError(ctx')
      BY <1>1, <2>1, PaceFlagsKeep DEF HasError
    <3>2. QED
      BY <3>1, NotCalmFits
  <2>2. CASE ~HasError(ctx)
    <3>1. jobs[1].op # "EstablishPaceChannel"
      BY <1>1, <2>2 DEF PasswordInv, PasswordHeard, PasswordCommands
    <3>2. ctx' = ctx
      BY <1>1, <3>1 DEF PaceFlags
    <3>3. (HasConnection(ctx) /\ IsCalm(outer, state, ctx)) => ctx.doubted
      <4>1. phase \in {"entered", "waiting"} /\ Len(jobs) # 0
        BY <1>1 DEF PaceInv, PaceTypeOK
      <4>2. QED
        BY <1>1, <2>2, <4>1 DEF PasswordInv, ChoiceFits, EntryFits, WaitingFits
    <3>4. QED
      BY <1>1, <3>2, <3>3, NotCalmFits
  <2>3. QED
    BY <2>1, <2>2
<1>5. QED
  BY <1>2, <1>3, <1>4 DEF PasswordInv

(* A card comes or goes at the reader r, before any answer is there: who   *)
(* still has a command for it will not find it connected.                  *)
CardMoved(r) ==
  /\ UNCHANGED card
  /\ \A q \in Readers : q # r => reader'[q] = reader[q]
  /\ reader'[r].session = "closed"
  /\ HasConnection(ctx') <=> HasConnection(ctx)
  /\ HasError(ctx') <=> HasError(ctx)
  /\ ctx'.conn.reader = ctx.conn.reader /\ ctx'.conn.paceCan = ctx.conn.paceCan
  /\ ctx'.last = ctx.last /\ ctx'.paceType = ctx.paceType
  /\ ~ctx'.doubted => ~ctx.doubted

LEMMA MovedQueueFits ==
  ASSUME PaceInv, PaceInv', PasswordsFirst, OldestFits, PasswordHeard,
         NEW r \in Readers, CardMoved(r),
         \/ UNCHANGED jobs
         \/ jobs' = Unheard(jobs) /\ state = "ConnectCard"
         \/ \E job \in Jobs : /\ jobs' = Append(jobs, job)
                              /\ job.op = "CreateCardConnection"
  PROVE  PasswordsFirst' /\ OldestFits' /\ PasswordHeard'
<1>1. /\ jobs \in Seq(Jobs) /\ jobs' \in Seq(Jobs)
      /\ jobs # <<>> => 1 \in 1 .. Len(jobs)
  BY DEF PaceInv, PaceTypeOK
<1>2. ASSUME ~ctx'.doubted => CommandFits(jobs[1]), jobs # <<>>, jobs'[1].op = jobs[1].op,
             jobs'[1].type = jobs[1].type, jobs'[1].reader = jobs[1].reader,
             jobs'[1].result = jobs[1].result, jobs'[1].heard => jobs[1].heard
      PROVE  OldestFits'
  <2>1. jobs[1].reader \in Readers
    BY <1>1, <1>2, JobTypes
  <2>2. CASE jobs[1].reader = r
    BY <1>2, <2>2 DEF OldestFits, CommandFits, Alive, CardMoved
  <2>3. CASE jobs[1].reader # r
    BY <1>2, <2>1, <2>3
       DEF OldestFits, CommandFits, Alive, CardIn, CounterIn, CardMoved
  <2>4. QED
    BY <2>2, <2>3
<1>3. CASE UNCHANGED jobs
  <2>1. PasswordsFirst' /\ PasswordHeard'
    BY <1>3 DEF PasswordsFirst, PasswordHeard, CardMoved
  <2>2. OldestFits'
    BY <1>2, <1>3 DEF OldestFits, CardMoved
  <2>3. QED
    BY <2>1, <2>2
<1>4. CASE jobs' = Unheard(jobs) /\ state = "ConnectCard"
  <2>1. /\ Len(jobs') = Len(jobs)
        /\ \A i \in 1 .. Len(jobs) :
             /\ jobs'[i].op = jobs[i].op /\ jobs'[i].type = jobs[i].type
             /\ jobs'[i].reader = jobs[i].reader
             /\ jobs'[i].result = jobs[i].result
             /\ jobs'[i].heard => jobs[i].heard
    BY <1>1, <1>4, UnheardKeeps
  <2>2. PasswordsFirst'
    BY <1>1, <2>1 DEF PasswordsFirst, CardMoved
  <2>3. jobs' # <<>> => jobs # <<>>
    BY <1>1, <2>1
  <2>4. OldestFits'
    <3>1. jobs' = <<>> => OldestFits'
      BY DEF OldestFits
    <3>2. (jobs # <<>> /\ ~ctx'.doubted) => CommandFits(jobs[1])
      BY DEF OldestFits, CardMoved
    <3>3. QED
      BY <1>1, <1>2, <2>1, <2>3, <3>1, <3>2
  <2>5. PasswordHeard'
    BY <1>1, <1>4, <2>1, <2>3, PasswordListener DEF PasswordHeard, CardMoved
  <2>6. QED
    BY <2>2, <2>4, <2>5
<1>5. ASSUME NEW job \in Jobs, jobs' = Append(jobs, job),
             job.op = "CreateCardConnection"
      PROVE  PasswordsFirst' /\ OldestFits' /\ PasswordHeard'
  <2>1. /\ Len(jobs') = Len(jobs) + 1 /\ jobs'[Len(jobs')] = job
        /\ \A i \in 1 .. Len(jobs) : jobs'[i] = jobs[i]
    BY <1>1, <1>5
  <2>2. job.op \notin PasswordCommands
    BY <1>5 DEF PasswordCommands
  <2>3. PasswordsFirst'
    <3>1. ASSUME ~ctx'.doubted, NEW i \in 1 .. Len(jobs'), i > 1
          PROVE  jobs'[i].op \notin PasswordCommands
      <4>1. CASE i \in 1 .. Len(jobs)
        BY <2>1, <3>1, <4>1 DEF PasswordsFirst, CardMoved
      <4>2. CASE i = Len(jobs')
        BY <2>1, <2>2, <4>2
      <4>3. QED
        BY <1>1, <2>1, <4>1, <4>2
    <3>2. QED
      BY <3>1 DEF PasswordsFirst
  <2>4. CASE jobs = <<>>
    <3>1. jobs'[1] = job
      BY <1>1, <2>1, <2>4
    <3>2. OldestFits'
      BY <1>5, <2>2, <3>1, OldestHarmless
    <3>3. PasswordHeard'
      BY <1>1, <2>1, <2>2, <2>4 DEF PasswordHeard
    <3>4. QED
      BY <2>3, <3>2, <3>3
  <2>5. CASE jobs # <<>>
    <3>1. jobs'[1] = jobs[1]
      BY <1>1, <2>1, <2>5
    <3>2. OldestFits'
      BY <1>2, <2>5, <3>1 DEF OldestFits, CardMoved
    <3>3. PasswordHeard'
      BY <1>1, <2>1, <2>2, <2>5 DEF PasswordHeard, CardMoved
    <3>4. QED
      BY <2>3, <3>2, <3>3
  <2>6. QED
    BY <2>4, <2>5
<1>6. QED
  BY <1>3, <1>4, <1>5

(* The machine stays where it is.                                          *)
LEMMA MovedChoiceFits ==
  ASSUME PaceInv, NEW outer, ChoiceFits(outer), NEW r \in Readers, CardMoved(r),
         UNCHANGED <<state, phase, jobs>>
  PROVE  ChoiceFits(outer)'
<1>1. HasConnection(ctx) => ctx.conn.reader \in Readers
  BY DEF PaceInv, ContextFits, ConnectionFits, HasConnection
<1>2. IsCalm(outer, state, ctx)' <=> IsCalm(outer, state, ctx)
  BY DEF IsCalm, PaceStates, CardMoved
<1>3. (HasConnection(ctx))' <=> HasConnection(ctx)
  BY DEF CardMoved, HasConnection
<1>4. (HasError(ctx))' <=> HasError(ctx)
  BY DEF CardMoved, HasError
<1>5. CASE ctx.conn.reader = r
  <2>1. ~Alive(ctx.conn.reader)'
    BY <1>5 DEF CardMoved, Alive
  <2>2. phase = "entered" => EntryFits(outer, state, ctx, jobs)'
    BY <1>2, <1>3, <1>4, <2>1 DEF ChoiceFits, EntryFits, CardMoved
  <2>3. phase = "waiting" => WaitingFits(outer)'
    BY <1>2, <1>3, <1>4, <2>1 DEF ChoiceFits, WaitingFits, CardMoved
  <2>4. QED
    BY <2>2, <2>3 DEF ChoiceFits
<1>6. CASE ctx.conn.reader # r
  <2>1. HasConnection(ctx) =>
          /\ reader'[ctx.conn.reader] = reader[ctx.conn.reader]
          /\ Alive(ctx.conn.reader)' <=> Alive(ctx.conn.reader)
          /\ CounterIn(ctx.conn.reader)' = CounterIn(ctx.conn.reader)
    BY <1>1, <1>6 DEF CardMoved, Alive, CardIn, CounterIn
  <2>2. phase = "entered" => EntryFits(outer, state, ctx, jobs)'
    BY <1>2, <1>3, <1>4, <2>1 DEF ChoiceFits, EntryFits, CardMoved
  <2>3. phase = "waiting" => WaitingFits(outer)'
    BY <1>2, <1>3, <1>4, <2>1 DEF ChoiceFits, WaitingFits, CardMoved
  <2>4. QED
    BY <2>2, <2>3 DEF ChoiceFits
<1>7. QED
  BY <1>5, <1>6

LEMMA InfoChangedFlag ==
  ASSUME PaceInv, NEW r, NEW c, NEW n
  PROVE  InfoChanged(r, c, n).conn.paceCan = ctx.conn.paceCan
  BY DEF InfoChanged, PaceInv, PaceTypeOK, Contexts, Connections

LEMMA InsertFits ==
  ASSUME PaceInv, PaceInv', NEW outer, outer \cap PaceStates = {},
         PasswordInv(outer), NEW r \in Readers, NEW c \in Cards, InsertCard(r, c)
  PROVE  PasswordInv(outer)'
<1>1. PICK n \in Readings(c) :
        /\ reader' = [reader EXCEPT ![r] =
                        [card |-> c, counter |-> n, session |-> "closed"]]
        /\ \/ /\ state = "SelectReader" /\ phase = "waiting"
              /\ Enter("ConnectCard")
              /\ ctx' = [InfoChanged(r, c, n) EXCEPT !.readerName = r]
              /\ UNCHANGED jobs
           \/ /\ state = "ConnectCard" /\ phase = "waiting" /\ r = ctx.readerName
              /\ Len(jobs) < MaxJobs
              /\ ctx' = InfoChanged(r, c, n)
              /\ jobs' = Append(jobs,
                           [op |-> "CreateCardConnection", reader |-> r,
                            type |-> "UNKNOWN", pw |-> NoPassword,
                            heard |-> TRUE, result |-> "PENDING"])
              /\ UNCHANGED <<state, phase>>
           \/ /\ ~(state = "SelectReader" /\ phase = "waiting")
              /\ ~(state = "ConnectCard" /\ phase = "waiting" /\ r = ctx.readerName)
              /\ ctx' = InfoChanged(r, c, n)
              /\ UNCHANGED <<state, phase, jobs>>
  BY DEF InsertCard
<1>2. /\ UNCHANGED card /\ reader \in [Readers -> ReaderStates]
      /\ card \in CardRecords
  BY DEF InsertCard, PaceInv, PaceTypeOK
<1>3. n \in Counters
  BY <1>1, <1>2, ReadingTypes
<1> DEFINE d == InfoChanged(r, c, n)
           e == [d EXCEPT !.readerName = r]
<1>4. /\ d \in Contexts /\ d.paceType = ctx.paceType /\ d.last = ctx.last
      /\ d.status = ctx.status /\ d.conn.reader = ctx.conn.reader
      /\ HasConnection(d) <=> HasConnection(ctx)
      /\ d.conn.paceCan = ctx.conn.paceCan
      /\ ~d.doubted => ~ctx.doubted
  BY <1>3, InfoChangedFacts, InfoChangedFlag
<1> HIDE DEF d
<1>5. /\ e.conn = d.conn /\ e.paceType = d.paceType /\ e.last = d.last
      /\ e.status = d.status /\ e.doubted = d.doubted
  BY <1>4 DEF Contexts
<1> HIDE DEF e
<1>6. ctx' = d \/ ctx' = e
  BY <1>1 DEF d, e
<1>7. CardMoved(r)
  <2>1. /\ reader'[r].session = "closed"
        /\ \A q \in Readers : q # r => reader'[q] = reader[q]
    BY <1>1, <1>2
  <2>2. QED
    BY <1>2, <1>4, <1>5, <1>6, <2>1 DEF CardMoved, HasConnection, HasError
<1>8. CASE state = "SelectReader" /\ Enter("ConnectCard") /\ UNCHANGED jobs
  <2>1. PasswordsFirst' /\ OldestFits' /\ PasswordHeard'
    BY <1>7, <1>8, MovedQueueFits DEF PasswordInv
  <2>2. ~IsCalm(outer, state', ctx')
    BY <1>8 DEF IsCalm, PaceStates, Enter
  <2>3. QED
    BY <2>1, <2>2, NotCalmFits DEF PasswordInv
<1>9. CASE /\ state = "ConnectCard" /\ UNCHANGED <<state, phase>>
           /\ jobs' = Append(jobs,
                        [op |-> "CreateCardConnection", reader |-> r,
                         type |-> "UNKNOWN", pw |-> NoPassword,
                         heard |-> TRUE, result |-> "PENDING"])
  <2> DEFINE job == [op |-> "CreateCardConnection", reader |-> r,
                     type |-> "UNKNOWN", pw |-> NoPassword,
                     heard |-> TRUE, result |-> "PENDING"]
  <2>1. job \in Jobs /\ job.op = "CreateCardConnection"
    BY DEF Jobs, Operations, PaceTypes, Passwords
  <2>2. jobs' = Append(jobs, job)
    BY <1>9
  <2> HIDE DEF job
  <2>3. PasswordsFirst' /\ OldestFits' /\ PasswordHeard'
    BY <1>7, <2>1, <2>2, MovedQueueFits DEF PasswordInv
  <2>4. ~IsCalm(outer, state', ctx')
    BY <1>9 DEF IsCalm, PaceStates
  <2>5. QED
    BY <2>3, <2>4, NotCalmFits DEF PasswordInv
<1>10. CASE UNCHANGED <<state, phase, jobs>>
  <2>1. PasswordsFirst' /\ OldestFits' /\ PasswordHeard'
    BY <1>7, <1>10, MovedQueueFits DEF PasswordInv
  <2>2. ChoiceFits(outer)'
    BY <1>7, <1>10, MovedChoiceFits DEF PasswordInv
  <2>3. QED
    BY <2>1, <2>2 DEF PasswordInv
<1>11. QED
  BY <1>1, <1>8, <1>9, <1>10

LEMMA RemoveFits ==
  ASSUME PaceInv, PaceInv', NEW outer, outer \cap PaceStates = {},
         PasswordInv(outer), NEW r \in Readers, NEW gone, RemoveCard(r, gone)
  PROVE  PasswordInv(outer)'
<1> DEFINE d == InfoChanged(r, NoCard, -1)
<1>1. /\ UNCHANGED card /\ reader \in [Readers -> ReaderStates] /\ ctx' = d
      /\ reader' = [reader EXCEPT ![r] =
                      [card |-> NoCard, counter |-> -1, session |-> "closed"]]
      /\ \/ Enter("SelectReader") /\ jobs' = Unheard(jobs) /\ state = "ConnectCard"
         \/ UNCHANGED <<state, phase, jobs>>
  BY DEF RemoveCard, PaceInv, PaceTypeOK
<1>2. -1 \in Counters
  BY DEF Counters
<1>3. /\ d.paceType = ctx.paceType /\ d.last = ctx.last
      /\ d.status = ctx.status /\ d.conn.reader = ctx.conn.reader
      /\ HasConnection(d) <=> HasConnection(ctx)
      /\ d.conn.paceCan = ctx.conn.paceCan
      /\ ~d.doubted => ~ctx.doubted
  BY <1>2, InfoChangedFacts, InfoChangedFlag
<1> HIDE DEF d
<1>4. CardMoved(r)
  <2>1. /\ reader'[r].session = "closed"
        /\ \A q \in Readers : q # r => reader'[q] = reader[q]
    BY <1>1
  <2>2. QED
    BY <1>1, <1>3, <2>1 DEF CardMoved, HasError
<1>5. PasswordsFirst' /\ OldestFits' /\ PasswordHeard'
  BY <1>1, <1>4, MovedQueueFits DEF PasswordInv
<1>6. CASE Enter("SelectReader")
  <2>1. ~IsCalm(outer, state', ctx')
    BY <1>6 DEF IsCalm, PaceStates, Enter
  <2>2. QED
    BY <1>5, <2>1, NotCalmFits DEF PasswordInv
<1>7. CASE UNCHANGED <<state, phase, jobs>>
  BY <1>4, <1>5, <1>7, MovedChoiceFits DEF PasswordInv
<1>8. QED
  BY <1>1, <1>6, <1>7

LEMMA EnvironmentFits ==
  ASSUME PaceInv, PaceInv', NEW outer, outer \cap PaceStates = {},
         PasswordInv(outer), Environment
  PROVE  PasswordInv(outer)'
<1>1. CASE onReaderDeviceError
  <2> DEFINE s == "Workflow_Reader_Device_Error"
             c == updateStatus(ctx, s)
  <2>1. /\ state = "SelectReader" /\ ctx \in Contexts
        /\ Go("MaintainCardConnection", c)
    BY <1>1 DEF PaceInv, PaceTypeOK, onReaderDeviceError
  <2>2. s \in Statuses
    BY DEF Statuses
  <2>3. HasError(c) /\ c.doubted = ctx.doubted
    BY <2>1, <2>2, UpdateStatusKeeps
  <2> HIDE DEF c
  <2>4. EntryFits(outer, "MaintainCardConnection", c, jobs)
    BY <2>3 DEF EntryFits
  <2>5. QED
    BY <2>1, <2>3, <2>4, GoFits
<1>2. CASE setReaderPlugInTypes
  <2>1. state \in {"SelectReader", "ConnectCard"} /\ Go("SelectReader", ctx)
    BY <1>2 DEF setReaderPlugInTypes
  <2>2. EntryFits(outer, "SelectReader", ctx, jobs)
    BY NothingToFit
  <2>3. QED
    BY <2>1, <2>2, GoFits
<1>3. QED
  BY <1>1, <1>2, InsertFits, RemoveFits DEF Environment

(* Start, cancel and kill.                                                 *)
LEMMA StartFits ==
  ASSUME NEW outer, outer \cap PaceStates = {}, PasswordInv(outer), NEW first,
         StartMachine(first), ~HasConnection(ctx), jobs = <<>>
  PROVE  PasswordInv(outer)'
<1>1. UNCHANGED <<ctx, jobs>>
  BY DEF StartMachine
<1>2. ChoiceFits(outer)'
  BY <1>1, NotCalmFits
<1>3. QED
  BY <1>1, <1>2 DEF PasswordInv, PasswordsFirst, PasswordHeard, OldestFits

LEMMA CancelFits ==
  ASSUME PaceInv, NEW outer, outer \cap PaceStates = {}, PasswordInv(outer),
         NEW target, onUserCancelled(target), HasError(ctx')
  PROVE  PasswordInv(outer)'
<1>1. PICK js \in {jobs, Unheard(jobs)} : Main(CancelledContext, js)
  BY DEF onUserCancelled
<1>2. CancelledContext.doubted = ctx.doubted
  <2> DEFINE c == updateStatus(ctx, "Workflow_Cancellation_By_User")
  <2>1. c \in Contexts /\ c.doubted = ctx.doubted
    BY UpdateStatusKeeps DEF PaceInv, PaceTypeOK, Statuses
  <2> HIDE DEF c
  <2>2. QED
    BY <2>1 DEF CancelledContext, Contexts, c
<1>5. PasswordsFirst' /\ OldestFits'
  BY <1>1, <1>2, MainQueueFits DEF PasswordInv
<1>3. PasswordHeard'
  BY DEF PasswordHeard, HasError
<1>4. QED
  BY <1>3, <1>5, NotCalmFits DEF PasswordInv

LEMMA KillFits ==
  ASSUME NEW outer, outer \cap PaceStates = {}, PasswordInv(outer),
         HasError(ctx'), ctx'.doubted = ctx.doubted, UNCHANGED <<jobs, reader, card>>
  PROVE  PasswordInv(outer)'
<1>1. PasswordsFirst' /\ OldestFits'
  BY DEF PasswordInv, PasswordsFirst, OldestFits, CommandFits, Alive, CardIn,
         CounterIn
<1>2. PasswordHeard'
  BY DEF PasswordHeard, HasError
<1>3. QED
  BY <1>1, <1>2, NotCalmFits DEF PasswordInv

-----------------------------------------------------------------------------
(* A state of the controller that stands for a channel (outer) does not    *)
(* wait for the channel's end.                                             *)
NoDestroyIn(outer) ==
  (state \in outer /\ jobs # <<>> /\ jobs[1].heard)
    => jobs[1].op # "DestroyPaceChannel"

(* The answer code to the command op for the reader r: without a password  *)
(* the counter of the card is unchanged, only the end of a channel changes *)
(* the session, and the code tells what has become of the counter.         *)
AnswerIs(op, code, r) ==
  /\ jobs' = [jobs EXCEPT ![1].result = code]
  /\ UNCHANGED <<state, phase>>
  /\ HasConnection(ctx') <=> HasConnection(ctx)
  /\ HasError(ctx') <=> HasError(ctx)
  /\ ctx'.conn.reader = ctx.conn.reader /\ ctx'.conn.paceCan = ctx.conn.paceCan
  /\ Alive(r)' => Alive(r)
  /\ (Alive(r)' /\ op \notin PasswordCommands) => CounterIn(r)' = CounterIn(r)
  /\ op \notin PasswordCommands \cup {"DestroyPaceChannel"}
       => reader'[r].session = reader[r].session
  /\ (op = "EstablishPaceChannel" /\ jobs[1].type = "PACE_CAN") =>
       /\ reader'[r].counter = reader[r].counter
       /\ Alive(r)' => CounterIn(r)' = CounterIn(r)
  /\ ~ctx'.doubted => ~ctx.doubted
  /\ (Alive(r)' /\ ~ctx'.doubted) =>
       /\ (/\ op = "EstablishPaceChannel" /\ jobs[1].type = "PACE_PIN"
           /\ code = "OK")
            => CounterIn(r)' = 3
       /\ op = "UnblockPin" => CounterIn(r)' \in {0, 3}
       /\ (op = "UpdateRetryCounter" /\ code = "OK" /\ jobs[1].heard)
            => reader'[r].counter = CounterIn(r)'

LEMMA AnsweredFits ==
  ASSUME PaceInv, NEW outer, outer \cap PaceStates = {}, PasswordInv(outer),
         NoDestroyIn(outer), NEW op, Pending(op), NEW code \in Codes,
         NEW r, r = R, AnswerIs(op, code, r)
  PROVE  PasswordInv(outer)'
<1>1. /\ jobs \in Seq(Jobs) /\ jobs # <<>> /\ 1 \in 1 .. Len(jobs)
      /\ jobs[1].op = op /\ jobs[1].result = "PENDING" /\ r = jobs[1].reader
      /\ jobs[1] \in Jobs
  BY PendingFacts
<1>2. /\ Len(jobs') = Len(jobs) /\ jobs' # <<>>
      /\ jobs'[1] = [jobs[1] EXCEPT !.result = code]
      /\ \A i \in 1 .. Len(jobs) : i # 1 => jobs'[i] = jobs[i]
  BY <1>1 DEF AnswerIs
<1>3. /\ jobs'[1].op = op /\ jobs'[1].type = jobs[1].type
      /\ jobs'[1].reader = r /\ jobs'[1].heard = jobs[1].heard
      /\ jobs'[1].result = code
  BY <1>1, <1>2 DEF Jobs
<1>4. code # "PENDING"
  BY DEF Codes, equalsWrongPacePassword, Unrecoverable, CardVanished
<1>5. PasswordsFirst'
  BY <1>1, <1>2, <1>3 DEF PasswordInv, PasswordsFirst, AnswerIs
<1>6. PasswordHeard'
  BY <1>1, <1>2, <1>3 DEF PasswordInv, PasswordHeard, HasError, AnswerIs
<1>7. OldestFits'
  BY <1>3, <1>4 DEF AnswerIs, OldestFits, CommandFits, Alive, CardIn, CounterIn
<1>8. ChoiceFits(outer)'
  <2>1. CASE \/ ~HasConnection(ctx) \/ HasError(ctx) \/ ctx.doubted
             \/ ~IsCalm(outer, state, ctx)
    <3>1. IsCalm(outer, state', ctx') <=> IsCalm(outer, state, ctx)
      BY DEF IsCalm, PaceStates, AnswerIs
    <3>2. QED
      BY <2>1, <3>1, NotCalmFits DEF AnswerIs
  <2>2. CASE /\ HasConnection(ctx) /\ ~HasError(ctx) /\ ~ctx.doubted
             /\ IsCalm(outer, state, ctx)
    <3>1. phase = "waiting" /\ phase' = "waiting"
      <4>1. Len(jobs) # 0 /\ phase \in {"entered", "waiting"}
        BY <1>1 DEF PaceInv, PaceTypeOK
      <4>2. QED
        BY <2>2, <4>1 DEF PasswordInv, ChoiceFits, EntryFits, AnswerIs
    <3>2. /\ WaitingFits(outer) /\ Len(jobs) = 1 /\ jobs[1].heard
      BY <2>2, <3>1 DEF PasswordInv, ChoiceFits, WaitingFits
    <3>3. r = ctx.conn.reader /\ CallFits(state, op)
      <4>1. JobFits(1)
        BY <1>1 DEF PaceInv, JobsFit
      <4>2. state # "ConnectCard"
        BY <2>2 DEF IsCalm, PaceStates
      <4>3. QED
        BY <1>1, <3>2, <4>1, <4>2 DEF JobFits
    <3>4. op = "DestroyPaceChannel" => state = "DestroyPace"
      BY <1>1, <2>2, <3>2, <3>3
         DEF NoDestroyIn, IsCalm, CallFits, PaceCalls, PaceStates
    <3>5. state = "DestroyPace" => op = "DestroyPaceChannel"
      BY <3>3 DEF CallFits, PaceCalls, PaceStates
    <3>6. Len(jobs') = 1 /\ jobs'[1].heard
      BY <1>2, <1>3, <3>2
    <3>7. ASSUME Alive(r)', ~ctx'.doubted
          PROVE  /\ (/\ state = "EstablishPaceChannel" /\ op = "EstablishPaceChannel"
                     /\ jobs[1].type = "PACE_CAN")
                       => reader'[r].counter = CounterIn(r)'
                 /\ (/\ ctx.conn.paceCan /\ CounterIn(r)' = 1
                     /\ op # "EstablishPaceChannel")
                       => reader'[r].session = "can"
                 /\ (state = "DestroyPace" /\ ctx.conn.paceCan)
                       => CounterIn(r)' # 1
      <4>1. Alive(r)
        BY <3>7 DEF AnswerIs
      <4>2. /\ state = "EstablishPaceChannel" => reader[r].counter = CounterIn(r)
            /\ (ctx.conn.paceCan /\ CounterIn(r) = 1) => reader[r].session = "can"
            /\ (state = "DestroyPace" /\ ctx.conn.paceCan) => CounterIn(r) # 1
        BY <1>1, <2>2, <3>2, <3>3, <4>1 DEF WaitingFits
      <4>3. op = "UnblockPin" => CounterIn(r)' # 1
        BY <3>7 DEF AnswerIs
      <4>4. op \in PasswordCommands <=> op \in {"EstablishPaceChannel", "UnblockPin"}
        BY DEF PasswordCommands
      <4>5. op = "DestroyPaceChannel" /\ ctx.conn.paceCan => CounterIn(r)' # 1
        BY <3>4, <3>7, <4>2, <4>4 DEF AnswerIs
      <4>6. QED
        BY <3>5, <3>7, <4>2, <4>3, <4>4, <4>5 DEF AnswerIs
    <3>8. (Alive(ctx.conn.reader))' <=> Alive(r)'
      BY <3>3 DEF AnswerIs, Alive, CardIn
    <3>9. (CounterIn(ctx.conn.reader))' = CounterIn(r)'
      BY <3>3 DEF AnswerIs, CounterIn, CardIn
    <3>10. WaitingFits(outer)'
      BY <1>3, <1>4, <3>3, <3>6, <3>7, <3>8, <3>9
         DEF WaitingFits, AnswerIs
    <3>11. QED
      BY <3>1, <3>10 DEF ChoiceFits
  <2>3. QED
    BY <2>1, <2>2
<1>9. QED
  BY <1>5, <1>6, <1>7, <1>8 DEF PasswordInv

LEMMA AnswerFitsCounter ==
  ASSUME PaceInv, NEW outer, outer \cap PaceStates = {}, PasswordInv(outer),
         NoDestroyIn(outer), NEW op, Pending(op), NEW code \in Codes,
         NEW cd, NEW ss, Answer(code, cd, ss), UNCHANGED ctx,
         reader[R].session = "closed" => ss = "closed",
         op \notin PasswordCommands =>
           cd[CardIn(R)].counter = card[CardIn(R)].counter,
         op \notin PasswordCommands \cup {"DestroyPaceChannel"}
           => ss = reader[R].session,
         (op = "EstablishPaceChannel" /\ jobs[1].type = "PACE_CAN") => cd = card,
         (Alive(R) /\ ~ctx.doubted) =>
           /\ (/\ op = "EstablishPaceChannel" /\ jobs[1].type = "PACE_PIN"
               /\ code = "OK")
                => cd[CardIn(R)].counter = 3
           /\ op = "UnblockPin" => cd[CardIn(R)].counter \in {0, 3},
         op = "UpdateRetryCounter" => code # "OK"
  PROVE  PasswordInv(outer)'
<1>1. PICK r \in Readers : r = R
  BY PendingFacts
<1>2. /\ reader \in [Readers -> ReaderStates] /\ UNCHANGED <<state, phase>>
      /\ jobs' = [jobs EXCEPT ![1].result = code] /\ card' = cd
      /\ reader' = [reader EXCEPT ![r].session = ss]
  BY <1>1 DEF Answer, PaceInv, PaceTypeOK
<1>3. /\ reader'[r].card = reader[r].card /\ reader'[r].counter = reader[r].counter
      /\ reader'[r].session = ss
  BY <1>1, <1>2 DEF ReaderStates
<1>4. /\ Alive(r)' => Alive(r)
      /\ CounterIn(r)' = cd[CardIn(r)].counter
  BY <1>1, <1>2, <1>3 DEF Alive, CardIn, CounterIn
<1>5. /\ (Alive(r)' /\ op \notin PasswordCommands) => CounterIn(r)' = CounterIn(r)
      /\ op \notin PasswordCommands \cup {"DestroyPaceChannel"}
           => reader'[r].session = reader[r].session
      /\ (op = "EstablishPaceChannel" /\ jobs[1].type = "PACE_CAN") =>
           /\ reader'[r].counter = reader[r].counter
           /\ Alive(r)' => CounterIn(r)' = CounterIn(r)
  BY <1>1, <1>3, <1>4 DEF CounterIn
<1>6. (Alive(r)' /\ ~ctx'.doubted) =>
        /\ (/\ op = "EstablishPaceChannel" /\ jobs[1].type = "PACE_PIN"
            /\ code = "OK")
             => CounterIn(r)' = 3
        /\ op = "UnblockPin" => CounterIn(r)' \in {0, 3}
        /\ (op = "UpdateRetryCounter" /\ code = "OK" /\ jobs[1].heard)
             => reader'[r].counter = CounterIn(r)'
  BY <1>1, <1>4
<1>7. /\ HasConnection(ctx') <=> HasConnection(ctx)
      /\ HasError(ctx') <=> HasError(ctx)
      /\ ctx'.conn.reader = ctx.conn.reader
      /\ ctx'.conn.paceCan = ctx.conn.paceCan
      /\ ~ctx'.doubted => ~ctx.doubted
  OBVIOUS
<1>8. AnswerIs(op, code, r)
  BY <1>2, <1>4, <1>5, <1>6, <1>7, Zenon DEF AnswerIs
<1>9. QED
  BY <1>1, <1>8, AnsweredFits

LEMMA FailFits ==
  ASSUME PaceInv, NEW outer, outer \cap PaceStates = {}, PasswordInv(outer),
         NoDestroyIn(outer), NEW op, Pending(op), NEW codes \in SUBSET Codes,
         Fail(codes),
         "OK" \in codes =>
           op \notin {"EstablishPaceChannel", "UpdateRetryCounter"}
  PROVE  PasswordInv(outer)'
<1>1. PICK code \in codes : Answer(code, card, reader[R].session)
  BY DEF Fail
<1>2. UNCHANGED ctx /\ code \in Codes
  BY DEF Fail
<1>3. (Alive(R) /\ ~ctx.doubted) => (op = "UnblockPin" => card[CardIn(R)].counter \in {0, 3})
  BY PendingFacts DEF PasswordInv, OldestFits, CommandFits, CounterIn
<1>4. QED
  BY <1>1, <1>2, <1>3, AnswerFitsCounter

LEMMA EstablishPinFits ==
  ASSUME PaceInv, NEW outer, outer \cap PaceStates = {}, PasswordInv(outer),
         NoDestroyIn(outer), EstablishPacePin
  PROVE  PasswordInv(outer)'
<1> DEFINE c == CardIn(R)
<1>1. /\ Pending("EstablishPaceChannel") /\ jobs[1].type = "PACE_PIN"
      /\ R \in Readers /\ reader[R] \in ReaderStates
      /\ "EstablishPaceChannel" \in PasswordCommands /\ card \in CardRecords
  BY PendingFacts
     DEF EstablishPacePin, PasswordCommands, PaceInv, PaceTypeOK
<1>2. CASE Fail(BrokenPace(R) \cup GivenUp(R))
  <2>1. BrokenPace(R) \cup GivenUp(R) \subseteq Codes \ {"OK"}
    BY BrokenCodes
  <2>2. QED
    BY <1>1, <1>2, <2>1, FailFits
<1>3. ASSUME Alive(R), UNCHANGED ctx, NEW code \in {"OK"} \cup BrokenPace(R),
             Answer(code, [card EXCEPT ![c].counter = 3], "pin")
      PROVE  PasswordInv(outer)'
  <2>1. c \in Cards
    BY <1>1, <1>3 DEF Alive, CardIn, ReaderStates
  <2> DEFINE cd == [card EXCEPT ![c].counter = 3]
  <2>2. /\ code \in Codes /\ reader[R].session # "closed"
        /\ cd[CardIn(R)].counter = 3 /\ Answer(code, cd, "pin")
    BY <1>1, <1>3, <2>1, BrokenCodes DEF Alive, CardRecords
  <2> HIDE DEF c, cd
  <2>3. QED
    BY <1>1, <1>3, <2>2, AnswerFitsCounter
<1>4. ASSUME Alive(R), UNCHANGED ctx,
             NEW code \in {"INVALID_PIN"} \cup BrokenPace(R),
             Answer(code, [card EXCEPT ![c].counter = @ - 1], "open")
      PROVE  PasswordInv(outer)'
  <2>1. code \in Codes \ {"OK"} /\ reader[R].session # "closed"
    BY <1>4, BrokenCodes DEF Alive
  <2> HIDE DEF c
  <2>2. QED
    BY <1>1, <1>4, <2>1, AnswerFitsCounter
<1>5. QED
  BY <1>2, <1>3, <1>4 DEF EstablishPacePin

LEMMA EstablishCanFits ==
  ASSUME PaceInv, NEW outer, outer \cap PaceStates = {}, PasswordInv(outer),
         NoDestroyIn(outer), EstablishPaceCan
  PROVE  PasswordInv(outer)'
<1>1. /\ Pending("EstablishPaceChannel") /\ jobs[1].type = "PACE_CAN"
      /\ "EstablishPaceChannel" \in PasswordCommands
  BY PendingFacts DEF EstablishPaceCan, PasswordCommands
<1>2. CASE Fail(BrokenPace(R) \cup GivenUp(R))
  <2>1. BrokenPace(R) \cup GivenUp(R) \subseteq Codes \ {"OK"}
    BY BrokenCodes
  <2>2. QED
    BY <1>1, <1>2, <2>1, FailFits
<1>3. ASSUME Alive(R), UNCHANGED ctx, NEW code \in Codes, NEW ss,
             Answer(code, card, ss)
      PROVE  PasswordInv(outer)'
  <2>1. reader[R].session # "closed"
    BY <1>3 DEF Alive
  <2>2. QED
    BY <1>1, <1>3, <2>1, AnswerFitsCounter
<1>4. BrokenPace(R) \cup {"OK", "INVALID_CAN"} \subseteq Codes
  BY BrokenCodes
<1>5. QED
  BY <1>2, <1>3, <1>4 DEF EstablishPaceCan

LEMMA UnblockFits ==
  ASSUME PaceInv, NEW outer, outer \cap PaceStates = {}, PasswordInv(outer),
         NoDestroyIn(outer), UnblockPin
  PROVE  PasswordInv(outer)'
<1> DEFINE c == CardIn(R)
<1>1. /\ Pending("UnblockPin") /\ R \in Readers /\ reader[R] \in ReaderStates
      /\ card \in CardRecords /\ "UnblockPin" \in PasswordCommands
  BY PendingFacts DEF UnblockPin, PaceInv, PaceTypeOK, PasswordCommands
<1>2. CASE Fail({"PIN_NOT_BLOCKED"})
  BY <1>1, <1>2, FailFits, BrokenCodes
<1>3. CASE Fail(BrokenPace(R) \cup GivenUp(R))
  <2>1. BrokenPace(R) \cup GivenUp(R) \subseteq Codes \ {"OK"}
    BY BrokenCodes
  <2>2. QED
    BY <1>1, <1>3, <2>1, FailFits
<1>4. ASSUME UNCHANGED ctx, Alive(R), NEW code \in Codes, NEW cd,
             Answer(code, cd, "open"),
             ~ctx.doubted => cd[c].counter \in {0, 3}
      PROVE  PasswordInv(outer)'
  <2>1. /\ reader[R].session # "closed"
        /\ ~ctx.doubted => cd[CardIn(R)].counter \in {0, 3}
    BY <1>4 DEF Alive
  <2> HIDE DEF c
  <2>2. QED
    BY <1>1, <1>4, <2>1, AnswerFitsCounter
<1>5. ASSUME UNCHANGED ctx, Alive(R),
             NEW code \in {"INVALID_PUK", "COMMAND_FAILED", "PUK_INOPERATIVE"},
             Answer(code, card, "open")
      PROVE  PasswordInv(outer)'
  <2>1. ~ctx.doubted => card[c].counter \in {0, 3}
    BY <1>1, <1>5, PendingFacts DEF PasswordInv, OldestFits, CommandFits, CounterIn
  <2>2. code \in Codes
    BY BrokenCodes
  <2> HIDE DEF c
  <2>3. QED
    BY <1>4, <1>5, <2>1, <2>2
<1>6. ASSUME UNCHANGED ctx, Alive(R), card[c].puk > 0,
             NEW code \in {"OK", "COMMAND_FAILED"},
             Answer(code, [card EXCEPT ![c].counter = 3, ![c].puk = @ - 1], "open")
      PROVE  PasswordInv(outer)'
  <2> DEFINE cd == [card EXCEPT ![c].counter = 3, ![c].puk = @ - 1]
  <2>1. c \in Cards
    BY <1>1, <1>6 DEF Alive, CardIn, ReaderStates
  <2> HIDE DEF c
  <2>2. cd[c].counter = 3
    BY <1>1, <2>1 DEF CardRecords
  <2>3. code \in Codes /\ Answer(code, cd, "open")
    BY <1>6, BrokenCodes
  <2> HIDE DEF cd
  <2>4. QED
    BY <1>4, <1>6, <2>2, <2>3
<1>7. QED
  BY <1>2, <1>3, <1>5, <1>6 DEF UnblockPin

LEMMA SetPinFits ==
  ASSUME PaceInv, NEW outer, outer \cap PaceStates = {}, PasswordInv(outer),
         NoDestroyIn(outer), SetEidPin
  PROVE  PasswordInv(outer)'
<1>1. /\ Pending("SetEidPin") /\ R \in Readers /\ card \in CardRecords
      /\ reader[R] \in ReaderStates
  BY PendingFacts DEF SetEidPin, PaceInv, PaceTypeOK
<1>2. ASSUME Alive(R), NEW code \in {"OK", "COMMAND_FAILED"}, NEW b,
             Answer(code, [card EXCEPT ![CardIn(R)].changed = b],
                    reader[R].session), UNCHANGED ctx
      PROVE  PasswordInv(outer)'
  <2> DEFINE cd == [card EXCEPT ![CardIn(R)].changed = b]
  <2>1. CardIn(R) \in Cards
    BY <1>1, <1>2 DEF Alive, CardIn, ReaderStates
  <2>2. cd[CardIn(R)].counter = card[CardIn(R)].counter
    BY <1>1, <2>1 DEF CardRecords
  <2>3. code \in Codes /\ Answer(code, cd, reader[R].session)
    BY <1>2, BrokenCodes
  <2> HIDE DEF cd
  <2>4. QED
    BY <1>1, <1>2, <2>2, <2>3, AnswerFitsCounter DEF PasswordCommands
<1>3. CASE Fail({"CARD_NOT_FOUND"}) \/ Fail({"COMMAND_FAILED"})
  BY <1>1, <1>3, FailFits, BrokenCodes
<1>4. CASE Fail(GivenUp(R) \cup {"NEW_PIN_MISMATCH", "NEW_PIN_INVALID_LENGTH",
                                 "PROTOCOL_ERROR"})
  <2>1. GivenUp(R) \cup {"NEW_PIN_MISMATCH", "NEW_PIN_INVALID_LENGTH",
                         "PROTOCOL_ERROR"} \subseteq Codes
    BY BrokenCodes
  <2>2. QED
    BY <1>1, <1>4, <2>1, FailFits
<1>5. ASSUME Alive(R)
      PROVE  [card EXCEPT ![CardIn(R)].changed =
                @ \/ ~IsBasic(R) \/ Head(jobs).pw # NoPassword]
               = [card EXCEPT ![CardIn(R)].changed =
                    card[CardIn(R)].changed \/ ~IsBasic(R)
                      \/ Head(jobs).pw # NoPassword]
  OBVIOUS
<1>6. QED
  BY <1>2, <1>3, <1>4, <1>5 DEF SetEidPin

LEMMA UpdateCommandFits ==
  ASSUME PaceInv, NEW outer, outer \cap PaceStates = {}, PasswordInv(outer),
         NoDestroyIn(outer), PinWanted, UpdateRetryCounter
  PROVE  PasswordInv(outer)'
<1>1. PICK r \in Readers : r = R
  BY PendingFacts DEF UpdateRetryCounter
<1>2. /\ Pending("UpdateRetryCounter") /\ reader \in [Readers -> ReaderStates]
      /\ reader[r] \in ReaderStates /\ ctx \in Contexts
      /\ "UpdateRetryCounter" \notin PasswordCommands \cup {"DestroyPaceChannel"}
  BY <1>1 DEF UpdateRetryCounter, PaceInv, PaceTypeOK, PasswordCommands
<1>3. CASE Fail({"COMMAND_FAILED"})
  BY <1>2, <1>3, FailFits, BrokenCodes
<1> DEFINE told == reader[R].counter # -1
<1>4. ASSUME Alive(R), NEW n \in Readings(CardIn(R)),
             reader' = [reader EXCEPT ![R].counter = n],
             ctx' = CounterRead(n, told),
             jobs' = [jobs EXCEPT ![1].result = "OK"],
             UNCHANGED <<state, phase, card>>
      PROVE  PasswordInv(outer)'
  <2>1. /\ CardIn(r) \in Cards /\ n \in Counters
        /\ ~Doubtful(CardIn(r), n) => n = card[CardIn(r)].counter
    <3>1. CardIn(r) \in Cards
      BY <1>1, <1>2, <1>4 DEF Alive, CardIn, ReaderStates
    <3>2. QED
      BY <1>1, <1>4, <3>1, ReadingTypes DEF PaceInv, PaceTypeOK
  <2>2. /\ reader'[r].card = reader[r].card /\ reader'[r].counter = n
        /\ reader'[r].session = reader[r].session
    BY <1>1, <1>2, <1>4 DEF ReaderStates
  <2>3. /\ HasConnection(ctx') <=> HasConnection(ctx)
        /\ HasError(ctx') <=> HasError(ctx)
        /\ ctx'.conn.reader = ctx.conn.reader
        /\ ctx'.conn.paceCan = ctx.conn.paceCan
        /\ ctx'.doubted <=> (ctx.doubted \/ (ctx.conn.reader = R /\ Doubtful(CardIn(R), n)))
    BY <1>1, <1>4, <2>1, CounterReadFacts DEF HasError
  <2>6. /\ Alive(r)' => Alive(r)
        /\ CounterIn(r)' = CounterIn(r)
        /\ ~Doubtful(CardIn(r), n) => CounterIn(r)' = n
    BY <1>4, <2>1, <2>2 DEF Alive, CardIn, CounterIn
  <2>4. (jobs[1].heard /\ ~ctx'.doubted) => ~Doubtful(CardIn(r), n)
    <3>1. jobs[1].heard => r = ctx.conn.reader
      BY <1>1, <1>2, PendingFacts DEF PaceInv, JobsFit, JobFits, CallFits, PaceCalls,
                                        PaceStates
    <3>2. QED
      BY <1>1, <2>3, <3>1
  <2> DEFINE op == "UpdateRetryCounter"
             code == "OK"
  <2>7. /\ code \in Codes /\ Pending(op) /\ op = "UpdateRetryCounter"
        /\ op \notin PasswordCommands \cup {"DestroyPaceChannel"}
        /\ jobs' = [jobs EXCEPT ![1].result = code]
    BY <1>2, <1>4, BrokenCodes
  <2> HIDE DEF op, code
  <2>8. AnswerIs(op, code, r)
    BY <1>4, <2>2, <2>3, <2>4, <2>6, <2>7 DEF AnswerIs, PasswordCommands
  <2>9. QED
    BY <1>1, <2>7, <2>8, AnsweredFits
<1>5. QED
  BY <1>3, <1>4 DEF UpdateRetryCounter, ReadCounter

LEMMA CreateFits ==
  ASSUME PaceInv, NEW outer, outer \cap PaceStates = {}, PasswordInv(outer),
         CreateCardConnection
  PROVE  PasswordInv(outer)'
<1>1. /\ Pending("CreateCardConnection") /\ R \in Readers
      /\ reader \in [Readers -> ReaderStates]
      /\ UNCHANGED <<state, phase, cancelDue, ctx>>
      /\ jobs # <<>> /\ jobs \in Seq(Jobs) /\ 1 \in 1 .. Len(jobs)
      /\ jobs[1].op = "CreateCardConnection"
  BY PendingFacts DEF CreateCardConnection, PaceInv, PaceTypeOK
<1>2. \A r \in Readers : /\ r # R => reader'[r] = reader[r]
                         /\ reader'[r].card = reader[r].card
  <2>1. CASE reader' = [reader EXCEPT ![R].session = "open"]
    BY <1>1, <2>1 DEF ReaderStates
  <2>2. CASE UNCHANGED reader
    BY <2>2
  <2>3. QED
    BY <2>1, <2>2 DEF CreateCardConnection
<1>3. PICK code \in {"OK", "COMMAND_FAILED"} : WorkerCreated(code)
  BY DEF CreateCardConnection
<1>4. /\ jobs' \in Seq(Jobs)
      /\ \A i \in 1 .. Len(jobs') :
           jobs'[i].op # "CreateCardConnection" =>
             i \in 1 .. Len(jobs) /\ jobs'[i] = jobs[i]
  BY <1>1, <1>2, <1>3, WorkerCreatedKeeps, BrokenCodes
<1>5. PasswordsFirst'
  BY <1>1, <1>4 DEF PasswordInv, PasswordsFirst, PasswordCommands
<1>6. jobs' # <<>> => jobs'[1].op = "CreateCardConnection"
  <2>1. jobs' # <<>> => 1 \in 1 .. Len(jobs')
    BY <1>4
  <2>2. QED
    BY <1>1, <1>4, <2>1
<1>7. PasswordHeard' /\ OldestFits'
  <2>1. PasswordHeard'
    BY <1>1, <1>4 DEF PasswordInv, PasswordHeard, PasswordCommands
  <2>2. QED
    BY <1>6, <2>1, OldestHarmless DEF PasswordCommands
<1>8. ~(/\ HasConnection(ctx) /\ ~HasError(ctx) /\ ~ctx.doubted
        /\ IsCalm(outer, state, ctx))
  <2> SUFFICES ASSUME HasConnection(ctx), ~HasError(ctx), ~ctx.doubted,
                      IsCalm(outer, state, ctx)
               PROVE  FALSE
    OBVIOUS
  <2>1. phase = "waiting" /\ jobs[1].heard
    <3>1. Len(jobs) # 0 /\ phase \in {"entered", "waiting"}
      BY <1>1 DEF PaceInv, PaceTypeOK
    <3>2. QED
      BY <3>1 DEF PasswordInv, ChoiceFits, EntryFits, WaitingFits
  <2>2. CallFits(state, "CreateCardConnection")
    BY <1>1, <2>1 DEF PaceInv, JobsFit, JobFits
  <2>3. QED
    BY <2>2 DEF CallFits, PaceCalls, PaceStates, IsCalm
<1>9. ChoiceFits(outer)'
  BY <1>1, <1>8, NotCalmFits
<1>10. QED
  BY <1>5, <1>7, <1>9 DEF PasswordInv

(* Every command.                                                          *)
LEMMA CommandsFit ==
  ASSUME PaceInv, NEW outer, outer \cap PaceStates = {}, PasswordInv(outer),
         NoDestroyIn(outer), PinWanted, ExecuteCommand
  PROVE  PasswordInv(outer)'
<1>1. ASSUME NEW op \in {"DidAuthenticateEAC1", "DidAuthenticateEAC2", "Transmit"},
             NEW refusals \in SUBSET {"PROTOCOL_ERROR", "UNEXPECTED_TRANSMIT_STATUS"},
             AuthenticationCommand(op, refusals)
      PROVE  PasswordInv(outer)'
  <2>1. /\ Pending(op) /\ {"OK"} \subseteq Codes
        /\ {"CARD_NOT_FOUND", "COMMAND_FAILED"} \cup refusals \subseteq Codes
    BY <1>1, BrokenCodes DEF AuthenticationCommand
  <2>2. QED
    BY <1>1, <2>1, FailFits DEF AuthenticationCommand
<1>2. CASE DestroyPaceChannel
  <2> DEFINE ss == IF reader[R].session = "closed" THEN "closed" ELSE "open"
  <2>1. /\ Pending("DestroyPaceChannel") /\ Answer("OK", card, ss)
        /\ UNCHANGED ctx /\ "OK" \in Codes
        /\ reader[R].session = "closed" => ss = "closed"
        /\ "DestroyPaceChannel" \notin PasswordCommands
    BY <1>2, BrokenCodes DEF DestroyPaceChannel, PasswordCommands
  <2> HIDE DEF ss
  <2>2. QED
    BY <2>1, AnswerFitsCounter
<1>3. CASE CreateCardConnection \/ UpdateRetryCounter
  BY <1>3, CreateFits, UpdateCommandFits
<1>4. CASE EstablishPacePin \/ EstablishPaceCan \/ UnblockPin \/ SetEidPin
  BY <1>4, EstablishPinFits, EstablishCanFits, UnblockFits, SetPinFits
<1>5. QED
  BY <1>1, <1>2, <1>3, <1>4 DEF ExecuteCommand
-----------------------------------------------------------------------------
(***************************************************************************)
(* A typed PIN costs a card at most one try (with PinWanted).  expected-   *)
(* Counter is the counter the PIN was typed for: a card that the PIN has   *)
(* already cost a try (spent) has fewer left, and StateVerifyRetryCounter  *)
(* drops the PIN before it is sent to a card with another counter.         *)
(***************************************************************************)
AskingStates == {"PreparePace", "EnterPacePassword", "EstablishPaceChannel"}

TypedFits ==
  (~HasError(ctx) /\ ctx.pw["pin"] # NoPassword) =>
    \A k \in spent : card[k].counter < ctx.expectedCounter

(* In the states between the comparison and the command the expected       *)
(* counter is that of the card in the connection's reader.                 *)
AskedFits(s, c) ==
  (/\ ~HasError(c) /\ ~c.doubted
   /\ s \in AskingStates /\ HasConnection(c) /\ Alive(c.conn.reader))
     => c.expectedCounter = CounterIn(c.conn.reader)

(* The same while the command is under way.                                *)
WaitedFits ==
  (/\ state = "EstablishPaceChannel" /\ ~HasError(ctx) /\ ~ctx.doubted
   /\ HasConnection(ctx) /\ jobs # <<>> /\ jobs[1].result = "PENDING" /\ Alive(ctx.conn.reader))
     => ctx.expectedCounter = CounterIn(ctx.conn.reader)

(* The PIN that is on its way has not cost its card a try yet.             *)
SpentFits ==
  (/\ ~ctx.doubted /\ jobs # <<>> /\ jobs[1].op = "EstablishPaceChannel"
   /\ jobs[1].type = "PACE_PIN" /\ jobs[1].result = "PENDING"
   /\ IsBasic(jobs[1].reader) /\ Alive(jobs[1].reader))
     => CardIn(jobs[1].reader) \notin spent

(* A card is in one reader at a time.                                      *)
OneReader ==
  \A q, r \in Readers : (CardIn(q) = CardIn(r) /\ CardIn(r) # NoCard) => q = r

TryInv ==
  /\ TypedFits /\ SpentFits /\ OneReader
  /\ phase = "entered" => AskedFits(state, ctx)
  /\ phase = "waiting" => WaitedFits

(* The context c keeps no PIN that the present one has not, and not for a  *)
(* smaller counter; a doubt is forgotten only when no password is under way.*)
PinKept(c) ==
  /\ (~HasError(c) /\ c.pw["pin"] # NoPassword) =>
       /\ ~HasError(ctx) /\ ctx.pw["pin"] # NoPassword
       /\ c.expectedCounter >= ctx.expectedCounter
  /\ (~c.doubted => ~ctx.doubted) \/ NoPasswordUnderWay

-----------------------------------------------------------------------------
LEMMA NothingAsked ==
  ASSUME NEW s, NEW c, HasError(c) \/ s \notin AskingStates
  PROVE  AskedFits(s, c)
  BY DEF AskedFits, AskingStates, HasError

LEMMA NothingAwaited ==
  ASSUME HasError(ctx') \/ state' \notin AskingStates
  PROVE  /\ (phase = "entered" => AskedFits(state, ctx))'
         /\ (phase = "waiting" => WaitedFits)'
  BY DEF AskedFits, WaitedFits, AskingStates, HasError

LEMMA PinStays ==
  ASSUME PaceInv, NEW c,
         c.pw["pin"] = NoPassword \/ (c.pw = ctx.pw /\ c.status = ctx.status
                                      /\ c.expectedCounter = ctx.expectedCounter),
         (~c.doubted => ~ctx.doubted) \/ NoPasswordUnderWay
  PROVE  PinKept(c)
<1>1. ctx.expectedCounter \in Counters
  BY ContextTypes DEF PaceInv, PaceTypeOK
<1>2. QED
  BY <1>1 DEF PinKept, HasError, Counters

(* The stored PIN when the context has become c.                           *)
LEMMA TypedMoves ==
  ASSUME PaceInv, TypedFits, UNCHANGED <<card, spent>>, PinKept(ctx'),
         ctx' \in Contexts
  PROVE  TypedFits'
<1>1. /\ ctx.expectedCounter \in Counters /\ ctx'.expectedCounter \in Counters
      /\ \A k \in spent : card[k].counter \in 0 .. 3
  BY ContextTypes DEF PaceInv, PaceTypeOK, CardRecords
<1>2. QED
  BY <1>1 DEF TypedFits, PinKept, HasError, Counters

(* The queue after a step of the main thread: the oldest command is the    *)
(* same, or one without a password.                                        *)
LEMMA FirstMoves ==
  ASSUME jobs \in Seq(Jobs), PasswordsFirst, ~ctx.doubted \/ NoPasswordUnderWay,
         NEW js, js # <<>>,
         \/ js \in {jobs, Unheard(jobs)}
         \/ jobs # <<>> /\ js \in {Tail(jobs), Unheard(Tail(jobs))}
  PROVE  \/ /\ jobs # <<>> /\ js[1].op = jobs[1].op /\ js[1].type = jobs[1].type
            /\ js[1].reader = jobs[1].reader /\ js[1].result = jobs[1].result
            /\ jobs[1].reader \in Readers
         \/ js[1].op \notin PasswordCommands
<1>1. CASE js \in {jobs, Unheard(jobs)}
  <2>1. /\ Len(js) = Len(jobs) /\ js \in Seq(Jobs)
        /\ \A i \in 1 .. Len(jobs) :
             /\ js[i].op = jobs[i].op /\ js[i].type = jobs[i].type
             /\ js[i].reader = jobs[i].reader /\ js[i].result = jobs[i].result
    BY <1>1, UnheardKeeps
  <2>2. jobs # <<>> /\ 1 \in 1 .. Len(jobs)
    BY <2>1
  <2>3. jobs[1].reader \in Readers
    BY <2>2, JobTypes
  <2>4. QED
    BY <2>1, <2>2, <2>3
<1>2. CASE jobs # <<>> /\ js \in {Tail(jobs), Unheard(Tail(jobs))}
  <2> DEFINE rest == Tail(jobs)
  <2>1. /\ rest \in Seq(Jobs)
        /\ \A i \in 1 .. Len(rest) : rest[i].op \notin PasswordCommands
    <3>1. /\ rest \in Seq(Jobs)
          /\ \A i \in 1 .. Len(rest) :
               i + 1 \in 1 .. Len(jobs) /\ i + 1 > 1 /\ rest[i] = jobs[i + 1]
      BY <1>2, TailKeeps
    <3> HIDE DEF rest
    <3>2. QED
      BY <3>1 DEF PasswordsFirst, NoPasswordUnderWay
  <2>2. js = rest \/ js = Unheard(rest)
    BY <1>2
  <2> HIDE DEF rest
  <2>3. /\ Len(js) = Len(rest) /\ js \in Seq(Jobs)
        /\ \A i \in 1 .. Len(rest) : js[i].op = rest[i].op
    BY <2>1, <2>2, UnheardKeeps
  <2>4. 1 \in 1 .. Len(rest)
    BY <2>3
  <2>5. QED
    BY <2>1, <2>3, <2>4
<1>3. QED
  BY <1>1, <1>2

LEMMA ReadersSame ==
  ASSUME OneReader, \A r \in Readers : reader'[r].card = reader[r].card
  PROVE  OneReader'
  BY DEF OneReader, CardIn

(* The main thread's part of a step.                                       *)
LEMMA MainTries ==
  ASSUME PaceInv, PaceInv', PasswordsFirst, TryInv, NEW c, NEW js, Main(c, js),
         \/ js \in {jobs, Unheard(jobs)}
         \/ jobs # <<>> /\ js \in {Tail(jobs), Unheard(Tail(jobs))},
         PinKept(c)
  PROVE  TypedFits' /\ SpentFits' /\ OneReader'
<1>1. /\ jobs \in Seq(Jobs) /\ PaceTypeOK /\ ctx' = c /\ jobs' = js
      /\ reader' = SessionsAfter(c, js) /\ UNCHANGED <<card, spent>>
      /\ ctx' \in Contexts
  BY DEF PaceInv, PaceTypeOK, Main
<1>2. \A r \in Readers : /\ reader'[r].card = reader[r].card
                         /\ reader'[r].session \in {reader[r].session, "closed"}
  BY <1>1, SessionsKeep
<1>3. TypedFits'
  BY <1>1, TypedMoves DEF TryInv
<1>4. SpentFits'
  <2> SUFFICES ASSUME js # <<>>, js[1].op = "EstablishPaceChannel", ~c.doubted
               PROVE  SpentFits'
    BY <1>1 DEF SpentFits
  <2>1. /\ jobs # <<>> /\ js[1].op = jobs[1].op /\ js[1].type = jobs[1].type
        /\ js[1].reader = jobs[1].reader /\ js[1].result = jobs[1].result
        /\ jobs[1].reader \in Readers
    BY <1>1, FirstMoves DEF PasswordCommands, PinKept
  <2>2. ~ctx.doubted
    BY <1>1, <2>1 DEF PinKept, NoPasswordUnderWay, PasswordCommands
  <2>3. QED
    BY <1>1, <1>2, <2>1, <2>2 DEF TryInv, SpentFits, Alive, CardIn
<1>5. QED
  BY <1>2, <1>3, <1>4, ReadersSame DEF TryInv

(* run() and callbacks that fire a transition.                             *)
LEMMA GoTries ==
  ASSUME PaceInv, PaceInv', PasswordsFirst, TryInv, NEW s, NEW c,
         Go(s, c) \/ (jobs # <<>> /\ Return(s, c)), PinKept(c), AskedFits(s, c)
  PROVE  TryInv'
<1>1. PICK js : /\ Main(c, js) /\ Enter(s)
                /\ \/ js = Unheard(jobs)
                   \/ jobs # <<>> /\ js = Unheard(Tail(jobs))
  BY DEF Go, Return
<1>2. TypedFits' /\ SpentFits' /\ OneReader'
  BY <1>1, MainTries
<1>3. /\ state' = s /\ phase' = "entered" /\ ctx' = c /\ UNCHANGED card
      /\ reader' = SessionsAfter(c, js) /\ PaceTypeOK
  BY <1>1 DEF Main, Enter, PaceInv
<1>4. HasConnection(c) => c.conn.reader \in Readers
  BY <1>3 DEF PaceInv, ContextFits, ConnectionFits, HasConnection
<1>5. HasConnection(c) => reader'[c.conn.reader] = reader[c.conn.reader]
  BY <1>3, <1>4, SessionsKeep
<1>6. HasConnection(c) =>
        /\ (Alive(c.conn.reader))' <=> Alive(c.conn.reader)
        /\ CounterIn(c.conn.reader)' = CounterIn(c.conn.reader)
  BY <1>3, <1>5 DEF Alive, CardIn, CounterIn
<1>7. AskedFits(state, ctx)'
  BY <1>3, <1>6 DEF AskedFits, HasConnection, HasError, Alive, CardIn, CounterIn
<1>8. QED
  BY <1>2, <1>3, <1>7 DEF TryInv

(* A step after which the machine is in a state without a PIN to send.     *)
LEMMA StayTries ==
  ASSUME PaceInv, PaceInv', PasswordsFirst, TryInv, NEW c, NEW js, Main(c, js),
         \/ js \in {jobs, Unheard(jobs)}
         \/ jobs # <<>> /\ js \in {Tail(jobs), Unheard(Tail(jobs))},
         PinKept(c), HasError(c) \/ state' \notin AskingStates
  PROVE  TryInv'
<1>1. TypedFits' /\ SpentFits' /\ OneReader' /\ ctx' = c
  BY MainTries DEF Main
<1>2. QED
  BY <1>1, NothingAwaited DEF TryInv

(* A step that leaves the context, the queue and the cards as they are.    *)
LEMMA WaitTries ==
  ASSUME TryInv, UNCHANGED <<ctx, jobs, reader, card, spent>>,
         state' \notin AskingStates
  PROVE  TryInv'
<1>1. TypedFits' /\ SpentFits' /\ OneReader'
  BY DEF TryInv, TypedFits, SpentFits, OneReader, HasError, Alive, CardIn
<1>2. QED
  BY <1>1, NothingAwaited DEF TryInv

(* run() that hands over a command.                                        *)
LEMMA CallTries ==
  ASSUME PaceInv, PaceInv', NEW outer, PasswordInv(outer), TryInv,
         phase = "entered",
         NEW op \in Operations, NEW r \in Readers, NEW type \in PaceTypes,
         NEW pw \in Passwords, Call(op, r, type, pw),
         state = "EstablishPaceChannel" \/ state \notin AskingStates,
         op = "EstablishPaceChannel" =>
           /\ state = "EstablishPaceChannel" /\ r = ctx.conn.reader
           /\ HasConnection(ctx) /\ ~HasError(ctx)
           /\ (type = "PACE_PIN" /\ IsBasic(r)) => ctx.pw["pin"] # NoPassword
  PROVE  TryInv'
<1> DEFINE job == [op |-> op, reader |-> r, type |-> type, pw |-> pw,
                   heard |-> TRUE, result |-> "PENDING"]
<1>1. /\ jobs \in Seq(Jobs) /\ jobs' = Append(jobs, job) /\ PaceTypeOK
      /\ phase' = "waiting" /\ UNCHANGED <<state, ctx, card, spent>>
      /\ reader' = SessionsAfter(ctx, jobs') /\ AskedFits(state, ctx)
      /\ EntryFits(outer, state, ctx, jobs)
      /\ spent \subseteq Cards /\ card \in CardRecords
  BY DEF PaceInv, PaceTypeOK, Call, Main, TryInv, PasswordInv, ChoiceFits
<1>2. /\ job.op = op /\ job.reader = r /\ job.type = type
      /\ job.result = "PENDING" /\ job \in Jobs
  BY DEF Jobs
<1> HIDE DEF job
<1>3. /\ \A q \in Readers : /\ reader'[q].card = reader[q].card
                            /\ reader'[q].session \in {reader[q].session, "closed"}
                            /\ ctx.conn.reader = q => reader'[q] = reader[q]
  BY <1>1, SessionsKeep
<1>4. HasConnection(ctx) => ctx.conn.reader \in Readers
  BY DEF PaceInv, ContextFits, ConnectionFits, HasConnection
<1>5. HasConnection(ctx) =>
        /\ (Alive(ctx.conn.reader))' <=> Alive(ctx.conn.reader)
        /\ CounterIn(ctx.conn.reader)' = CounterIn(ctx.conn.reader)
  BY <1>1, <1>3, <1>4 DEF Alive, CardIn, CounterIn
<1>6. TypedFits' /\ OneReader'
  BY <1>1, <1>3, ReadersSame DEF TryInv, TypedFits, HasError
<1>7. SpentFits'
  <2>1. CASE jobs = <<>>
    <3>1. jobs'[1] = job
      BY <1>1, <2>1
    <3>2. ASSUME op = "EstablishPaceChannel", type = "PACE_PIN", IsBasic(r),
                 Alive(r)', ~ctx.doubted
          PROVE  CardIn(r)' \notin spent
      <4>1. /\ Alive(r) /\ CardIn(r)' = CardIn(r)
            /\ ctx.expectedCounter = CounterIn(r)
            /\ \A k \in spent : card[k].counter < ctx.expectedCounter
        BY <1>1, <1>3, <1>5, <3>2
           DEF TryInv, TypedFits, AskedFits, AskingStates, CardIn
      <4>2. \A k \in spent : card[k].counter \in Int /\ ~(card[k].counter < card[k].counter)
        BY <1>1 DEF CardRecords
      <4>3. QED
        BY <4>1, <4>2 DEF CounterIn
    <3>3. QED
      BY <1>1, <1>2, <3>1, <3>2 DEF SpentFits, Alive, CardIn
  <2>2. CASE jobs # <<>>
    <3>1. 1 \in 1 .. Len(jobs) /\ jobs'[1] = jobs[1] /\ jobs[1].reader \in Readers
      BY <1>1, <1>2, <2>2, JobTypes
    <3>2. QED
      BY <1>1, <1>3, <2>2, <3>1 DEF TryInv, SpentFits, Alive, CardIn
  <2>3. QED
    BY <2>1, <2>2
<1>8. WaitedFits'
  BY <1>1, <1>5
     DEF WaitedFits, AskedFits, AskingStates, HasConnection, HasError, Alive,
         CardIn, CounterIn
<1>9. QED
  BY <1>1, <1>6, <1>7, <1>8 DEF TryInv
-----------------------------------------------------------------------------
(* The steps of the composite, state by state.                             *)
LEMMA MaintainTries ==
  ASSUME PaceInv, PaceInv', PasswordsFirst, TryInv, StateMaintainCardConnection
  PROVE  TryInv'
<1>1. ctx \in Contexts
  BY DEF PaceInv, PaceTypeOK
<1> DEFINE a == updateStatus(ctx, toGlobalStatus[ctx.last])
           b == resetPacePasswords(ctx)
           d == [ctx EXCEPT !.conn = NoConnection, !.last = "OK"]
           e == [ctx EXCEPT !.last = "OK"]
<1>2. PinKept(a)
  <2>1. toGlobalStatus[ctx.last] \in Statuses
    BY <1>1, ContextTypes, StatusTypes
  <2>2. /\ a.pw = ctx.pw /\ a.expectedCounter = ctx.expectedCounter
        /\ a.doubted = ctx.doubted
        /\ HasError(ctx) => HasError(a)
    BY <1>1, <2>1, UpdateStatusKeeps
  <2> HIDE DEF a
  <2>3. ctx.expectedCounter \in Counters
    BY <1>1, ContextTypes
  <2>4. QED
    BY <2>2, <2>3 DEF PinKept, Counters
<1>3. PinKept(b)
  BY <1>1, ResetKeeps, PinStays DEF PasswordKinds
<1>4. PinKept(d) /\ PinKept(e)
  <2>1. /\ d.pw = ctx.pw /\ d.status = ctx.status
        /\ d.expectedCounter = ctx.expectedCounter /\ d.doubted = ctx.doubted
        /\ e.pw = ctx.pw /\ e.status = ctx.status
        /\ e.expectedCounter = ctx.expectedCounter /\ e.doubted = ctx.doubted
    BY <1>1 DEF Contexts
  <2> HIDE DEF d, e
  <2>2. QED
    BY <2>1, PinStays
<1>5. PinKept(ctx)
  BY PinStays
<1>6. PICK s \in {"ClearPacePasswordsOnError", "UpdateRetryCounter",
                  "SelectReader", "VerifyRetryCounter"},
           c \in {a, b, d, e, ctx} : Go(s, c)
  BY DEF StateMaintainCardConnection
<1>7. AskedFits(s, c)
  BY NothingAsked DEF AskingStates
<1> HIDE DEF a, b, d, e
<1>8. PinKept(c)
  BY <1>2, <1>3, <1>4, <1>5
<1>9. QED
  BY <1>6, <1>7, <1>8, GoTries

LEMMA ClearTries ==
  ASSUME PaceInv, PaceInv', PasswordsFirst, TryInv, NEW s, NEW t,
         StateClearPacePasswords(s, t), t \notin AskingStates
  PROVE  TryInv'
<1>1. PinKept(resetPacePasswords(ctx))
  BY ResetKeeps, PinStays DEF PasswordKinds, PaceInv, PaceTypeOK
<1>2. QED
  BY <1>1, NothingAsked, GoTries DEF StateClearPacePasswords

LEMMA SelectReaderTries ==
  ASSUME PaceInv, PaceInv', NEW outer, PasswordInv(outer), TryInv,
         StateSelectReader \/ StateConnectCard
  PROVE  TryInv'
<1>1. /\ state \in {"SelectReader", "ConnectCard"} /\ phase = "entered"
      /\ ctx \in Contexts /\ state \notin AskingStates
  BY DEF StateSelectReader, StateConnectCard, Run, PaceInv, PaceTypeOK, AskingStates
<1>2. ASSUME NEW r \in Readers, Select(r)
      PROVE  TryInv'
  <2> DEFINE c == [ctx EXCEPT !.readerName = r]
  <2>1. /\ c.pw = ctx.pw /\ c.status = ctx.status
        /\ c.expectedCounter = ctx.expectedCounter /\ c.doubted = ctx.doubted
    BY <1>1 DEF Contexts
  <2>2. Go("ConnectCard", c)
    BY <1>2 DEF Select
  <2> HIDE DEF c
  <2>3. PinKept(c)
    BY <2>1, PinStays
  <2>4. AskedFits("ConnectCard", c)
    BY NothingAsked DEF AskingStates
  <2>5. QED
    BY <2>2, <2>3, <2>4, GoTries DEF PasswordInv
<1>3. CASE Call("CreateCardConnection", ctx.readerName, "UNKNOWN", NoPassword)
           /\ state = "ConnectCard"
  <2>1. /\ ctx.readerName \in Readers /\ "UNKNOWN" \in PaceTypes
        /\ "CreateCardConnection" \in Operations /\ NoPassword \in Passwords
    BY <1>3 DEF PaceInv, ContextFits, ConnectionFits, PaceTypes, Operations, Passwords
  <2>2. QED
    BY <1>1, <1>3, <2>1, CallTries
<1>4. CASE UNCHANGED <<state, ctx, jobs, reader, card, spent>>
  BY <1>1, <1>4, WaitTries
<1>5. QED
  BY <1>2, <1>3, <1>4, Zenon DEF StateSelectReader, StateConnectCard, Run

LEMMA ConnectCardDoneTries ==
  ASSUME PaceInv, PaceInv', PasswordsFirst, PasswordHeard, TryInv, ConnectCardDone
  PROVE  TryInv'
<1> DEFINE q == Head(jobs).reader
           d == [ctx EXCEPT
                   !.conn = [reader |-> q, counter |-> reader[q].counter,
                             paceCan |-> FALSE, pacePin |-> FALSE],
                   !.doubted = Doubtful(CardIn(q), reader[q].counter)]
           e == [d EXCEPT !.doubted = TRUE]
<1>1. /\ ctx \in Contexts /\ jobs # <<>> /\ state = "ConnectCard" /\ ~cancelDue
      /\ PinKept(ctx)
  BY HeardFacts, PinStays DEF ConnectCardDone, PaceInv, PaceTypeOK
<1>2. /\ d.pw = ctx.pw /\ d.status = ctx.status
      /\ d.expectedCounter = ctx.expectedCounter
      /\ e.pw = ctx.pw /\ e.status = ctx.status
      /\ e.expectedCounter = ctx.expectedCounter
  BY <1>1 DEF Contexts
<1>3. \/ Return("MaintainCardConnection", ctx)
      \/ Return("UpdateRetryCounter", d)
      \/ Main(e, Tail(jobs)) /\ UNCHANGED state
  BY DEF ConnectCardDone
<1> HIDE DEF d, e
<1>4. NoPasswordUnderWay
  BY <1>1, PasswordListener
     DEF PasswordHeard, NoPasswordUnderWay, PaceInv, ContextFits, ErrorFits
<1>5. PinKept(d) /\ PinKept(e)
  BY <1>2, <1>4, PinStays
<1>6. /\ AskedFits("MaintainCardConnection", ctx)
      /\ AskedFits("UpdateRetryCounter", d)
  BY NothingAsked DEF AskingStates
<1>7. state \notin AskingStates
  BY <1>1 DEF AskingStates
<1>8. CASE Main(e, Tail(jobs)) /\ UNCHANGED state
  BY <1>1, <1>5, <1>7, <1>8, StayTries
<1>9. QED
  BY <1>1, <1>3, <1>5, <1>6, <1>8, GoTries

(* StateUpdateRetryCounter and StateDestroyPace, wherever they are used.   *)
LEMMA UpdateTries ==
  ASSUME PaceInv, PaceInv', NEW outer, PasswordInv(outer), TryInv, NEW s, NEW t,
         StateUpdateRetryCounter(s, t) \/ StateDestroyPace(s),
         {s, t} \cap AskingStates = {}
  PROVE  TryInv'
<1>1. /\ phase = "entered" /\ state = s /\ PinKept(ctx) /\ PasswordsFirst
      /\ state \notin AskingStates
  BY PinStays DEF StateUpdateRetryCounter, StateDestroyPace, Run, PasswordInv
<1>2. CASE Go(t, ctx)
  BY <1>1, <1>2, NothingAsked, GoTries
<1>3. ASSUME HasConnection(ctx), NEW op \in {"UpdateRetryCounter", "DestroyPaceChannel"},
             Call(op, ctx.conn.reader, "UNKNOWN", NoPassword)
      PROVE  TryInv'
  <2>1. /\ ctx.conn.reader \in Readers /\ "UNKNOWN" \in PaceTypes
        /\ op \in Operations /\ NoPassword \in Passwords
    BY <1>3 DEF PaceInv, ContextFits, ConnectionFits, HasConnection, PaceTypes,
       Operations, Passwords
  <2>2. QED
    BY <1>1, <1>3, <2>1, CallTries
<1>4. QED
  BY <1>2, <1>3 DEF StateUpdateRetryCounter, StateDestroyPace

LEMMA UpdateDoneTries ==
  ASSUME PaceInv, PaceInv', PasswordsFirst, TryInv, NEW s, NEW t, NEW u,
         UpdateRetryCounterDone(s, t, u) \/ DestroyPaceDone(s, t),
         {t, u} \cap AskingStates = {}
  PROVE  TryInv'
<1> DEFINE c == [ctx EXCEPT !.conn = NoConnection]
<1>1. /\ ctx \in Contexts /\ jobs # <<>> /\ PinKept(ctx)
  BY PinStays
     DEF UpdateRetryCounterDone, DestroyPaceDone, Heard, Answered, PaceInv, PaceTypeOK
<1>2. /\ c.pw = ctx.pw /\ c.status = ctx.status
      /\ c.expectedCounter = ctx.expectedCounter /\ c.doubted = ctx.doubted
  BY <1>1 DEF Contexts
<1>3. Return(t, ctx) \/ Return(u, c)
  BY DEF UpdateRetryCounterDone, DestroyPaceDone
<1> HIDE DEF c
<1>4. PinKept(c) /\ AskedFits(t, ctx) /\ AskedFits(u, c)
  BY <1>2, PinStays, NothingAsked
<1>5. QED
  BY <1>1, <1>3, <1>4, GoTries

(* StateVerifyRetryCounter compares with the counter that was read.        *)
LEMMA VerifyTries ==
  ASSUME PaceInv, PaceInv', NEW outer, PasswordInv(outer), PinWanted, TryInv,
         StateVerifyRetryCounter
  PROVE  TryInv'
<1>1. /\ phase = "entered" /\ state = "VerifyRetryCounter" /\ ctx \in Contexts
      /\ EntryFits(outer, state, ctx, jobs) /\ PasswordsFirst /\ PinKept(ctx)
  BY PinStays
     DEF StateVerifyRetryCounter, Run, PasswordInv, ChoiceFits, PaceInv, PaceTypeOK
<1>2. CASE Go("MaintainCardConnection", ctx)
  <2>1. AskedFits("MaintainCardConnection", ctx)
    BY NothingAsked DEF AskingStates
  <2>2. QED
    BY <1>1, <1>2, <2>1, GoTries
<1>3. CASE HasConnection(ctx) /\ Go("PreparePace", Verified)
  <2> DEFINE d == resetPacePasswords(ctx)
             e == [d EXCEPT !.expectedReader = ctx.readerName,
                            !.expectedCounter = ctx.conn.counter]
  <2>1. /\ d \in Contexts /\ d.conn = ctx.conn /\ d.status = ctx.status
        /\ d.pw["pin"] = NoPassword /\ d.doubted = ctx.doubted
    BY <1>1, ResetKeeps DEF PasswordKinds
  <2>2. /\ e.conn = d.conn /\ e.status = d.status
        /\ e.pw = d.pw /\ e.expectedCounter = ctx.conn.counter
        /\ e.doubted = d.doubted
    <3> HIDE DEF d
    <3>1. QED
      BY <2>1 DEF Contexts
  <2>3. \/ Verified = ctx /\ ctx.expectedCounter = ctx.conn.counter
        \/ Verified = e
    BY DEF Verified
  <2> HIDE DEF d, e
  <2>4. /\ PinKept(Verified) /\ Verified.conn = ctx.conn
        /\ Verified.status = ctx.status /\ Verified.doubted = ctx.doubted
        /\ Verified.expectedCounter = ctx.conn.counter
    BY <1>1, <2>1, <2>2, <2>3, PinStays
  <2>5. ~ctx.doubted => ctx.conn.counter = reader[ctx.conn.reader].counter
    BY <1>3 DEF PaceInv, ContextFits, InfoFits
  <2>6. AskedFits("PreparePace", Verified)
    BY <1>1, <1>3, <2>4, <2>5 DEF AskedFits, EntryFits, HasConnection, HasError
  <2>7. QED
    BY <1>1, <1>3, <2>4, <2>6, GoTries
<1>4. QED
  BY <1>2, <1>3 DEF StateVerifyRetryCounter

LEMMA PrepareTries ==
  ASSUME PaceInv, PaceInv', PasswordsFirst, PinWanted, TryInv, StatePreparePace
  PROVE  TryInv'
<1>1. /\ phase = "entered" /\ state = "PreparePace" /\ ctx \in Contexts
      /\ AskedFits(state, ctx)
  BY DEF StatePreparePace, Run, PaceInv, PaceTypeOK, TryInv
<1>2. ASSUME NEW type \in PaceTypes
      PROVE  LET c == [ctx EXCEPT !.paceType = type]
             IN /\ c.paceType = type /\ c.conn = ctx.conn /\ c.status = ctx.status
                /\ c.expectedCounter = ctx.expectedCounter /\ PinKept(c)
                /\ c.doubted = ctx.doubted
  <2> DEFINE c == [ctx EXCEPT !.paceType = type]
  <2>1. /\ c.paceType = type /\ c.conn = ctx.conn /\ c.status = ctx.status
        /\ c.expectedCounter = ctx.expectedCounter /\ c.pw = ctx.pw
        /\ c.doubted = ctx.doubted
    BY <1>1 DEF Contexts
  <2> HIDE DEF c
  <2>2. PinKept(c)
    BY <2>1, PinStays
  <2>3. QED
    BY <2>1, <2>2 DEF c
<1>3. ASSUME NEW s \in {"MaintainCardConnection", "Unreachable"},
             NEW type \in PaceTypes, Go(s, [ctx EXCEPT !.paceType = type])
      PROVE  TryInv'
  <2>1. AskedFits(s, [ctx EXCEPT !.paceType = type])
    BY NothingAsked DEF AskingStates
  <2>2. QED
    BY <1>2, <1>3, <2>1, GoTries
<1>4. ASSUME NEW type \in {"PACE_PIN", "PACE_CAN", "PACE_PUK"}, Prepare(type)
      PROVE  TryInv'
  <2> DEFINE c == [ctx EXCEPT !.paceType = type]
             s == IF ctx.pw[KindOf[type]] = NoPassword THEN "EnterPacePassword"
                                                       ELSE "EstablishPaceChannel"
  <2>1. /\ c.conn = ctx.conn /\ c.status = ctx.status /\ c.paceType = type
        /\ c.expectedCounter = ctx.expectedCounter /\ PinKept(c)
        /\ c.doubted = ctx.doubted
    BY <1>2 DEF PaceTypes
  <2>2. Go(s, c) /\ s \in {"EnterPacePassword", "EstablishPaceChannel"}
    BY <1>4 DEF Prepare
  <2> HIDE DEF c, s
  <2>3. AskedFits(s, c)
    BY <1>1, <2>1, <2>2 DEF AskedFits, AskingStates, HasConnection, HasError
  <2>4. QED
    BY <2>1, <2>2, <2>3, GoTries
<1>5. QED
  BY <1>3, <1>4 DEF StatePreparePace, PinWanted, PaceTypes

(* A new PIN is typed: no card has lost a try for it yet.                  *)
LEMMA EnterPasswordTries ==
  ASSUME PaceInv, PaceInv', TryInv, StateEnterPacePassword
  PROVE  TryInv'
<1>1. /\ state = "EnterPacePassword" /\ phase = "entered" /\ ctx \in Contexts
      /\ AskedFits(state, ctx) /\ ctx.paceType \in {"PACE_PIN", "PACE_CAN", "PACE_PUK"}
  BY ContextTypes
     DEF StateEnterPacePassword, Run, PaceInv, PaceTypeOK, TryInv, ContextFits,
         ConnectionFits, PaceTypes
<1>2. PICK c \in TypePassword :
        /\ Enter(IF HasError(c) THEN "MaintainCardConnection"
                                ELSE "EstablishPaceChannel")
        /\ ctx' = c /\ spent' = (IF c.paceType = "PACE_PIN" THEN {} ELSE spent)
        /\ UNCHANGED <<jobs, reader, card>>
  BY <1>1 DEF StateEnterPacePassword
<1>3. /\ c.conn = ctx.conn /\ c.status = ctx.status /\ c.paceType = ctx.paceType
      /\ c.expectedCounter = ctx.expectedCounter /\ c.doubted = ctx.doubted
      /\ ctx.paceType # "PACE_PIN" => c.pw["pin"] = ctx.pw["pin"]
  <2>1. \/ c = ctx
        \/ \E p \in Passwords : c = [ctx EXCEPT !.pw[KindOf[ctx.paceType]] = p]
    BY <1>2 DEF TypePassword, Passwords
  <2>2. ctx.paceType # "PACE_PIN" => KindOf[ctx.paceType] # "pin"
    BY <1>1 DEF KindOf
  <2>3. QED
    BY <1>1, <2>1, <2>2 DEF Contexts, PasswordKinds
<1>4. TypedFits'
  BY <1>1, <1>2, <1>3 DEF TryInv, TypedFits, HasError
<1>5. SpentFits' /\ OneReader'
  BY <1>2, <1>3 DEF TryInv, SpentFits, OneReader, Alive, CardIn
<1>6. AskedFits(state, ctx)'
  BY <1>1, <1>2, <1>3
     DEF AskedFits, AskingStates, HasConnection, HasError, Alive, CardIn, CounterIn,
         Enter
<1>7. QED
  BY <1>2, <1>4, <1>5, <1>6 DEF TryInv, Enter

LEMMA EstablishTries ==
  ASSUME PaceInv, PaceInv', NEW outer, PasswordInv(outer), TryInv,
         StateEstablishPaceChannel
  PROVE  TryInv'
<1>1. /\ state = "EstablishPaceChannel" /\ phase = "entered" /\ ctx \in Contexts
      /\ ctx.paceType \in {"PACE_PIN", "PACE_CAN", "PACE_PUK"} /\ PasswordsFirst
  BY ContextTypes
     DEF StateEstablishPaceChannel, Run, PasswordInv, PaceInv, PaceTypeOK,
         ContextFits, ConnectionFits, PaceTypes
<1> DEFINE pw == ctx.pw[KindOf[ctx.paceType]]
           r == ctx.conn.reader
           d == resetPacePasswords(ctx)
           e == [d EXCEPT !.last = "OK"]
           f == [ctx EXCEPT !.last = "OK"]
<1>2. PinKept(ctx) /\ PinKept(e) /\ PinKept(f)
  <2>1. d \in Contexts /\ d.pw["pin"] = NoPassword /\ d.doubted = ctx.doubted
    BY <1>1, ResetKeeps DEF PasswordKinds
  <2>2. e.pw = d.pw /\ e.doubted = d.doubted
    <3> HIDE DEF d
    <3>1. QED
      BY <2>1 DEF Contexts
  <2>3. /\ f.pw = ctx.pw /\ f.status = ctx.status
        /\ f.expectedCounter = ctx.expectedCounter /\ f.doubted = ctx.doubted
    BY <1>1 DEF Contexts
  <2> HIDE DEF d, e, f
  <2>4. QED
    BY <2>1, <2>2, <2>3, PinStays
<1>3. ASSUME NEW c \in {ctx, e, f}, Go("MaintainCardConnection", c)
      PROVE  TryInv'
  <2> HIDE DEF e, f
  <2>1. AskedFits("MaintainCardConnection", c) /\ PinKept(c)
    BY <1>2, NothingAsked DEF AskingStates
  <2>2. QED
    BY <1>1, <1>3, <2>1, GoTries
<1>4. CASE /\ ~HasError(ctx) /\ HasConnection(ctx) /\ ~(pw = NoPassword /\ IsBasic(r))
           /\ Call(IF ctx.paceType = "PACE_PUK" THEN "UnblockPin"
                                                ELSE "EstablishPaceChannel",
                   r, ctx.paceType, pw)
  <2> DEFINE op == IF ctx.paceType = "PACE_PUK" THEN "UnblockPin"
                                                ELSE "EstablishPaceChannel"
  <2>1. /\ op \in Operations /\ ctx.paceType \in PaceTypes /\ pw \in Passwords
    BY <1>1, KindTypes, ContextTypes DEF Operations, PaceTypes
  <2>2. r \in Readers
    BY <1>1, <1>4 DEF PaceInv, ContextFits, ConnectionFits, HasConnection
  <2>3. (ctx.paceType = "PACE_PIN" /\ IsBasic(r)) => ctx.pw["pin"] # NoPassword
    BY <1>4 DEF KindOf
  <2>4. QED
    BY <1>1, <1>4, <2>1, <2>2, <2>3, CallTries
<1>5. QED
  BY <1>3, <1>4 DEF StateEstablishPaceChannel

LEMMA EstablishDoneTries ==
  ASSUME PaceInv, PaceInv', PasswordsFirst, TryInv, ExitsOutside,
         EstablishPaceChannelDone
  PROVE  TryInv'
<1> DEFINE c == AfterPace
           d == [c EXCEPT !.expectedCounter =
                   IF ctx.paceType = "PACE_PIN" THEN 3 ELSE @]
           e == resetPacePasswords(c)
           f == [e EXCEPT !.expectedCounter = -1, !.last = "OK_PUK"]
           g == updateStatus(c, toGlobalStatus[Result])
           h == [c EXCEPT !.last = RefinedInvalidPin]
<1>1. /\ c \in Contexts /\ c.pw = ctx.pw /\ c.status = ctx.status
      /\ c.expectedCounter = ctx.expectedCounter /\ c.doubted = ctx.doubted
      /\ jobs # <<>> /\ Result \in Codes
  BY AfterPaceFacts, HeardFacts DEF EstablishPaceChannelDone
<1> HIDE DEF c
<1>2. PinKept(c)
  BY <1>1, PinStays
<1>3. PinKept(d)
  <2>1. /\ d.pw = ctx.pw /\ d.status = ctx.status
        /\ d.expectedCounter \in {3, ctx.expectedCounter}
        /\ d.doubted = ctx.doubted
    BY <1>1 DEF Contexts
  <2>2. ctx.expectedCounter \in Counters
    BY <1>1, ContextTypes
  <2> HIDE DEF d
  <2>3. QED
    BY <2>1, <2>2 DEF PinKept, HasError, Counters
<1>4. PinKept(f)
  <2>1. e \in Contexts /\ e.pw["pin"] = NoPassword /\ e.doubted = ctx.doubted
    BY <1>1, ResetKeeps DEF PasswordKinds
  <2> HIDE DEF e
  <2>2. f.pw = e.pw /\ f.doubted = e.doubted
    BY <2>1 DEF Contexts
  <2> HIDE DEF f
  <2>3. QED
    BY <2>1, <2>2, PinStays
<1>5. PinKept(g)
  <2>1. toGlobalStatus[Result] \in Statuses
    BY <1>1, StatusTypes
  <2>2. /\ g.pw = ctx.pw /\ g.expectedCounter = ctx.expectedCounter
        /\ g.doubted = ctx.doubted
        /\ HasError(c) => HasError(g)
    BY <1>1, <2>1, UpdateStatusKeeps
  <2> HIDE DEF g
  <2>3. ctx.expectedCounter \in Counters
    BY <1>1, ContextTypes
  <2>4. QED
    BY <1>1, <2>2, <2>3 DEF PinKept, HasError, Counters
<1>6. PinKept(h)
  <2>1. /\ h.pw = ctx.pw /\ h.status = ctx.status
        /\ h.expectedCounter = ctx.expectedCounter /\ h.doubted = ctx.doubted
    BY <1>1 DEF Contexts
  <2> HIDE DEF h
  <2>2. QED
    BY <2>1, PinStays
<1>7. PICK t \in {OnEstablished, "MaintainCardConnection", "UnfortunateCardPosition",
                  "ClearPacePasswordsBeforeDestroy"},
           k \in {c, d, f, g, h} : Return(t, k)
  <2>1. \A told \in isNpaRepositioningRequired(c) :
          (IF told THEN "UnfortunateCardPosition" ELSE "MaintainCardConnection")
            \in {"UnfortunateCardPosition", "MaintainCardConnection"}
    OBVIOUS
  <2>2. QED
    BY <2>1 DEF EstablishPaceChannelDone, c
<1>8. t \notin AskingStates
  BY <1>7 DEF AskingStates, ExitsOutside, PaceStates
<1> HIDE DEF d, f, g, h
<1>9. PinKept(k) /\ AskedFits(t, k)
  BY <1>2, <1>3, <1>4, <1>5, <1>6, <1>8, NothingAsked
<1>10. QED
  BY <1>1, <1>7, <1>9, GoTries

LEMMA UnfortunateTries ==
  ASSUME PaceInv, PaceInv', PasswordsFirst, TryInv,
         StateUnfortunateCardPosition \/ \E t : /\ t \notin AskingStates
                                                /\ StateCleanUpReaderManager(t)
  PROVE  TryInv'
<1> DEFINE c == setNpaPositionVerified(ctx)
           d == [ctx EXCEPT !.conn = NoConnection]
<1>1. ctx \in Contexts
  BY DEF PaceInv, PaceTypeOK
<1>2. /\ c.pw = ctx.pw /\ c.status = ctx.status
      /\ c.expectedCounter = ctx.expectedCounter /\ c.doubted = ctx.doubted
      /\ d.pw = ctx.pw /\ d.status = ctx.status
      /\ d.expectedCounter = ctx.expectedCounter /\ d.doubted = ctx.doubted
  BY <1>1 DEF Contexts, setNpaPositionVerified
<1>3. PICK s, k : s \notin AskingStates /\ k \in {c, d} /\ Go(s, k)
  BY DEF StateUnfortunateCardPosition, StateCleanUpReaderManager, AskingStates
<1> HIDE DEF c, d
<1>4. PinKept(k) /\ AskedFits(s, k)
  BY <1>2, <1>3, PinStays, NothingAsked
<1>5. QED
  BY <1>3, <1>4, GoTries

LEMMA PaceStepTries ==
  ASSUME PaceInv, PaceInv', NEW outer, PasswordInv(outer), PinWanted, ExitsOutside,
         TryInv, PaceStep
  PROVE  TryInv'
<1>0. /\ OnAbort \notin AskingStates /\ PasswordsFirst /\ PasswordHeard
      /\ {"ClearPacePasswordsOnError", "DestroyPace", "UpdateRetryCounter",
          "MaintainCardConnection", "VerifyRetryCounter"} \cap AskingStates = {}
  BY DEF ExitsOutside, AskingStates, PaceStates, PasswordInv
<1>1. CASE StateMaintainCardConnection
  BY <1>0, <1>1, MaintainTries
<1>2. CASE \/ StateClearPacePasswords("ClearPacePasswordsOnError", OnAbort)
           \/ StateClearPacePasswords("ClearPacePasswordsBeforeDestroy", "DestroyPace")
  BY <1>0, <1>2, ClearTries
<1>3. CASE StateSelectReader \/ StateConnectCard
  BY <1>3, SelectReaderTries
<1>4. CASE ConnectCardDone
  BY <1>0, <1>4, ConnectCardDoneTries
<1>5. CASE \/ StateUpdateRetryCounter("UpdateRetryCounter", "MaintainCardConnection")
           \/ StateDestroyPace("DestroyPace")
  <2>1. CASE StateUpdateRetryCounter("UpdateRetryCounter", "MaintainCardConnection")
    BY <1>0, <2>1, UpdateTries
  <2>2. CASE StateDestroyPace("DestroyPace")
    <3>1. {"DestroyPace", "MaintainCardConnection"} \cap AskingStates = {}
      BY <1>0
    <3>2. QED
      BY <2>2, <3>1, UpdateTries
  <2>3. QED
    BY <1>5, <2>1, <2>2
<1>6. CASE \/ UpdateRetryCounterDone("UpdateRetryCounter", "VerifyRetryCounter",
                                     "MaintainCardConnection")
           \/ DestroyPaceDone("DestroyPace", "MaintainCardConnection")
  BY <1>0, <1>6, UpdateDoneTries
<1>7. CASE StateVerifyRetryCounter
  BY <1>7, VerifyTries
<1>8. CASE StatePreparePace
  BY <1>0, <1>8, PrepareTries
<1>9. CASE StateEnterPacePassword
  BY <1>9, EnterPasswordTries
<1>10. CASE StateEstablishPaceChannel \/ EstablishPaceChannelDone
  BY <1>0, <1>10, EstablishTries, EstablishDoneTries
<1>11. CASE StateUnfortunateCardPosition
  BY <1>0, <1>11, UnfortunateTries
<1>12. QED
  BY <1>1, <1>2, <1>3, <1>4, <1>5, <1>6, <1>7, <1>8, <1>9, <1>10, <1>11
     DEF PaceStep
-----------------------------------------------------------------------------
(* A result nobody listens to: no password was asked for meanwhile.        *)
LEMMA DropTries ==
  ASSUME PaceInv, PaceInv', NEW outer, PasswordInv(outer), TryInv, DropResult
  PROVE  TryInv'
<1> DEFINE c == PaceFlags(ctx, Head(jobs))
<1>1. /\ jobs # <<>> /\ jobs \in Seq(Jobs) /\ ~Head(jobs).heard
      /\ Head(jobs) = jobs[1] /\ UNCHANGED <<state, phase>>
      /\ Main(c, Tail(jobs)) /\ ctx' = c /\ ctx \in Contexts /\ Len(jobs) # 0
  BY DEF DropResult, Answered, Main, PaceInv, PaceTypeOK
<1>2. /\ c.pw = ctx.pw /\ c.status = ctx.status /\ c.paceType = ctx.paceType
      /\ c.expectedCounter = ctx.expectedCounter /\ c.doubted = ctx.doubted
      /\ HasConnection(c) <=> HasConnection(ctx)
  <2>1. Head(jobs) \in Jobs
    BY <1>1
  <2>2. ctx.conn # NoConnection => ctx.conn.reader \in Readers
    BY DEF PaceInv, ContextFits, ConnectionFits
  <2>3. QED
    BY <1>1, <2>1, <2>2, PaceFlagsKeep, FlagsKeepConnection
<1> HIDE DEF c
<1>3. PinKept(c)
  BY <1>2, PinStays
<1>4. TypedFits' /\ SpentFits' /\ OneReader'
  BY <1>1, <1>3, MainTries DEF PasswordInv
<1>5. CASE HasError(ctx) \/ ctx.doubted \/ state \notin AskingStates
  BY <1>1, <1>2, <1>4, <1>5 DEF TryInv, AskedFits, WaitedFits, AskingStates, HasError
<1>6. CASE ~HasError(ctx) /\ ~ctx.doubted /\ state \in AskingStates
  <2>1. IsCalm(outer, state, ctx)
    BY <1>6 DEF IsCalm, AskingStates, PaceStates
  <2>2. phase = "waiting" => state = "EstablishPaceChannel" /\ HasConnection(ctx)
    BY <1>6 DEF AskingStates, PaceInv, WaitFits, PaceStates, PaceWaits
  <2>3. phase = "entered" /\ ~HasConnection(ctx)
    BY <1>1, <1>6, <2>1, <2>2
       DEF PasswordInv, ChoiceFits, EntryFits, WaitingFits, PaceInv, PaceTypeOK
  <2>4. AskedFits(state, ctx)'
    BY <1>1, <1>2, <2>3 DEF TryInv, AskedFits, HasConnection, HasError, AskingStates
  <2>5. QED
    BY <1>1, <1>4, <2>3, <2>4 DEF TryInv
<1>7. QED
  BY <1>5, <1>6

(* A card comes or goes at the reader r.                                   *)
CardComesOrGoes(r) ==
  /\ UNCHANGED <<card, spent>>
  /\ \A q \in Readers : q # r => reader'[q] = reader[q]
  /\ reader'[r].session = "closed"
  /\ ctx'.pw = ctx.pw /\ ctx'.expectedCounter = ctx.expectedCounter
  /\ ctx'.paceType = ctx.paceType /\ ctx'.status = ctx.status
  /\ ctx'.conn.reader = ctx.conn.reader
  /\ HasConnection(ctx') <=> HasConnection(ctx)
  /\ ~ctx'.doubted => ~ctx.doubted

LEMMA MovedTries ==
  ASSUME PaceInv, TryInv, NEW r \in Readers, CardComesOrGoes(r), OneReader',
         jobs' # <<>> =>
           \/ /\ jobs # <<>> /\ jobs'[1].op = jobs[1].op
              /\ jobs'[1].type = jobs[1].type /\ jobs'[1].reader = jobs[1].reader
              /\ jobs'[1].result = jobs[1].result
           \/ jobs'[1].op # "EstablishPaceChannel",
         \/ UNCHANGED <<state, phase, jobs>> /\ state # "PreparePace"
         \/ state' \notin AskingStates
  PROVE  TryInv'
<1>1. TypedFits'
  BY DEF TryInv, TypedFits, CardComesOrGoes, HasError
<1>2. \A q \in Readers : (Alive(q))' => /\ Alive(q) /\ CardIn(q)' = CardIn(q)
                                        /\ CounterIn(q)' = CounterIn(q)
  BY DEF CardComesOrGoes, Alive, CardIn, CounterIn
<1>3. SpentFits'
  <2> SUFFICES ASSUME jobs' # <<>>, jobs'[1].op = "EstablishPaceChannel", ~ctx.doubted,
                      (Alive(jobs[1].reader))'
               PROVE  SpentFits'
    BY DEF SpentFits, CardComesOrGoes, Alive, CardIn
  <2>1. /\ jobs # <<>> /\ jobs'[1].op = jobs[1].op
        /\ jobs'[1].type = jobs[1].type /\ jobs'[1].reader = jobs[1].reader
        /\ jobs'[1].result = jobs[1].result
    OBVIOUS
  <2>2. jobs[1].reader \in Readers
    <3>1. 1 \in 1 .. Len(jobs) /\ jobs \in Seq(Jobs)
      BY <2>1 DEF PaceInv, PaceTypeOK
    <3>2. QED
      BY <3>1, JobTypes
  <2> DEFINE q == jobs[1].reader
  <2>3. Alive(q) /\ (CardIn(q))' = CardIn(q)
    BY <1>2, <2>1, <2>2 DEF Alive, CardIn
  <2>4. QED
    BY <2>1, <2>3 DEF TryInv, SpentFits, CardComesOrGoes, CardIn
<1>4. CASE state' \notin AskingStates
  BY <1>1, <1>3, <1>4, NothingAwaited DEF TryInv
<1>5. CASE UNCHANGED <<state, phase, jobs>> /\ state # "PreparePace"
  <2>1. HasConnection(ctx) => ctx.conn.reader \in Readers
    BY DEF PaceInv, ContextFits, ConnectionFits, HasConnection
  <2>2. (phase = "entered" => AskedFits(state, ctx))'
    BY <1>2, <1>5, <2>1
       DEF TryInv, AskedFits, CardComesOrGoes, HasConnection, HasError, AskingStates, Alive,
           CardIn, CounterIn
  <2>3. (phase = "waiting" => WaitedFits)'
    BY <1>2, <1>5, <2>1
       DEF TryInv, WaitedFits, CardComesOrGoes, HasConnection, HasError, Alive, CardIn,
           CounterIn
  <2>4. QED
    BY <1>1, <1>3, <2>2, <2>3 DEF TryInv
<1>6. QED
  BY <1>4, <1>5

LEMMA InfoChangedCounter ==
  ASSUME PaceInv, NEW r, NEW c, NEW n
  PROVE  InfoChanged(r, c, n).expectedCounter = ctx.expectedCounter
  BY DEF InfoChanged, PaceInv, PaceTypeOK, Contexts

LEMMA InsertTries ==
  ASSUME PaceInv, TryInv, NEW r \in Readers, NEW c \in Cards, InsertCard(r, c)
  PROVE  TryInv'
<1>1. PICK n \in Readings(c) :
        /\ reader' = [reader EXCEPT ![r] =
                        [card |-> c, counter |-> n, session |-> "closed"]]
        /\ \/ /\ state = "SelectReader" /\ phase = "waiting"
              /\ Enter("ConnectCard")
              /\ ctx' = [InfoChanged(r, c, n) EXCEPT !.readerName = r]
              /\ UNCHANGED jobs
           \/ /\ state = "ConnectCard" /\ phase = "waiting" /\ r = ctx.readerName
              /\ Len(jobs) < MaxJobs
              /\ ctx' = InfoChanged(r, c, n)
              /\ jobs' = Append(jobs,
                           [op |-> "CreateCardConnection", reader |-> r,
                            type |-> "UNKNOWN", pw |-> NoPassword,
                            heard |-> TRUE, result |-> "PENDING"])
              /\ UNCHANGED <<state, phase>>
           \/ /\ ~(state = "SelectReader" /\ phase = "waiting")
              /\ ~(state = "ConnectCard" /\ phase = "waiting" /\ r = ctx.readerName)
              /\ ctx' = InfoChanged(r, c, n)
              /\ UNCHANGED <<state, phase, jobs>>
  BY DEF InsertCard
<1>2. /\ UNCHANGED <<card, spent>> /\ reader \in [Readers -> ReaderStates]
      /\ card \in CardRecords /\ jobs \in Seq(Jobs) /\ state # "PreparePace"
      /\ CardIn(r) = NoCard /\ \A q \in Readers : CardIn(q) # c
  BY QuietFacts DEF InsertCard, PaceInv, PaceTypeOK
<1>3. n \in Counters
  BY <1>1, <1>2, ReadingTypes
<1> DEFINE d == InfoChanged(r, c, n)
           e == [d EXCEPT !.readerName = r]
<1>4. /\ d \in Contexts /\ d.pw = ctx.pw /\ d.paceType = ctx.paceType
      /\ d.status = ctx.status /\ d.conn.reader = ctx.conn.reader
      /\ d.expectedCounter = ctx.expectedCounter
      /\ ~d.doubted => ~ctx.doubted
      /\ HasConnection(d) <=> HasConnection(ctx)
  BY <1>3, InfoChangedFacts, InfoChangedCounter
<1> HIDE DEF d
<1>5. /\ e.conn = d.conn /\ e.paceType = d.paceType /\ e.pw = d.pw
      /\ e.status = d.status /\ e.doubted = d.doubted /\ e.expectedCounter = d.expectedCounter
  BY <1>4 DEF Contexts
<1> HIDE DEF e
<1>6. ctx' = d \/ ctx' = e
  BY <1>1 DEF d, e
<1>7. CardComesOrGoes(r) /\ OneReader'
  <2>1. /\ reader'[r].session = "closed" /\ reader'[r].card = c
        /\ \A q \in Readers : q # r => reader'[q] = reader[q]
    BY <1>1, <1>2
  <2>2. CardComesOrGoes(r)
    BY <1>2, <1>4, <1>5, <1>6, <2>1 DEF CardComesOrGoes, HasConnection
  <2>3. OneReader'
    BY <1>2, <2>1 DEF TryInv, OneReader, CardIn
  <2>4. QED
    BY <2>2, <2>3
<1>8. CASE Enter("ConnectCard") /\ UNCHANGED jobs
  BY <1>7, <1>8, MovedTries DEF Enter, AskingStates
<1>9. CASE /\ state = "ConnectCard" /\ UNCHANGED state
           /\ jobs' = Append(jobs,
                        [op |-> "CreateCardConnection", reader |-> r,
                         type |-> "UNKNOWN", pw |-> NoPassword,
                         heard |-> TRUE, result |-> "PENDING"])
  <2> DEFINE job == [op |-> "CreateCardConnection", reader |-> r,
                     type |-> "UNKNOWN", pw |-> NoPassword,
                     heard |-> TRUE, result |-> "PENDING"]
  <2>1. job \in Jobs /\ job.op = "CreateCardConnection"
    BY DEF Jobs, Operations, PaceTypes, Passwords
  <2>2. jobs' = Append(jobs, job)
    BY <1>9
  <2> HIDE DEF job
  <2>3. IF jobs = <<>> THEN jobs'[1] = job ELSE jobs'[1] = jobs[1]
    BY <1>2, <2>1, <2>2
  <2>4. state' \notin AskingStates
    BY <1>9 DEF AskingStates
  <2>5. QED
    BY <1>7, <2>1, <2>3, <2>4, MovedTries
<1>10. CASE UNCHANGED <<state, phase, jobs>>
  BY <1>2, <1>7, <1>10, MovedTries
<1>11. QED
  BY <1>1, <1>8, <1>9, <1>10

LEMMA RemoveTries ==
  ASSUME PaceInv, TryInv, NEW r \in Readers, NEW gone, RemoveCard(r, gone)
  PROVE  TryInv'
<1> DEFINE d == InfoChanged(r, NoCard, -1)
<1>1. /\ UNCHANGED <<card, spent>> /\ reader \in [Readers -> ReaderStates]
      /\ ctx' = d /\ jobs \in Seq(Jobs) /\ state # "PreparePace"
      /\ reader' = [reader EXCEPT ![r] =
                      [card |-> NoCard, counter |-> -1, session |-> "closed"]]
      /\ \/ Enter("SelectReader") /\ jobs' = Unheard(jobs)
         \/ UNCHANGED <<state, phase, jobs>>
  BY QuietFacts DEF RemoveCard, PaceInv, PaceTypeOK
<1>2. /\ d.pw = ctx.pw /\ d.paceType = ctx.paceType
      /\ d.status = ctx.status /\ d.conn.reader = ctx.conn.reader
      /\ d.expectedCounter = ctx.expectedCounter
      /\ ~d.doubted => ~ctx.doubted
      /\ HasConnection(d) <=> HasConnection(ctx)
  <2>1. -1 \in Counters
    BY DEF Counters
  <2>2. QED
    BY <2>1, InfoChangedFacts, InfoChangedCounter
<1> HIDE DEF d
<1>3. CardComesOrGoes(r) /\ OneReader'
  <2>1. /\ reader'[r].session = "closed" /\ reader'[r].card = NoCard
        /\ \A q \in Readers : q # r => reader'[q] = reader[q]
    BY <1>1
  <2>2. CardComesOrGoes(r)
    BY <1>1, <1>2, <2>1 DEF CardComesOrGoes
  <2>3. OneReader'
    BY <2>1 DEF TryInv, OneReader, CardIn
  <2>4. QED
    BY <2>2, <2>3
<1>4. CASE Enter("SelectReader") /\ jobs' = Unheard(jobs)
  <2>1. jobs' # <<>> =>
          /\ jobs # <<>> /\ jobs'[1].op = jobs[1].op /\ jobs'[1].type = jobs[1].type
          /\ jobs'[1].reader = jobs[1].reader /\ jobs'[1].result = jobs[1].result
    <3>1. /\ Len(jobs') = Len(jobs) /\ jobs' \in Seq(Jobs)
          /\ \A i \in 1 .. Len(jobs) :
               /\ jobs'[i].op = jobs[i].op /\ jobs'[i].type = jobs[i].type
               /\ jobs'[i].reader = jobs[i].reader
               /\ jobs'[i].result = jobs[i].result
      BY <1>1, <1>4, UnheardKeeps
    <3>2. jobs' # <<>> => jobs # <<>> /\ 1 \in 1 .. Len(jobs)
      BY <3>1
    <3>3. QED
      BY <3>1, <3>2
  <2>2. state' \notin AskingStates
    BY <1>4 DEF Enter, AskingStates
  <2>3. QED
    BY <1>3, <2>1, <2>2, MovedTries
<1>5. CASE UNCHANGED <<state, phase, jobs>>
  BY <1>1, <1>3, <1>5, MovedTries
<1>6. QED
  BY <1>1, <1>4, <1>5

LEMMA EnvironmentTries ==
  ASSUME PaceInv, PaceInv', PasswordsFirst, TryInv, Environment
  PROVE  TryInv'
<1>1. CASE onReaderDeviceError
  <2> DEFINE s == "Workflow_Reader_Device_Error"
             c == updateStatus(ctx, s)
  <2>1. ctx \in Contexts /\ Go("MaintainCardConnection", c) /\ s \in Statuses
    BY <1>1 DEF PaceInv, PaceTypeOK, onReaderDeviceError, Statuses
  <2>2. HasError(c) /\ c.doubted = ctx.doubted
    BY <2>1, UpdateStatusKeeps
  <2> HIDE DEF c
  <2>3. PinKept(c) /\ AskedFits("MaintainCardConnection", c)
    BY <2>2, NothingAsked DEF PinKept
  <2>4. QED
    BY <2>1, <2>3, GoTries
<1>2. CASE setReaderPlugInTypes
  <2>1. Go("SelectReader", ctx) /\ PinKept(ctx)
    BY <1>2, PinStays DEF setReaderPlugInTypes
  <2>2. AskedFits("SelectReader", ctx)
    BY NothingAsked DEF AskingStates
  <2>3. QED
    BY <2>1, <2>2, GoTries
<1>3. QED
  BY <1>1, <1>2, InsertTries, RemoveTries DEF Environment

(* A cancelled or killed workflow sends no password any more.              *)
LEMMA CancelTries ==
  ASSUME PaceInv, PaceInv', PasswordsFirst, TryInv, NEW target,
         onUserCancelled(target), HasError(ctx')
  PROVE  TryInv'
<1>1. PICK js \in {jobs, Unheard(jobs)} : Main(CancelledContext, js)
  BY DEF onUserCancelled
<1>2. CancelledContext.doubted = ctx.doubted
  <2> DEFINE c == updateStatus(ctx, "Workflow_Cancellation_By_User")
  <2>1. c \in Contexts /\ c.doubted = ctx.doubted
    BY UpdateStatusKeeps DEF PaceInv, PaceTypeOK, Statuses
  <2> HIDE DEF c
  <2>2. QED
    BY <2>1 DEF CancelledContext, Contexts, c
<1>3. HasError(CancelledContext) /\ PinKept(CancelledContext)
  BY <1>1, <1>2 DEF Main, PinKept
<1>4. QED
  BY <1>1, <1>3, StayTries

LEMMA KillTries ==
  ASSUME TryInv, HasError(ctx'), ctx'.doubted = ctx.doubted,
         UNCHANGED <<jobs, reader, card, spent>>
  PROVE  TryInv'
<1>1. TypedFits' /\ SpentFits' /\ OneReader'
  BY DEF TryInv, TypedFits, SpentFits, OneReader, HasError, Alive, CardIn
<1>2. QED
  BY <1>1, NothingAwaited DEF TryInv

-----------------------------------------------------------------------------
(* What a command leaves of the context.                                   *)
PinUntouched ==
  /\ ctx'.pw = ctx.pw /\ ctx'.expectedCounter = ctx.expectedCounter
  /\ ~ctx'.doubted => ~ctx.doubted
  /\ ctx'.paceType = ctx.paceType /\ ctx'.status = ctx.status
  /\ HasConnection(ctx') <=> HasConnection(ctx)

(* An answered command: no state has just asked for it.                    *)
LEMMA AnsweredTries ==
  ASSUME PaceInv, NEW outer, PasswordInv(outer), TryInv, jobs # <<>>,
         jobs' # <<>> => jobs'[1].result # "PENDING",
         UNCHANGED <<state, phase>>, PinUntouched,
         \A r \in Readers : reader'[r].card = reader[r].card, TypedFits'
  PROVE  TryInv'
<1>1. SpentFits' /\ OneReader' /\ WaitedFits'
  BY ReadersSame DEF TryInv, SpentFits, WaitedFits
<1>2. ASSUME phase = "entered" PROVE AskedFits(state, ctx)'
  <2>1. Len(jobs) # 0
    BY DEF PaceInv, PaceTypeOK
  <2>2. (state \in AskingStates /\ HasConnection(ctx))
          => HasError(ctx) \/ ctx.doubted
    BY <1>2, <2>1
       DEF PasswordInv, ChoiceFits, EntryFits, IsCalm, AskingStates, PaceStates
  <2>3. QED
    BY <1>2, <2>2
       DEF TryInv, AskedFits, PinUntouched, HasConnection, HasError, AskingStates
<1>3. QED
  BY <1>1, <1>2 DEF TryInv

LEMMA AnswerTries ==
  ASSUME PaceInv, NEW outer, PasswordInv(outer), TryInv, NEW op, Pending(op),
         NEW code \in Codes, NEW cd, NEW ss, Answer(code, cd, ss), UNCHANGED ctx,
         TypedFits'
  PROVE  TryInv'
<1>1. /\ jobs # <<>> /\ jobs \in Seq(Jobs) /\ 1 \in 1 .. Len(jobs)
      /\ reader \in [Readers -> ReaderStates] /\ R \in Readers
      /\ jobs' = [jobs EXCEPT ![1].result = code] /\ UNCHANGED <<state, phase>>
      /\ reader' = [reader EXCEPT ![R].session = ss]
  BY PendingFacts DEF Answer
<1>2. jobs'[1].result = code
  BY <1>1 DEF Jobs
<1>3. code # "PENDING"
  BY DEF Codes, equalsWrongPacePassword, Unrecoverable, CardVanished
<1>4. \A r \in Readers : reader'[r].card = reader[r].card
  BY <1>1 DEF ReaderStates
<1>5. PinUntouched
  BY DEF PinUntouched
<1>6. QED
  BY <1>1, <1>2, <1>3, <1>4, <1>5, AnsweredTries

LEMMA CountersStay ==
  ASSUME PaceInv, TryInv, UNCHANGED spent, PinUntouched,
         \A k \in Cards : card'[k].counter = card[k].counter
  PROVE  TypedFits'
  BY DEF TryInv, TypedFits, PinUntouched, HasError, PaceInv, PaceTypeOK

LEMMA FailTries ==
  ASSUME PaceInv, NEW outer, PasswordInv(outer), TryInv, NEW op, Pending(op),
         NEW codes \in SUBSET Codes, Fail(codes)
  PROVE  TryInv'
<1>1. PICK code \in codes : Answer(code, card, reader[R].session)
  BY DEF Fail
<1>2. UNCHANGED <<ctx, spent, card>> /\ PinUntouched
  BY <1>1 DEF Fail, Answer, PinUntouched
<1>3. TypedFits'
  BY <1>2, CountersStay
<1>4. QED
  BY <1>1, <1>2, <1>3, AnswerTries

(* The command with a password that is executed is heard, and its card has *)
(* the counter the password was typed for.                                 *)
LEMMA ExpectedAtCard ==
  ASSUME PaceInv, NEW outer, PasswordInv(outer), TryInv, ~HasError(ctx), ~ctx.doubted,
         NEW op \in PasswordCommands, Pending(op), Alive(R)
  PROVE  ctx.expectedCounter = CounterIn(R)
<1>1. /\ jobs # <<>> /\ 1 \in 1 .. Len(jobs) /\ jobs[1].op = op
      /\ jobs[1].result = "PENDING" /\ R = jobs[1].reader
  BY PendingFacts
<1>2. jobs[1].heard
  BY <1>1 DEF PasswordInv, PasswordHeard
<1>3. state = "EstablishPaceChannel" /\ phase = "waiting"
  BY <1>1, <1>2, PasswordListener
<1>4. HasConnection(ctx) /\ R = ctx.conn.reader
  BY <1>1, <1>2, <1>3 DEF PaceInv, WaitFits, JobsFit, JobFits
<1>5. QED
  BY <1>1, <1>3, <1>4 DEF TryInv, WaitedFits

LEMMA EstablishPinTries ==
  ASSUME PaceInv, NEW outer, PasswordInv(outer), TryInv, EstablishPacePin
  PROVE  TryInv'
<1> DEFINE c == CardIn(R)
<1>1. /\ Pending("EstablishPaceChannel") /\ R \in Readers
      /\ reader[R] \in ReaderStates /\ card \in CardRecords /\ spent \subseteq Cards
      /\ "EstablishPaceChannel" \in PasswordCommands
  BY PendingFacts DEF EstablishPacePin, PasswordCommands, PaceInv, PaceTypeOK
<1>2. CASE Fail(BrokenPace(R) \cup GivenUp(R))
  <2>1. BrokenPace(R) \cup GivenUp(R) \subseteq Codes
    BY BrokenCodes
  <2>2. QED
    BY <1>1, <1>2, <2>1, FailTries
<1>3. ASSUME Alive(R), UNCHANGED ctx, NEW n \in Int,
             card' = [card EXCEPT ![c].counter = n],
             \/ spent' = spent \ {c}
             \/ spent' = spent /\ n = card[c].counter - 1
             \/ /\ spent' = spent \cup {c} /\ n = card[c].counter - 1
                /\ ~ctx.doubted
      PROVE  TypedFits'
  <2> SUFFICES ASSUME ~HasError(ctx), ctx.pw["pin"] # NoPassword
               PROVE  TypedFits'
    BY <1>3 DEF TypedFits, HasError
  <2>1. \A k \in spent : card[k].counter < ctx.expectedCounter
    BY DEF TryInv, TypedFits
  <2>2. c \in Cards /\ ctx.expectedCounter \in Counters
    BY <1>1, <1>3, ContextTypes
       DEF Alive, CardIn, ReaderStates, PaceInv, PaceTypeOK
  <2>3. ~ctx.doubted => ctx.expectedCounter = card[c].counter
    BY <1>1, <1>3, ExpectedAtCard DEF CounterIn
  <2> HIDE DEF c
  <2>4. /\ card'[c].counter = n /\ card[c].counter \in 0 .. 3
        /\ \A k \in Cards : k # c => card'[k] = card[k]
    BY <1>1, <1>3, <2>2 DEF CardRecords
  <2>5. \A k \in spent' : card'[k].counter < ctx.expectedCounter
    <3>1. ASSUME NEW k \in spent', k # c
          PROVE  card'[k].counter < ctx.expectedCounter
      BY <1>1, <1>3, <2>1, <2>4, <3>1
    <3>2. ASSUME c \in spent'
          PROVE  card'[c].counter < ctx.expectedCounter
      BY <1>1, <1>3, <2>1, <2>2, <2>3, <2>4, <3>2 DEF Counters
    <3>3. QED
      BY <3>1, <3>2
  <2>6. QED
    BY <1>3, <2>5 DEF TypedFits, HasError
<1>4. ASSUME Alive(R), UNCHANGED ctx, NEW code \in {"OK"} \cup BrokenPace(R),
             Answer(code, [card EXCEPT ![c].counter = 3], "pin"),
             spent' = spent \ {c}
      PROVE  TryInv'
  <2> DEFINE cd == [card EXCEPT ![c].counter = 3]
  <2>1. code \in Codes /\ Answer(code, cd, "pin") /\ card' = cd /\ 3 \in Int
    BY <1>4, BrokenCodes DEF Answer
  <2>2. TypedFits'
    BY <1>3, <1>4, <2>1
  <2> HIDE DEF cd
  <2>3. QED
    BY <1>1, <1>4, <2>1, <2>2, AnswerTries
<1>5. ASSUME Alive(R), UNCHANGED ctx, NEW code \in {"INVALID_PIN"} \cup BrokenPace(R),
             Answer(code, [card EXCEPT ![c].counter = @ - 1], "open"),
             spent' = IF IsBasic(R) /\ ~ctx.doubted THEN spent \cup {c} ELSE spent
      PROVE  TryInv'
  <2> DEFINE n == card[c].counter - 1
             cd == [card EXCEPT ![c].counter = n]
  <2>1. c \in Cards
    BY <1>1, <1>5 DEF Alive, CardIn, ReaderStates
  <2>2. n \in Int
    <3> HIDE DEF c
    <3>1. QED
      BY <1>1, <2>1 DEF CardRecords
  <2>3. code \in Codes /\ Answer(code, cd, "open") /\ card' = cd
    BY <1>5, BrokenCodes DEF Answer
  <2>4. TypedFits'
    BY <1>3, <1>5, <2>2, <2>3
  <2> HIDE DEF cd
  <2>5. QED
    BY <1>1, <1>5, <2>3, <2>4, AnswerTries
<1>6. QED
  BY <1>2, <1>4, <1>5 DEF EstablishPacePin

(* An unblocked card has its tries back.                                   *)
LEMMA UnblockTries ==
  ASSUME PaceInv, NEW outer, PasswordInv(outer), TryInv, UnblockPin
  PROVE  TryInv'
<1>1. /\ Pending("UnblockPin") /\ R \in Readers /\ reader[R] \in ReaderStates
      /\ card \in CardRecords /\ "UnblockPin" \in PasswordCommands
  BY PendingFacts DEF UnblockPin, PaceInv, PaceTypeOK, PasswordCommands
<1>2. CASE Fail({"PIN_NOT_BLOCKED"}) \/ Fail(BrokenPace(R) \cup GivenUp(R))
  <2>1. /\ BrokenPace(R) \cup GivenUp(R) \subseteq Codes
        /\ {"PIN_NOT_BLOCKED"} \subseteq Codes
    BY BrokenCodes
  <2>2. QED
    BY <1>1, <1>2, <2>1, FailTries
<1>3. ASSUME UNCHANGED <<ctx, spent>>, NEW code \in Codes,
             Answer(code, card, "open")
      PROVE  TryInv'
  <2>1. card' = card /\ PinUntouched
    BY <1>3 DEF Answer, PinUntouched
  <2>2. TypedFits'
    BY <1>3, <2>1, CountersStay
  <2>3. QED
    BY <1>1, <1>3, <2>2, AnswerTries
<1>4. ASSUME UNCHANGED ctx, Alive(R), NEW code \in Codes, NEW cd,
             cd = [card EXCEPT ![CardIn(R)].counter = 3,
                               ![CardIn(R)].puk = @ - 1],
             Answer(code, cd, "open"), spent' = spent \ {CardIn(R)}
      PROVE  TryInv'
  <2>1. CardIn(R) \in Cards /\ card' = cd
    BY <1>1, <1>4 DEF Alive, CardIn, ReaderStates, Answer
  <2>2. \A k \in Cards \ {CardIn(R)} : cd[k] = card[k]
    BY <1>1, <1>4, <2>1 DEF CardRecords
  <2>3. TypedFits'
    BY <1>4, <2>1, <2>2 DEF TryInv, TypedFits, HasError, PaceInv, PaceTypeOK
  <2>4. QED
    BY <1>1, <1>4, <2>3, AnswerTries
<1>5. {"INVALID_PUK", "COMMAND_FAILED", "PUK_INOPERATIVE", "OK"} \subseteq Codes
  BY BrokenCodes
<1>6. CASE ~(CardIn(R) # NoCard /\ (reader[R].counter > 0 \/ IsPinDeactivated(R)))
  <2>1. ASSUME Alive(R), UNCHANGED ctx, card[CardIn(R)].puk > 0,
               NEW code \in {"OK", "COMMAND_FAILED"},
               Answer(code, [card EXCEPT ![CardIn(R)].counter = 3,
                                         ![CardIn(R)].puk = @ - 1], "open"),
               spent' = spent \ {CardIn(R)}
        PROVE  TryInv'
    BY <1>4, <1>5, <2>1
  <2>2. QED
    BY <1>2, <1>3, <1>5, <1>6, <2>1 DEF UnblockPin
<1>7. QED
  BY <1>2, <1>6 DEF UnblockPin

LEMMA CommandsTry ==
  ASSUME PaceInv, NEW outer, PasswordInv(outer), TryInv, ExecuteCommand
  PROVE  TryInv'
<1>1. card \in CardRecords /\ ctx \in Contexts
  BY DEF PaceInv, PaceTypeOK
<1>2. ASSUME NEW op, Pending(op), UNCHANGED <<ctx, spent>>, NEW code \in Codes,
             NEW cd, NEW ss, Answer(code, cd, ss),
             \A k \in Cards : cd[k].counter = card[k].counter
      PROVE  TryInv'
  <2>1. card' = cd /\ PinUntouched
    BY <1>2 DEF Answer, PinUntouched
  <2>2. TypedFits'
    BY <1>2, <2>1, CountersStay
  <2>3. QED
    BY <1>2, <2>2, AnswerTries
<1>3. ASSUME NEW op \in {"DidAuthenticateEAC1", "DidAuthenticateEAC2", "Transmit"},
             NEW refusals \in SUBSET {"PROTOCOL_ERROR", "UNEXPECTED_TRANSMIT_STATUS"},
             AuthenticationCommand(op, refusals)
      PROVE  TryInv'
  <2>1. /\ Pending(op) /\ {"OK"} \subseteq Codes
        /\ {"CARD_NOT_FOUND", "COMMAND_FAILED"} \cup refusals \subseteq Codes
    BY <1>3, BrokenCodes DEF AuthenticationCommand
  <2>2. QED
    BY <1>3, <2>1, FailTries DEF AuthenticationCommand
<1>4. CASE CreateCardConnection
  <2>1. /\ Pending("CreateCardConnection") /\ jobs \in Seq(Jobs) /\ jobs # <<>>
        /\ 1 \in 1 .. Len(jobs) /\ R \in Readers
        /\ reader \in [Readers -> ReaderStates]
        /\ UNCHANGED <<state, phase, ctx, card, spent>>
    BY <1>4, PendingFacts DEF CreateCardConnection
  <2>2. PICK code \in {"OK", "COMMAND_FAILED"} : WorkerCreated(code)
    BY <1>4 DEF CreateCardConnection
  <2>3. jobs'[1].result = code
    <3> DEFINE first == [i \in DOMAIN jobs |->
                  IF i = 1 \/ i \in Others
                    THEN [jobs[i] EXCEPT !.result = code, !.reader = R]
                    ELSE jobs[i]]
    <3>1. PICK later \in [1 .. Cardinality(Others) -> Others] :
            jobs' = first \o [i \in DOMAIN later |->
                                [jobs[later[i]] EXCEPT !.heard = FALSE]]
      BY <2>2 DEF WorkerCreated
    <3>2. DOMAIN jobs = 1 .. Len(jobs) /\ jobs[1] \in Jobs
      BY <2>1
    <3>3. first[1] = [jobs[1] EXCEPT !.result = code, !.reader = R]
      BY <2>1, <3>2
    <3>4. first[1].result = code
      <4>1. ASSUME NEW j \in Jobs
            PROVE  [j EXCEPT !.result = code, !.reader = R].result = code
        BY DEF Jobs
      <4> HIDE DEF first
      <4>2. QED
        BY <3>2, <3>3, <4>1
    <3>5. Len(first) = Len(jobs)
      BY <2>1, <3>2
    <3> HIDE DEF first
    <3>6. QED
      BY <2>1, <3>1, <3>4, <3>5
  <2>4. /\ PinUntouched /\ \A r \in Readers : reader'[r].card = reader[r].card
    <3>1. \A r \in Readers : [reader EXCEPT ![R].session = "open"][r].card
                               = reader[r].card
      BY <2>1 DEF ReaderStates
    <3>2. QED
      BY <1>4, <2>1, <3>1 DEF PinUntouched, CreateCardConnection
  <2>5. TypedFits'
    BY <2>1, <2>4, CountersStay
  <2>6. QED
    BY <2>1, <2>3, <2>4, <2>5, AnsweredTries
<1>5. CASE UpdateRetryCounter
  <2>1. /\ Pending("UpdateRetryCounter") /\ R \in Readers /\ jobs \in Seq(Jobs)
        /\ reader \in [Readers -> ReaderStates] /\ reader[R] \in ReaderStates
        /\ jobs # <<>> /\ 1 \in 1 .. Len(jobs)
    BY <1>5, PendingFacts DEF UpdateRetryCounter
  <2>2. CASE Fail({"COMMAND_FAILED"})
    BY <2>1, <2>2, FailTries, BrokenCodes
  <2>3. ASSUME Alive(R),
               NEW n \in Readings(CardIn(R)),
               reader' = [reader EXCEPT ![R].counter = n],
               ctx' = CounterRead(n, reader[R].counter # -1),
               jobs' = [jobs EXCEPT ![1].result = "OK"],
               UNCHANGED <<state, phase, card, spent>>
        PROVE  TryInv'
    <3>1. n \in Counters
      <4>1. CardIn(R) \in Cards
        BY <2>1, <2>3 DEF Alive, CardIn, ReaderStates
      <4>2. QED
        BY <1>1, <2>3, <4>1, ReadingTypes
    <3>2. /\ ctx'.pw = ctx.pw /\ ctx'.status = ctx.status
          /\ ctx'.paceType = ctx.paceType
          /\ ctx'.expectedCounter = ctx.expectedCounter
          /\ ctx'.conn.reader = ctx.conn.reader
          /\ HasConnection(ctx') <=> HasConnection(ctx)
          /\ ~ctx'.doubted => ~ctx.doubted
      BY <2>1, <2>3, <3>1, CounterReadFacts
    <3>4. PinUntouched
      BY <3>2 DEF PinUntouched
    <3>5. \A r \in Readers : reader'[r].card = reader[r].card
      BY <2>1, <2>3 DEF ReaderStates
    <3>6. jobs'[1].result = "OK"
      BY <2>1, <2>3 DEF Jobs
    <3>7. TypedFits'
      BY <2>3, <3>4, CountersStay
    <3>8. QED
      BY <2>1, <2>3, <3>4, <3>5, <3>6, <3>7, AnsweredTries
  <2>4. QED
    BY <1>5, <2>2, <2>3 DEF UpdateRetryCounter, ReadCounter
<1>6. CASE EstablishPaceCan
  <2>1. CASE Fail(BrokenPace(R) \cup GivenUp(R))
    BY <1>6, <2>1, FailTries, BrokenCodes DEF EstablishPaceCan
  <2>2. BrokenPace(R) \cup {"OK", "INVALID_CAN"} \subseteq Codes
    BY BrokenCodes
  <2>3. QED
    BY <1>2, <1>6, <2>1, <2>2 DEF EstablishPaceCan
<1>7. CASE SetEidPin
  <2>1. Pending("SetEidPin") /\ R \in Readers /\ reader[R] \in ReaderStates
    BY <1>7, PendingFacts DEF SetEidPin
  <2>2. ASSUME NEW codes \in SUBSET Codes, Fail(codes) PROVE TryInv'
    BY <2>1, <2>2, FailTries
  <2>3. /\ {"CARD_NOT_FOUND"} \subseteq Codes /\ {"COMMAND_FAILED"} \subseteq Codes
        /\ GivenUp(R) \cup {"NEW_PIN_MISMATCH", "NEW_PIN_INVALID_LENGTH",
                            "PROTOCOL_ERROR"} \subseteq Codes
        /\ {"OK", "COMMAND_FAILED"} \subseteq Codes
    BY BrokenCodes
  <2>4. ASSUME Alive(R), NEW code \in {"OK", "COMMAND_FAILED"}, NEW b,
               Answer(code, [card EXCEPT ![CardIn(R)].changed = b],
                      reader[R].session), UNCHANGED <<ctx, spent>>
        PROVE  TryInv'
    <3>1. CardIn(R) \in Cards
      BY <2>1, <2>4 DEF Alive, CardIn, ReaderStates
    <3>2. \A k \in Cards :
            [card EXCEPT ![CardIn(R)].changed = b][k].counter = card[k].counter
      BY <1>1, <3>1 DEF CardRecords
    <3>3. QED
      BY <1>2, <2>1, <2>3, <2>4, <3>2
  <2>5. [card EXCEPT ![CardIn(R)].changed =
                @ \/ ~IsBasic(R) \/ Head(jobs).pw # NoPassword]
               = [card EXCEPT ![CardIn(R)].changed =
                    card[CardIn(R)].changed \/ ~IsBasic(R)
                      \/ Head(jobs).pw # NoPassword]
    OBVIOUS
  <2>6. QED
    BY <1>7, <2>2, <2>3, <2>4, <2>5 DEF SetEidPin
<1>8. CASE DestroyPaceChannel
  BY <1>2, <1>8, BrokenCodes DEF DestroyPaceChannel
<1>9. QED
  BY <1>3, <1>4, <1>5, <1>6, <1>7, <1>8, EstablishPinTries, UnblockTries
     DEF ExecuteCommand

(* Only PACE with the PIN costs a try, and only the card it is sent to.    *)
LEMMA TriesLost ==
  ASSUME PaceInv, TryInv, ExecuteCommand, NEW c \in Cards,
         card'[c].counter < card[c].counter,
         NEW r \in Readers, CardIn(r) = c, IsBasic(r)
  PROVE  c \notin spent \/ ctx.doubted
<1>1. card \in CardRecords
  BY DEF PaceInv, PaceTypeOK
<1>2. ~(card[c].counter < card[c].counter) /\ card[c].counter \in 0 .. 3
  BY <1>1 DEF CardRecords
<1>3. card' # card
  BY <1>2
<1>4. CASE EstablishPacePin
  <2>1. /\ jobs # <<>> /\ jobs[1].op = "EstablishPaceChannel"
        /\ jobs[1].type = "PACE_PIN" /\ jobs[1].result = "PENDING"
        /\ jobs[1].reader = R /\ R \in Readers /\ reader[R] \in ReaderStates
    BY <1>4, PendingFacts DEF EstablishPacePin
  <2>2. Alive(R)
    BY <1>3, <1>4 DEF EstablishPacePin, Fail, Answer
  <2>3. CardIn(R) = c
    <3>1. \/ card' = [card EXCEPT ![CardIn(R)].counter = 3]
          \/ card' = [card EXCEPT ![CardIn(R)].counter = @ - 1]
      BY <1>3, <1>4 DEF EstablishPacePin, Fail, Answer
    <3>2. CardIn(R) # c => card'[c] = card[c]
      BY <1>1, <3>1 DEF CardRecords
    <3>3. QED
      BY <1>2, <3>2
  <2>4. r = R
    BY <2>1, <2>2, <2>3 DEF TryInv, OneReader, Alive
  <2>5. QED
    BY <2>1, <2>2, <2>3, <2>4 DEF TryInv, SpentFits
<1>5. CASE UnblockPin
  <2>1. R \in Readers /\ reader[R] \in ReaderStates
    BY <1>5, PendingFacts DEF UnblockPin
  <2>2. /\ Alive(R)
        /\ card' = [card EXCEPT ![CardIn(R)].counter = 3, ![CardIn(R)].puk = @ - 1]
    BY <1>3, <1>5 DEF UnblockPin, Fail, Answer
  <2>3. CardIn(R) \in Cards
    BY <2>1, <2>2 DEF Alive, CardIn, ReaderStates
  <2>4. card'[c].counter \in {3, card[c].counter}
    BY <1>1, <2>2, <2>3 DEF CardRecords
  <2>5. QED
    BY <1>2, <2>4
<1>6. CASE SetEidPin
  <2>1. R \in Readers /\ reader[R] \in ReaderStates
    BY <1>6, PendingFacts DEF SetEidPin
  <2>2. PICK b : Alive(R) /\ card' = [card EXCEPT ![CardIn(R)].changed = b]
    <3>1. /\ Alive(R)
          /\ card' = [card EXCEPT ![CardIn(R)].changed =
                        @ \/ ~IsBasic(R) \/ Head(jobs).pw # NoPassword]
      BY <1>3, <1>6 DEF SetEidPin, Fail, Answer
    <3>2. QED
      BY <3>1
  <2>3. CardIn(R) \in Cards
    BY <2>1, <2>2 DEF Alive, CardIn, ReaderStates
  <2>4. card'[c].counter = card[c].counter
    BY <1>1, <2>2, <2>3 DEF CardRecords
  <2>5. QED
    BY <1>2, <2>4
<1>7. CASE \/ AuthenticationCommand("DidAuthenticateEAC1", {})
           \/ AuthenticationCommand("DidAuthenticateEAC2", {"PROTOCOL_ERROR"})
           \/ AuthenticationCommand("Transmit", {"UNEXPECTED_TRANSMIT_STATUS"})
           \/ CreateCardConnection \/ UpdateRetryCounter
           \/ EstablishPaceCan \/ DestroyPaceChannel
  BY <1>3, <1>7
     DEF AuthenticationCommand, CreateCardConnection, UpdateRetryCounter, ReadCounter,
         EstablishPaceCan, DestroyPaceChannel, Fail, Answer
<1>8. QED
  BY <1>4, <1>5, <1>6, <1>7 DEF ExecuteCommand
=============================================================================
