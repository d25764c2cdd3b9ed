----------------------------- MODULE AndroidProofs -----------------------------
(***************************************************************************)
(* The two halves of the Android SDK: the sessions of its service, for any *)
(* set of clients and any number of sessions and commands, and the Java    *)
(* library that uses one of them, for any number of calls, interrupts and  *)
(* removals and any capacity of the channels.                              *)
(***************************************************************************)
EXTENDS Aidl, Connector, TLAPS

(* The sessions of the service.                                            *)
Orders == {"RUN", "request"}

(* Each session is numbered by the client it was handed to, and the client *)
(* that waits in connectSdk will have a number left.                       *)
Handed ==
  /\ connects \in Nat /\ connects <= MaxSessions
  /\ Len(owner) <= connects
  /\ monitor # None => Len(owner) < connects
  /\ workflow <= Len(owner)
  /\ session # Empty => session <= Len(owner)

(* What is posted is of a session handed out, and a workflow is ordered by *)
(* a session only: TypeOK needs it, for Null is "no workflow".             *)
Numbered(q, n) ==
  \A i \in 1..Len(q) : /\ q[i].session <= n
                       /\ q[i].kind \in Orders => q[i].session # Null

(* The machine of a workflow is started once.                              *)
OneStart(q) ==
  \A i, j \in 1..Len(q) : q[i].kind = "start" /\ q[j].kind = "start" => i = j
NoStart(q) == \A i \in 1..Len(q) : q[i].kind # "start"

(* A reset that is still posted is older than every order of the session.  *)
NoReset(q) == \A i \in 1..Len(q) : q[i].kind # "reset"
Behind(q, s) ==
  \A i, j \in 1..Len(q) :
    q[i].kind = "reset" /\ q[j].kind \in Orders /\ q[j].session = s => i < j

QueueOK ==
  /\ Numbered(queue, Len(owner))
  /\ OneStart(queue)
  /\ stage # "initial" => NoStart(queue)

ResetsAreOld ==
  callback # None /\ session \in Sessions =>
    /\ Behind(queue, session)
    /\ workflow = session => NoReset(queue)

IInv == TypeOK /\ SessionIsNeverNull /\ Handed /\ QueueOK /\ ResetsAreOld

(***************************************************************************)
(* Lemmas on the queue.                                                    *)
(***************************************************************************)

(* Append, index by index.                                                 *)
LEMMA AppendFacts ==
  ASSUME NEW q \in Seq(Events), NEW e \in Events
  PROVE  /\ Append(q, e) \in Seq(Events)
         /\ Len(q) \in Nat
         /\ Len(Append(q, e)) = Len(q) + 1
         /\ \A i \in 1 .. Len(q) : Append(q, e)[i] = q[i]
         /\ Append(q, e)[Len(q) + 1] = e
  OBVIOUS

(* Head and Tail, index by index.                                          *)
LEMMA TailFacts ==
  ASSUME NEW q \in Seq(Events), q # <<>>
  PROVE  /\ Tail(q) \in Seq(Events)
         /\ Len(q) \in Nat \ {0}
         /\ Len(Tail(q)) = Len(q) - 1
         /\ \A i \in 1 .. Len(q) - 1 : Tail(q)[i] = q[i + 1]
         /\ Head(q) = q[1] /\ Head(q) \in Events
  OBVIOUS

(* The events of the main loop and their fields.                           *)
LEMMA EventFacts ==
  ASSUME NEW s \in Sessions \cup {Null},
         NEW k \in {"RUN", "CANCEL", "GET", "reset", "request", "start", "send"}
  PROVE  /\ Event(k, s) \in Events
         /\ Event(k, s).kind = k /\ Event(k, s).session = s
  BY DEF Event, Events

(* Posting an event keeps the queue numbered; one that is not a start, and *)
(* one that is not a reset, keep what is known of starts and resets.       *)
LEMMA AppendKeeps ==
  ASSUME NEW q \in Seq(Events), NEW e \in Events, NEW n \in Nat,
         Numbered(q, n), OneStart(q), e.session <= n,
         e.kind \in Orders => e.session # Null
  PROVE  /\ Append(q, e) \in Seq(Events)
         /\ Numbered(Append(q, e), n)
         /\ e.kind # "start" \/ NoStart(q) => OneStart(Append(q, e))
         /\ e.kind # "start" /\ NoStart(q) => NoStart(Append(q, e))
         /\ e.kind # "reset" =>
              /\ \A s : Behind(q, s) => Behind(Append(q, e), s)
              /\ NoReset(q) => NoReset(Append(q, e))
PROOF
  <1> DEFINE r == Append(q, e)
  <1> /\ r \in Seq(Events) /\ Len(q) \in Nat /\ Len(r) = Len(q) + 1
      /\ \A i \in 1 .. Len(q) : r[i] = q[i]
      /\ r[Len(q) + 1] = e
    BY AppendFacts
  <1> HIDE DEF r
  <1>1. Numbered(r, n)
    BY DEF Numbered
  <1>2. e.kind # "start" \/ NoStart(q) => OneStart(r)
    BY DEF OneStart, NoStart
  <1>3. e.kind # "start" /\ NoStart(q) => NoStart(r)
    BY DEF NoStart
  <1>4. ASSUME e.kind # "reset", NEW s, Behind(q, s)
        PROVE  Behind(r, s)
    BY <1>4 DEF Behind
  <1>5. e.kind # "reset" /\ NoReset(q) => NoReset(r)
    BY DEF NoReset
  <1>6. QED
    BY <1>1, <1>2, <1>3, <1>4, <1>5 DEF r

(* Taking the head off keeps all of it; a start at the head was the only   *)
(* one, and a reset is never behind an order it must not hit.              *)
LEMMA TailKeeps ==
  ASSUME NEW q \in Seq(Events), q # <<>>, NEW n \in Nat,
         Numbered(q, n), OneStart(q)
  PROVE  /\ Tail(q) \in Seq(Events) /\ Head(q) \in Events
         /\ Head(q).session <= n
         /\ Head(q).kind \in Orders => Head(q).session # Null
         /\ Numbered(Tail(q), n) /\ OneStart(Tail(q))
         /\ NoStart(q) => NoStart(Tail(q)) /\ Head(q).kind # "start"
         /\ Head(q).kind = "start" => NoStart(Tail(q))
         /\ \A s : Behind(q, s) => Behind(Tail(q), s)
         /\ \A s : Behind(q, s) /\ Head(q).kind \in Orders /\ Head(q).session = s
                    => NoReset(Tail(q))
         /\ NoReset(q) => NoReset(Tail(q)) /\ Head(q).kind # "reset"
PROOF
  <1> DEFINE r == Tail(q)
  <1> DEFINE h == Head(q)
  <1> /\ r \in Seq(Events) /\ Len(q) \in Nat \ {0} /\ Len(r) = Len(q) - 1
      /\ \A i \in 1 .. Len(q) - 1 : r[i] = q[i + 1]
      /\ h = q[1] /\ h \in Events
    BY TailFacts
  <1> HIDE DEF r, h
  <1>1. /\ h.session <= n
        /\ h.kind \in Orders => h.session # Null
        /\ Numbered(r, n)
    BY DEF Numbered
  <1>2. OneStart(r) /\ (h.kind = "start" => NoStart(r))
    <2>1. OneStart(r)
      <3> SUFFICES ASSUME NEW i \in 1 .. Len(r), NEW j \in 1 .. Len(r),
                          r[i].kind = "start", r[j].kind = "start"
                   PROVE  i = j
        BY DEF OneStart
      <3>1. /\ i + 1 \in 1 .. Len(q) /\ j + 1 \in 1 .. Len(q)
            /\ r[i] = q[i + 1] /\ r[j] = q[j + 1]
        OBVIOUS
      <3>2. i + 1 = j + 1
        BY <3>1 DEF OneStart
      <3>3. QED
        BY <3>2
    <2>2. ASSUME h.kind = "start", NEW i \in 1 .. Len(r), r[i].kind = "start"
          PROVE  FALSE
      <3>1. i + 1 \in 1 .. Len(q) /\ 1 \in 1 .. Len(q) /\ i + 1 # 1
        OBVIOUS
      <3>2. q[i + 1].kind = "start" /\ q[1].kind = "start"
        BY <2>2
      <3>3. QED
        BY <3>1, <3>2 DEF OneStart
    <2>3. QED
      BY <2>1, <2>2 DEF NoStart
  <1>3. NoStart(q) => NoStart(r) /\ h.kind # "start"
    BY DEF NoStart
  <1>4. ASSUME NEW s, Behind(q, s)
        PROVE  /\ Behind(r, s)
               /\ h.kind \in Orders /\ h.session = s => NoReset(r)
    <2>1. Behind(r, s)
      <3> SUFFICES ASSUME NEW i \in 1 .. Len(r), NEW j \in 1 .. Len(r),
                          r[i].kind = "reset", r[j].kind \in Orders,
                          r[j].session = s
                   PROVE  i < j
        BY DEF Behind
      <3>1. i + 1 \in 1 .. Len(q) /\ j + 1 \in 1 .. Len(q)
        OBVIOUS
      <3>2. i + 1 < j + 1
        BY <1>4, <3>1 DEF Behind
      <3>3. QED
        BY <3>2
    <2>2. ASSUME h.kind \in Orders, h.session = s, NEW i \in 1 .. Len(r),
                 r[i].kind = "reset"
          PROVE  FALSE
      <3>1. i + 1 \in 1 .. Len(q) /\ 1 \in 1 .. Len(q) /\ ~(i + 1 < 1)
        OBVIOUS
      <3>2. QED
        BY <1>4, <2>2, <3>1 DEF Behind
    <2>3. QED
      BY <2>1, <2>2 DEF NoReset
  <1>5. NoReset(q) => NoReset(r) /\ h.kind # "reset"
    BY DEF NoReset
  <1>6. QED
    BY <1>1, <1>2, <1>3, <1>4, <1>5 DEF r, h

(* A message is posted, or nothing.                                        *)
LEMMA MessageKeeps ==
  ASSUME NEW q \in Seq(Events), NEW s \in Sessions \cup {Null}, NEW n \in Nat,
         Numbered(q, n), OneStart(q), s <= n
  PROVE  /\ q \o Message(s) \in Seq(Events)
         /\ Numbered(q \o Message(s), n) /\ OneStart(q \o Message(s))
         /\ NoStart(q) => NoStart(q \o Message(s))
         /\ \A t : Behind(q, t) => Behind(q \o Message(s), t)
         /\ NoReset(q) => NoReset(q \o Message(s))
PROOF
  <1> DEFINE e == Event("send", s)
  <1>1. e \in Events /\ e.kind = "send" /\ e.session = s
    BY EventFacts
  <1>2. CASE blocked
    <2>1. q \o Message(s) = q
      BY <1>2 DEF Message
    <2>2. QED
      BY <2>1
  <1>3. CASE ~blocked
    <2>1. q \o Message(s) = Append(q, e)
      BY <1>3, <1>1 DEF Message
    <2> HIDE DEF e
    <2>2. e.kind \notin Orders /\ e.kind # "start" /\ e.kind # "reset"
      BY <1>1 DEF Orders
    <2>3. QED
      BY <2>1, <2>2, <1>1, AppendKeeps
  <1>4. QED
    BY <1>2, <1>3

(***************************************************************************)
(* The invariant.                                                          *)
(***************************************************************************)
LEMMA Initial == Init => IInv
PROOF
  <1> SUFFICES ASSUME Init PROVE IInv
    OBVIOUS
  <1> USE AidlAssumption
  <1>1. TypeOK
    BY DEF Init, TypeOK, Null, Sessions, WorkflowIsActive
  <1>2. SessionIsNeverNull
    BY DEF Init, SessionIsNeverNull
  <1>3. Handed
    BY DEF Init, Handed, Null
  <1>4. QueueOK
    BY DEF Init, QueueOK, Numbered, OneStart, NoStart
  <1>5. ResetsAreOld
    BY DEF Init, ResetsAreOld
  <1>6. QED
    BY <1>1, <1>2, <1>3, <1>4, <1>5 DEF IInv

(* What an action of the main thread has to keep that leaves the session   *)
(* and the workflow alone.                                                 *)
LEMMA SameSession ==
  ASSUME IInv, TypeOK',
         UNCHANGED <<session, monitor, owner, connects, workflow>>,
         callback' \in {callback, None},
         Numbered(queue', Len(owner)), OneStart(queue'),
         stage' # "initial" => NoStart(queue'),
         \A s : Behind(queue, s) => Behind(queue', s),
         NoReset(queue) => NoReset(queue')
  PROVE  IInv'
PROOF
  <1>1. SessionIsNeverNull'
    BY DEF IInv, SessionIsNeverNull
  <1>2. Handed'
    BY DEF IInv, Handed, Empty
  <1>3. QueueOK'
    BY DEF QueueOK
  <1>4. ResetsAreOld'
    BY DEF IInv, ResetsAreOld, Sessions
  <1>5. QED
    BY <1>1, <1>2, <1>3, <1>4 DEF IInv

(* What the invariant says of the queue and of its head.                   *)
LEMMA Facts ==
  ASSUME IInv
  PROVE  /\ Len(owner) \in Nat /\ queue \in Seq(Events)
         /\ Numbered(queue, Len(owner)) /\ OneStart(queue)
         /\ stage # "initial" => NoStart(queue)
         /\ workflow <= Len(owner)
         /\ 0 <= Len(owner) /\ Null \in Sessions \cup {Null} /\ Null = 0
  BY DEF IInv, TypeOK, Handed, QueueOK, Null

LEMMA HeadFacts ==
  ASSUME IInv, queue # <<>>
  PROVE  /\ Head(queue).session \in Sessions \cup {Null}
         /\ Head(queue).session <= Len(owner)
         /\ Head(queue).kind \in Orders => Head(queue).session # Null
         /\ Tail(queue) \in Seq(Events)
         /\ Numbered(Tail(queue), Len(owner)) /\ OneStart(Tail(queue))
         /\ stage # "initial" => NoStart(Tail(queue)) /\ Head(queue).kind # "start"
         /\ Head(queue).kind = "start" => NoStart(Tail(queue))
         /\ \A s : Behind(queue, s) => Behind(Tail(queue), s)
         /\ \A s : Behind(queue, s) /\ Head(queue).kind \in Orders
                    /\ Head(queue).session = s => NoReset(Tail(queue))
         /\ NoReset(queue) => NoReset(Tail(queue)) /\ Head(queue).kind # "reset"
PROOF
  <1>1. /\ Len(owner) \in Nat /\ queue \in Seq(Events)
        /\ Numbered(queue, Len(owner)) /\ OneStart(queue)
        /\ stage # "initial" => NoStart(queue)
    BY Facts
  <1>2. Head(queue) \in Events
    BY <1>1, TailKeeps
  <1>3. Head(queue).session \in Sessions \cup {Null}
    BY <1>2 DEF Events
  <1>4. QED
    BY <1>1, <1>3, TailKeeps

(***************************************************************************)
(* The binder threads.                                                     *)
(***************************************************************************)

(* connectSdk leaves no session that the reset it posts could hit.         *)
LEMMA ConnectKeeps ==
  ASSUME IInv, NEW c \in Clients, connectSdk(c)
  PROVE  IInv'
PROOF
  <1> USE AidlAssumption
  <1> DEFINE e == Event("reset", Null)
  <1>1. /\ e \in Events /\ e.kind = "reset" /\ e.session = Null
        /\ queue' = Append(queue, e)
    BY EventFacts, Facts DEF connectSdk
  <1> HIDE DEF e
  <1>2. /\ queue' \in Seq(Events) /\ Numbered(queue', Len(owner))
        /\ OneStart(queue') /\ (stage # "initial" => NoStart(queue'))
    BY <1>1, Facts, AppendKeeps DEF Orders
  <1>3. /\ monitor' = c /\ c # None /\ UNCHANGED <<clients, owner, receiving, workflowVars>>
        /\ (session' = Null /\ callback' = callback) \/ (callback' = None /\ session' = session)
    BY DEF connectSdk
  <1>4. TypeOK'
    BY <1>2, <1>3 DEF IInv, TypeOK, clients, workflowVars, WorkflowIsActive, Sessions, Null
  <1>5. SessionIsNeverNull'
    BY <1>3 DEF SessionIsNeverNull
  <1>6. Handed'
    BY <1>3 DEF IInv, Handed, TypeOK, clients, workflowVars, connectSdk, Empty, Null
  <1>7. QueueOK'
    BY <1>2, <1>3 DEF QueueOK, workflowVars
  <1>8. ResetsAreOld'
    BY <1>3 DEF ResetsAreOld, Sessions, Null
  <1>9. QED
    BY <1>4, <1>5, <1>6, <1>7, <1>8 DEF IInv

(* A new session has a number that nothing posted carries.                 *)
LEMMA GrantKeeps ==
  ASSUME IInv, SessionGranted
  PROVE  IInv'
PROOF
  <1> USE AidlAssumption
  <1>1. /\ monitor \in Clients /\ owner \in Seq(Clients) /\ Len(owner) < MaxSessions
        /\ Len(owner) < connects /\ connects \in Nat /\ connects <= MaxSessions
        /\ Len(owner) \in Nat
    BY DEF IInv, TypeOK, Handed, SessionGranted
  <1>2. /\ owner' \in Seq(Clients) /\ Len(owner') = Len(owner) + 1
        /\ session' = Len(owner) + 1 /\ session' \in Sessions
    BY <1>1 DEF SessionGranted, Sessions
  <1>3. /\ monitor' = None /\ callback' \in Clients \cup {None}
        /\ held' \in [Clients -> Sessions \cup {Null}]
        /\ UNCHANGED <<alive, commands, connects, queue, receiving, workflowVars>>
    BY <1>1, <1>2 DEF IInv, TypeOK, SessionGranted
  <1>4. TypeOK'
    BY <1>2, <1>3 DEF IInv, TypeOK, workflowVars, WorkflowIsActive
  <1>5. SessionIsNeverNull'
    BY <1>2 DEF SessionIsNeverNull, Sessions, Null
  <1>6. Handed'
    BY <1>1, <1>2, <1>3 DEF IInv, Handed, workflowVars, TypeOK, Sessions, Null
  <1>7. QueueOK'
    <2>1. Numbered(queue', Len(owner'))
      <3> SUFFICES ASSUME NEW i \in 1 .. Len(queue)
                   PROVE  /\ queue[i].session <= Len(owner) + 1
                          /\ queue[i].kind \in Orders => queue[i].session # Null
        BY <1>2, <1>3 DEF Numbered
      <3>1. /\ queue[i].session <= Len(owner)
            /\ queue[i].kind \in Orders => queue[i].session # Null
        BY Facts DEF Numbered
      <3>2. queue[i].session \in Nat
        <4>1. queue[i] \in Events
          BY Facts
        <4>2. QED
          BY <4>1 DEF Events, Sessions, Null
      <3>3. QED
        BY <1>1, <3>1, <3>2
    <2>2. QED
      BY <2>1, <1>3, Facts DEF QueueOK, workflowVars
  <1>8. ResetsAreOld'
    <2>1. workflow' # session'
      BY <1>1, <1>2, <1>3, Facts DEF IInv, TypeOK, workflowVars, Sessions, Null
    <2>2. ASSUME NEW j \in 1 .. Len(queue), queue[j].session = Len(owner) + 1
          PROVE  FALSE
      BY <1>1, <2>2, Facts DEF Numbered
    <2>3. Behind(queue', session')
      BY <1>2, <1>3, <2>2 DEF Behind
    <2>4. QED
      BY <2>1, <2>3 DEF ResetsAreOld
  <1>9. QED
    BY <1>4, <1>5, <1>6, <1>7, <1>8 DEF IInv

LEMMA TimeoutKeeps ==
  ASSUME IInv, TimedOut
  PROVE  IInv'
PROOF
  <1> USE AidlAssumption
  <1>1. /\ session' = Empty /\ monitor' = None
        /\ UNCHANGED <<callback, owner, connects, clients, queue, receiving, workflowVars>>
    BY DEF TimedOut
  <1>2. TypeOK'
    BY <1>1 DEF IInv, TypeOK, clients, workflowVars, WorkflowIsActive
  <1>3. SessionIsNeverNull'
    BY <1>1 DEF SessionIsNeverNull, Empty, Null
  <1>4. Handed'
    BY <1>1 DEF IInv, Handed, workflowVars
  <1>5. QueueOK'
    BY <1>1 DEF IInv, QueueOK, workflowVars
  <1>6. ResetsAreOld'
    BY <1>1 DEF ResetsAreOld, Empty, Sessions
  <1>7. QED
    BY <1>2, <1>3, <1>4, <1>5, <1>6 DEF IInv

(* A command is accepted with a session that was handed out only, and is   *)
(* posted behind every reset.                                              *)
LEMMA SendKeeps ==
  ASSUME IInv, NEW c \in Clients, NEW cmd \in {"RUN", "CANCEL", "GET"}, send(c, cmd)
  PROVE  IInv'
PROOF
  <1> USE AidlAssumption
  <1> DEFINE e == Event(cmd, session)
  <1>1. session \in Sessions \cup {Null} /\ session # Null /\ session <= Len(owner)
    BY DEF IInv, TypeOK, SessionIsNeverNull, Handed, send, Empty, Sessions, Null
  <1>2. /\ e \in Events /\ e.kind \notin {"start", "reset"} /\ e.session = session
    BY <1>1, EventFacts
  <1>3. queue' = Append(queue, e) /\ UNCHANGED <<binder, alive, held, receiving, workflowVars>>
    BY DEF send
  <1> HIDE DEF e
  <1>4. /\ queue' \in Seq(Events) /\ Numbered(queue', Len(owner))
        /\ OneStart(queue') /\ (stage # "initial" => NoStart(queue'))
        /\ \A s : Behind(queue, s) => Behind(queue', s)
        /\ NoReset(queue) => NoReset(queue')
    BY <1>1, <1>2, <1>3, Facts, AppendKeeps
  <1>5. TypeOK'
    BY <1>3, <1>4 DEF IInv, TypeOK, binder, workflowVars, WorkflowIsActive
  <1>6. QED
    BY <1>3, <1>4, <1>5, SameSession DEF binder, workflowVars

LEMMA DeathKeeps ==
  ASSUME IInv, NEW c \in Clients, Die(c)
  PROVE  IInv'
PROOF
  <1>1. /\ alive' = alive \ {c}
        /\ UNCHANGED <<binder, held, commands, queue, receiving, workflowVars>>
    BY DEF Die
  <1>2. TypeOK'
    BY <1>1 DEF IInv, TypeOK, binder, workflowVars, WorkflowIsActive
  <1>3. QED
    BY <1>1, <1>2, Facts, SameSession DEF binder, workflowVars

(***************************************************************************)
(* The main thread.                                                        *)
(***************************************************************************)
LEMMA RunKeeps ==
  ASSUME IInv, RunCommand
  PROVE  IInv'
PROOF
  <1> DEFINE s == Head(queue).session
  <1> DEFINE q == Tail(queue)
  <1> DEFINE e == Event("request", s)
  <1>1. /\ Head(queue).kind = "RUN" /\ queue # <<>>
        /\ queue' = q \o IF WorkflowIsActive THEN Message(s) ELSE <<e>>
        /\ UNCHANGED <<binder, clients, receiving, workflowVars>>
    BY DEF RunCommand, Delivered
  <1>2. /\ s \in Sessions \cup {Null} /\ s <= Len(owner) /\ s # Null
        /\ e \in Events /\ e.kind = "request" /\ e.session = s
    BY <1>1, HeadFacts, EventFacts DEF Orders
  <1> HIDE DEF e, s
  <1>3. /\ q \in Seq(Events) /\ Numbered(q, Len(owner)) /\ OneStart(q)
        /\ stage # "initial" => NoStart(q)
        /\ \A t : Behind(queue, t) => Behind(q, t)
        /\ NoReset(queue) => NoReset(q)
    BY <1>1, HeadFacts
  <1> HIDE DEF q
  <1>4. /\ queue' \in Seq(Events) /\ Numbered(queue', Len(owner))
        /\ OneStart(queue') /\ (stage # "initial" => NoStart(queue'))
        /\ \A t : Behind(queue, t) => Behind(queue', t)
        /\ NoReset(queue) => NoReset(queue')
    <2>1. CASE WorkflowIsActive
      BY <2>1, <1>1, <1>2, <1>3, Facts, MessageKeeps
    <2>2. CASE ~WorkflowIsActive
      <3>1. queue' = Append(q, e)
        BY <2>2, <1>1, <1>3, <1>2
      <3>2. QED
        BY <3>1, <1>2, <1>3, Facts, AppendKeeps DEF Orders
    <2>3. QED
      BY <2>1, <2>2
  <1>5. TypeOK'
    BY <1>1, <1>4 DEF IInv, TypeOK, binder, clients, workflowVars, WorkflowIsActive
  <1>6. QED
    BY <1>1, <1>4, <1>5, SameSession DEF binder, workflowVars

(* A message about the head of the queue.                                  *)
LEMMA Replies ==
  ASSUME IInv, queue # <<>>
  PROVE  LET q == Tail(queue) \o Message(Head(queue).session)
         IN /\ q \in Seq(Events) /\ Numbered(q, Len(owner)) /\ OneStart(q)
            /\ stage # "initial" => NoStart(q)
            /\ \A t : Behind(queue, t) => Behind(q, t)
            /\ NoReset(queue) => NoReset(q)
  BY HeadFacts, Facts, MessageKeeps

LEMMA CancelKeeps ==
  ASSUME IInv, CancelCommand
  PROVE  IInv'
PROOF
  <1>1. /\ queue # <<>>
        /\ \/ WorkflowIsActive /\ Cancelled /\ queue' = Tail(queue)
           \/ /\ queue' = Tail(queue) \o Message(Head(queue).session)
              /\ UNCHANGED cancelled
        /\ UNCHANGED <<binder, clients, receiving, workflow, stage, asked, blocked>>
    BY DEF CancelCommand, Delivered
  <1>2. /\ queue' \in Seq(Events) /\ Numbered(queue', Len(owner))
        /\ OneStart(queue') /\ (stage # "initial" => NoStart(queue'))
        /\ \A t : Behind(queue, t) => Behind(queue', t)
        /\ NoReset(queue) => NoReset(queue')
    BY <1>1, HeadFacts, Replies
  <1>3. TypeOK'
    <2>1. cancelled' => stage' = "running"
      BY <1>1, Zenon DEF IInv, TypeOK, Cancelled
    <2>2. QED
      BY <1>1, <1>2, <2>1 DEF IInv, TypeOK, binder, clients, WorkflowIsActive
  <1>4. QED
    BY <1>1, <1>2, <1>3, SameSession DEF binder

LEMMA GetKeeps ==
  ASSUME IInv, GetCommand
  PROVE  IInv'
PROOF
  <1>1. /\ queue # <<>> /\ queue' = Tail(queue) \o Message(Head(queue).session)
        /\ UNCHANGED <<binder, clients, receiving, workflowVars>>
    BY DEF GetCommand, Delivered
  <1>2. /\ queue' \in Seq(Events) /\ Numbered(queue', Len(owner))
        /\ OneStart(queue') /\ (stage # "initial" => NoStart(queue'))
        /\ \A t : Behind(queue, t) => Behind(queue', t)
        /\ NoReset(queue) => NoReset(queue')
    BY <1>1, Replies
  <1>3. TypeOK'
    BY <1>1, <1>2 DEF IInv, TypeOK, binder, clients, workflowVars, WorkflowIsActive
  <1>4. QED
    BY <1>1, <1>2, <1>3, SameSession DEF binder, workflowVars

LEMMA ResetKeeps ==
  ASSUME IInv, reset
  PROVE  IInv'
PROOF
  <1>1. /\ queue # <<>> /\ queue' = Tail(queue)
        /\ UNCHANGED <<binder, clients, receiving, workflow, stage, asked>>
        /\ \/ WorkflowIsActive /\ blocked' = TRUE /\ Cancelled
           \/ UNCHANGED <<blocked, cancelled>>
    BY DEF reset, Delivered
  <1>2. /\ queue' \in Seq(Events) /\ Numbered(queue', Len(owner))
        /\ OneStart(queue') /\ (stage # "initial" => NoStart(queue'))
        /\ \A t : Behind(queue, t) => Behind(queue', t)
        /\ NoReset(queue) => NoReset(queue')
    BY <1>1, HeadFacts
  <1>3. TypeOK'
    <2>1. cancelled' => stage' = "running"
      BY <1>1, Zenon DEF IInv, TypeOK, Cancelled
    <2>2. QED
      BY <1>1, <1>2, <2>1 DEF IInv, TypeOK, binder, clients, WorkflowIsActive
  <1>4. QED
    BY <1>1, <1>2, <1>3, SameSession DEF binder

(* The order of a session that is valid has left the resets behind.        *)
LEMMA StartedKeeps ==
  ASSUME IInv, onWorkflowStarted
  PROVE  IInv'
PROOF
  <1> DEFINE s == Head(queue).session
  <1> DEFINE q == Tail(queue)
  <1> DEFINE m == q \o Message(s)
  <1> DEFINE e == Event("start", Null)
  <1>1. /\ queue # <<>> /\ Head(queue).kind = "request"
        /\ UNCHANGED <<binder, clients, receiving>>
        /\ \/ WorkflowIsActive /\ queue' = q /\ UNCHANGED workflowVars
           \/ /\ ~WorkflowIsActive /\ workflow' = s /\ stage' = "initial"
              /\ cancelled' = FALSE /\ asked' = FALSE /\ blocked' = blocked
              /\ queue' = q \o Message(s) \o <<e>>
    BY DEF onWorkflowStarted, Delivered
  <1>2. /\ s \in Sessions \cup {Null} /\ s <= Len(owner) /\ s # Null
        /\ e \in Events /\ e.kind = "start" /\ e.session = Null
    BY <1>1, HeadFacts, EventFacts DEF Orders
  <1> HIDE DEF e
  <1>3. /\ q \in Seq(Events) /\ Numbered(q, Len(owner)) /\ OneStart(q)
        /\ stage # "initial" => NoStart(q)
        /\ \A t : Behind(queue, t) => Behind(q, t)
        /\ NoReset(queue) => NoReset(q)
        /\ Behind(queue, s) => NoReset(q)
    BY <1>1, HeadFacts DEF Orders
  <1> HIDE DEF q
  <1>4. CASE WorkflowIsActive
    <2>1. queue' = q /\ UNCHANGED workflowVars
      BY <1>1, <1>4
    <2>2. TypeOK'
      BY <1>1, <1>3, <2>1 DEF IInv, TypeOK, binder, clients, workflowVars, WorkflowIsActive
    <2>3. QED
      BY <1>1, <1>3, <2>1, <2>2, SameSession DEF binder, workflowVars
  <1>5. CASE ~WorkflowIsActive
    <2>1. /\ workflow' = s /\ stage' = "initial" /\ cancelled' = FALSE
          /\ asked' = FALSE /\ blocked' = blocked /\ queue' = m \o <<e>>
      BY <1>1, <1>5
    <2>2. stage = "done" /\ ~blocked
      BY <1>5 DEF IInv, TypeOK
    <2>3. /\ m \in Seq(Events) /\ Numbered(m, Len(owner)) /\ OneStart(m) /\ NoStart(m)
          /\ \A t : Behind(q, t) => Behind(m, t)
          /\ NoReset(q) => NoReset(m)
      BY <1>2, <1>3, <2>2, Facts, MessageKeeps
    <2> HIDE DEF m, s
    <2>4. queue' = Append(m, e)
      BY <2>1, <2>3, <1>2
    <2>5. e.kind # "reset" /\ e.kind \notin Orders /\ e.session <= Len(owner)
      BY <1>2, Facts DEF Orders
    <2>6. /\ queue' \in Seq(Events) /\ Numbered(queue', Len(owner)) /\ OneStart(queue')
          /\ \A t : Behind(m, t) => Behind(queue', t)
          /\ NoReset(m) => NoReset(queue')
      BY <1>2, <2>3, <2>4, <2>5, Facts, AppendKeeps
    <2>7. TypeOK'
      BY <1>1, <1>2, <2>1, <2>2, <2>6 DEF IInv, TypeOK, binder, clients, WorkflowIsActive
    <2>8. SessionIsNeverNull'
      BY <1>1 DEF IInv, SessionIsNeverNull, binder
    <2>9. Handed'
      BY <1>1, <1>2, <2>1 DEF IInv, Handed, binder, Empty
    <2>10. QueueOK'
      BY <1>1, <2>1, <2>6 DEF QueueOK, binder
    <2>11. ResetsAreOld'
      <3>1. callback' = callback /\ session' = session
        BY <1>1 DEF binder
      <3>2. ASSUME callback # None, session \in Sessions
            PROVE  Behind(queue, session)
        BY <3>2 DEF IInv, ResetsAreOld
      <3>3. ASSUME callback # None, session \in Sessions
            PROVE  Behind(queue', session)
        BY <3>2, <3>3, <1>3, <2>3, <2>6
      <3>4. ASSUME callback # None, session \in Sessions, s = session
            PROVE  NoReset(queue')
        BY <3>2, <3>4, <1>3, <2>3, <2>6
      <3>5. QED
        BY <3>1, <3>3, <3>4, <2>1 DEF ResetsAreOld, Sessions
    <2>12. QED
      BY <2>7, <2>8, <2>9, <2>10, <2>11 DEF IInv
  <1>6. QED
    BY <1>4, <1>5

(* The only start is taken from the queue, and its workflow is still there.*)
LEMMA MachineKeeps ==
  ASSUME IInv, StartMachine
  PROVE  IInv'
PROOF
  <1>1. /\ queue # <<>> /\ Head(queue).kind = "start"
        /\ queue' = Tail(queue) /\ stage' = "running"
        /\ UNCHANGED <<binder, clients, receiving, workflow, cancelled, asked, blocked>>
    BY DEF StartMachine, Delivered
  <1>2. stage = "initial"
    BY <1>1, HeadFacts
  <1>3. /\ queue' \in Seq(Events) /\ Numbered(queue', Len(owner))
        /\ OneStart(queue') /\ NoStart(queue')
        /\ \A t : Behind(queue, t) => Behind(queue', t)
        /\ NoReset(queue) => NoReset(queue')
    BY <1>1, HeadFacts
  <1>4. TypeOK'
    BY <1>1, <1>2, <1>3 DEF IInv, TypeOK, binder, clients, WorkflowIsActive
  <1>5. QED
    BY <1>1, <1>3, <1>4, SameSession DEF binder

LEMMA ToSendKeeps ==
  ASSUME IInv, onToSend
  PROVE  IInv'
PROOF
  <1>1. /\ queue # <<>> /\ queue' = Tail(queue) /\ receiving' = Head(queue).session
        /\ UNCHANGED <<binder, clients, workflowVars>>
    BY DEF onToSend, Delivered
  <1>2. /\ queue' \in Seq(Events) /\ Numbered(queue', Len(owner))
        /\ OneStart(queue') /\ (stage # "initial" => NoStart(queue'))
        /\ \A t : Behind(queue, t) => Behind(queue', t)
        /\ NoReset(queue) => NoReset(queue')
        /\ receiving' \in Sessions \cup {Null}
    BY <1>1, HeadFacts
  <1>3. TypeOK'
    BY <1>1, <1>2 DEF IInv, TypeOK, binder, clients, workflowVars, WorkflowIsActive
  <1>4. QED
    BY <1>1, <1>2, <1>3, SameSession DEF binder, workflowVars

LEMMA ReceiveKeeps ==
  ASSUME IInv, aidlReceive
  PROVE  IInv'
PROOF
  <1>1. /\ receiving' = Null /\ callback' \in {callback, None}
        /\ UNCHANGED <<session, monitor, owner, connects, clients, queue, workflowVars>>
    BY DEF aidlReceive
  <1>2. TypeOK'
    BY <1>1 DEF IInv, TypeOK, clients, workflowVars, WorkflowIsActive
  <1>3. QED
    BY <1>1, <1>2, Facts, SameSession DEF workflowVars

(***************************************************************************)
(* The workflow.                                                           *)
(***************************************************************************)

(* A message of the workflow.                                              *)
LEMMA Tells ==
  ASSUME IInv
  PROVE  LET q == queue \o Message(workflow)
         IN /\ q \in Seq(Events) /\ Numbered(q, Len(owner)) /\ OneStart(q)
            /\ stage # "initial" => NoStart(q)
            /\ \A t : Behind(queue, t) => Behind(q, t)
            /\ NoReset(queue) => NoReset(q)
PROOF
  <1>1. workflow \in Sessions \cup {Null}
    BY DEF IInv, TypeOK
  <1>2. QED
    BY <1>1, Facts, MessageKeeps

LEMMA AskKeeps ==
  ASSUME IInv, Ask
  PROVE  IInv'
PROOF
  <1>1. /\ queue' = queue \o Message(workflow)
        /\ UNCHANGED <<binder, clients, receiving, workflow, stage, cancelled, blocked>>
    BY DEF Ask
  <1>2. TypeOK'
    BY <1>1, Tells DEF IInv, TypeOK, binder, clients, WorkflowIsActive
  <1>3. QED
    BY <1>1, <1>2, Tells, SameSession DEF binder

LEMMA FinishedKeeps ==
  ASSUME IInv, onWorkflowFinished
  PROVE  IInv'
PROOF
  <1>1. /\ queue' = queue \o Message(workflow) /\ stage = "running"
        /\ workflow' = Null /\ stage' = "done" /\ cancelled' = FALSE
        /\ blocked' = FALSE /\ UNCHANGED <<binder, clients, receiving>>
    BY DEF onWorkflowFinished
  <1>2. /\ queue' \in Seq(Events) /\ Numbered(queue', Len(owner))
        /\ OneStart(queue') /\ NoStart(queue')
        /\ \A t : Behind(queue, t) => Behind(queue', t)
    BY <1>1, Tells
  <1>3. TypeOK'
    BY <1>1, <1>2 DEF IInv, TypeOK, binder, clients, WorkflowIsActive
  <1>4. SessionIsNeverNull'
    BY <1>1 DEF IInv, SessionIsNeverNull, binder
  <1>5. Handed'
    BY <1>1, Facts DEF IInv, Handed, binder, Empty
  <1>6. QueueOK'
    BY <1>1, <1>2 DEF QueueOK, binder
  <1>7. ResetsAreOld'
    BY <1>1, <1>2 DEF IInv, ResetsAreOld, binder, Sessions, Null
  <1>8. QED
    BY <1>3, <1>4, <1>5, <1>6, <1>7 DEF IInv

(***************************************************************************)
(* The theorems.                                                           *)
(***************************************************************************)
LEMMA Invariance == IInv /\ [Next]_vars => IInv'
PROOF
  <1> SUFFICES ASSUME IInv, [Next]_vars PROVE IInv'
    OBVIOUS
  <1>1. CASE MainLoop
    BY <1>1, RunKeeps, CancelKeeps, GetKeeps, ResetKeeps, StartedKeeps,
       MachineKeeps, ToSendKeeps, ReceiveKeeps DEF MainLoop
  <1>2. CASE Ask \/ onWorkflowFinished
    BY <1>2, AskKeeps, FinishedKeeps
  <1>3. CASE \E c \in Clients : connectSdk(c) \/ Die(c)
    BY <1>3, ConnectKeeps, DeathKeeps
  <1>4. CASE \E c \in Clients, cmd \in {"RUN", "CANCEL", "GET"} : send(c, cmd)
    BY <1>4, SendKeeps
  <1>5. CASE SessionGranted \/ TimedOut
    BY <1>5, GrantKeeps, TimeoutKeeps
  <1>6. CASE UNCHANGED vars
    BY <1>6 DEF vars, binder, clients, workflowVars, IInv, TypeOK, SessionIsNeverNull,
       Handed, QueueOK, ResetsAreOld, WorkflowIsActive, Empty
  <1>7. QED
    BY <1>1, <1>2, <1>3, <1>4, <1>5, <1>6 DEF Next

(* What is known of the sessions, the queue and the workflow always holds. *)
THEOREM Invariant == Spec => []IInv
PROOF
  <1>1. QED
    BY Initial, Invariance, PTL DEF Spec

(* UIPlugInAidl and AidlBinder keep their types; in particular a workflow  *)
(* is always ordered by a session, and signals are never blocked without a *)
(* workflow, so that no later session is mute.                             *)
THEOREM TypeCorrect == Spec => []TypeOK
PROOF
  <1>1. IInv => TypeOK
    BY DEF IInv
  <1>2. QED
    BY <1>1, Invariant, PTL

(* AidlBinder.isValidSessionId never compares with a null session id: a    *)
(* callback without a session is seen only inside the monitor.             *)
THEOREM SessionNeverNull == Spec => []SessionIsNeverNull
PROOF
  <1>1. IInv => SessionIsNeverNull
    BY DEF IInv
  <1>2. QED
    BY <1>1, Invariant, PTL

(* A reset that UIPlugInAidl handles late never cancels or mutes the       *)
(* workflow of the session that is valid by then.                          *)
THEOREM ResetSpares == Spec => ResetSparesTheValidSession
PROOF
  <1> DEFINE Hit == (Delivered("reset") /\ queue' = Tail(queue) /\ callback # None
                       /\ workflow = session) => UNCHANGED <<cancelled, blocked>>
  <1>1. IInv /\ [Next]_vars => [Hit]_vars
    <2> SUFFICES ASSUME IInv, [Next]_vars, Delivered("reset"), queue' = Tail(queue),
                        callback # None, workflow = session
                 PROVE  UNCHANGED <<cancelled, blocked>>
      BY DEF vars, workflowVars
    <2>1. ~NoReset(queue) /\ queue # <<>>
      BY HeadFacts DEF Delivered
    <2>2. ~WorkflowIsActive
      BY <2>1 DEF IInv, TypeOK, ResetsAreOld, WorkflowIsActive
    <2>3. CASE MainLoop
      BY <2>2, <2>3 DEF MainLoop, Delivered, RunCommand, CancelCommand, GetCommand,
         reset, onWorkflowStarted, StartMachine, onToSend, aidlReceive, workflowVars
    <2>4. stage = "done"
      BY <2>2 DEF IInv, TypeOK
    <2>5. CASE Ask \/ onWorkflowFinished
      BY <2>4, <2>5 DEF Ask, onWorkflowFinished
    <2>6. CASE \/ \E c \in Clients : connectSdk(c) \/ Die(c)
               \/ \E c \in Clients, cmd \in {"RUN", "CANCEL", "GET"} : send(c, cmd)
               \/ SessionGranted \/ TimedOut
      BY <2>6 DEF connectSdk, Die, send, SessionGranted, TimedOut, workflowVars
    <2>7. CASE UNCHANGED vars
      BY <2>7 DEF vars, workflowVars
    <2>8. QED
      BY <2>3, <2>5, <2>6, <2>7 DEF Next
  <1>2. QED
    BY <1>1, Invariant, PTL DEF Spec, ResetSparesTheValidSession

-----------------------------------------------------------------------------
(***************************************************************************)
(* The Java library never spends two tries of a card on one call.          *)
(***************************************************************************)
Pins == {"SET_RIGHT_PIN", "SET_WRONG_PIN"}
Cmds == Pins \cup {"RUN_SELF_AUTH", "CANCEL", "ACCEPT"}
Alive == [at : {"take"}, started : BOOLEAN, entered : BOOLEAN, pin : Pins,
          interrupted : BOOLEAN]
Posted == [cmd : Cmds, of : Runs]

Types ==
  /\ run \in 0..MaxRuns
  /\ runner \in [Runs -> {Dead} \cup Alive]
  /\ \A r \in Runs : r > run => runner[r] = Dead
  /\ channel \in [Runs -> Seq(Cmds)]
  /\ toSdk \in Seq(Posted)
  /\ tries \in [Runs -> Nat]

(* The PIN of a call in its channel and on its way to the SDK.             *)
HasPin(s) == \E i \in 1..Len(s) : s[i] \in Pins
OnePin(s) == \A i, j \in 1..Len(s) : s[i] \in Pins /\ s[j] \in Pins => i = j
PinOf(e, r) == e.of = r /\ e.cmd \in Pins
PinPosted(q, r) == \E i \in 1..Len(q) : PinOf(q[i], r)
OnePosted(q, r) ==
  \A i, j \in 1..Len(q) : PinOf(q[i], r) /\ PinOf(q[j], r) => i = j

(* The runner has not answered an ENTER_PIN.                               *)
NotEntered(r) == r > run \/ (runner[r] # Dead /\ ~runner[r].entered)

(* The PIN of a call is in one place: not answered, in its channel, posted *)
(* or judged.                                                              *)
OnePlace(r) ==
  /\ OnePin(channel[r]) /\ OnePosted(toSdk, r) /\ tries[r] <= 1
  /\ HasPin(channel[r]) => ~PinPosted(toSdk, r) /\ tries[r] = 0
  /\ PinPosted(toSdk, r) => tries[r] = 0
  /\ NotEntered(r) =>
       ~HasPin(channel[r]) /\ ~PinPosted(toSdk, r) /\ tries[r] = 0

ConnectorInv == Types /\ \A r \in Runs : OnePlace(r)

(***************************************************************************)
(* Lemmas on the channels.                                                 *)
(***************************************************************************)

(* A command that is appended to a channel.                                *)
LEMMA AppendPin ==
  ASSUME NEW s \in Seq(Cmds), NEW c \in Cmds
  PROVE  /\ Append(s, c) \in Seq(Cmds)
         /\ c \notin Pins /\ OnePin(s) => OnePin(Append(s, c))
         /\ c \notin Pins /\ ~HasPin(s) => ~HasPin(Append(s, c))
         /\ HasPin(s) => HasPin(Append(s, c))
         /\ c \notin Pins /\ HasPin(Append(s, c)) => HasPin(s)
         /\ ~HasPin(s) => OnePin(Append(s, c))
PROOF
  <1> DEFINE t == Append(s, c)
  <1> /\ t \in Seq(Cmds) /\ Len(s) \in Nat /\ Len(t) = Len(s) + 1
      /\ \A i \in 1..Len(s) : t[i] = s[i]
      /\ t[Len(s) + 1] = c
    OBVIOUS
  <1> HIDE DEF t
  <1>1. /\ c \notin Pins /\ OnePin(s) => OnePin(t)
        /\ ~HasPin(s) => OnePin(t)
    BY DEF OnePin, HasPin
  <1>2. /\ c \notin Pins /\ HasPin(t) => HasPin(s)
        /\ HasPin(s) => HasPin(t)
    BY DEF HasPin
  <1>3. QED
    BY <1>1, <1>2 DEF t

(* A command that is taken from a channel.                                 *)
LEMMA TakePin ==
  ASSUME NEW s \in Seq(Cmds), s # <<>>, OnePin(s)
  PROVE  /\ Tail(s) \in Seq(Cmds) /\ Head(s) \in Cmds
         /\ OnePin(Tail(s))
         /\ HasPin(Tail(s)) => HasPin(s)
         /\ Head(s) \in Pins => HasPin(s) /\ ~HasPin(Tail(s))
PROOF
  <1> DEFINE t == Tail(s)
  <1> DEFINE h == Head(s)
  <1> /\ t \in Seq(Cmds) /\ Len(s) \in Nat \ {0} /\ Len(t) = Len(s) - 1
      /\ \A i \in 1..Len(t) : i + 1 \in 1..Len(s) /\ t[i] = s[i + 1]
      /\ 1 \in 1..Len(s) /\ h = s[1] /\ h \in Cmds
    OBVIOUS
  <1> HIDE DEF t, h
  <1>1. ASSUME NEW i \in 1..Len(t), NEW j \in 1..Len(t), t[i] \in Pins, t[j] \in Pins
        PROVE  i = j
    <2>1. i + 1 = j + 1
      BY <1>1 DEF OnePin
    <2>2. QED
      BY <2>1
  <1>2. HasPin(t) => HasPin(s)
    BY DEF HasPin
  <1>3. ASSUME h \in Pins
        PROVE  HasPin(s) /\ ~HasPin(t)
    <2>1. HasPin(s)
      BY <1>3 DEF HasPin
    <2>2. ASSUME NEW i \in 1..Len(t), t[i] \in Pins
          PROVE  FALSE
      <3>1. i + 1 = 1
        BY <1>3, <2>2 DEF OnePin
      <3>2. QED
        BY <3>1
    <2>3. QED
      BY <2>1, <2>2 DEF HasPin
  <1>4. QED
    BY <1>1, <1>2, <1>3 DEF t, h, OnePin

(* Commands of one call that are posted.                                   *)
LEMMA PostPins ==
  ASSUME NEW q \in Seq(Posted), NEW r \in Runs, NEW s \in Seq(Cmds)
  PROVE  LET p == q \o Commands(r, s)
         IN /\ p \in Seq(Posted)
            /\ PinPosted(p, r) <=> PinPosted(q, r) \/ HasPin(s)
            /\ \A t \in Runs \ {r} : /\ PinPosted(p, t) <=> PinPosted(q, t)
                                     /\ OnePosted(q, t) => OnePosted(p, t)
            /\ OnePosted(q, r) /\ OnePin(s) /\ ~(PinPosted(q, r) /\ HasPin(s))
                 => OnePosted(p, r)
PROOF
  <1> DEFINE c == Commands(r, s)
  <1> DEFINE p == q \o c
  <1>1. /\ c \in Seq(Posted) /\ Len(c) = Len(s) /\ Len(s) \in Nat
        /\ \A i \in 1..Len(s) : c[i] = [cmd |-> s[i], of |-> r] /\ s[i] \in Cmds
    <2>1. /\ Len(s) \in Nat /\ DOMAIN s = 1..Len(s)
          /\ \A i \in 1..Len(s) : s[i] \in Cmds
      OBVIOUS
    <2>2. c = [i \in 1..Len(s) |-> [cmd |-> s[i], of |-> r]]
      BY <2>1 DEF Commands
    <2>3. c \in [1..Len(s) -> Posted]
      BY <2>1, <2>2 DEF Posted
    <2>4. c \in Seq(Posted) /\ Len(c) = Len(s)
      BY <2>1, <2>3
    <2>5. QED
      BY <2>1, <2>2, <2>4
  <1> HIDE DEF c
  <1>2. /\ p \in Seq(Posted) /\ Len(q) \in Nat /\ Len(p) = Len(q) + Len(s)
        /\ \A i \in 1..Len(q) : i \in 1..Len(p) /\ p[i] = q[i]
        /\ \A i \in 1..Len(s) : Len(q) + i \in 1..Len(p) /\ p[Len(q) + i] = c[i]
        /\ \A i \in 1..Len(p) : i \in 1..Len(q) \/ i - Len(q) \in 1..Len(s)
    BY <1>1
  <1> HIDE DEF p
  <1>3. \A i \in 1..Len(s), t \in Runs :
          PinOf(p[Len(q) + i], t) <=> t = r /\ s[i] \in Pins
    <2> SUFFICES ASSUME NEW i \in 1..Len(s), NEW t \in Runs
                 PROVE  PinOf(p[Len(q) + i], t) <=> t = r /\ s[i] \in Pins
      OBVIOUS
    <2>1. p[Len(q) + i] = [cmd |-> s[i], of |-> r]
      BY <1>1, <1>2
    <2>2. QED
      BY <2>1 DEF PinOf
  <1>4. \A i \in 1..Len(p) : i \notin 1..Len(q) =>
          /\ i - Len(q) \in 1..Len(s)
          /\ \A t \in Runs : PinOf(p[i], t) <=> t = r /\ s[i - Len(q)] \in Pins
    <2> SUFFICES ASSUME NEW i \in 1..Len(p), i \notin 1..Len(q), NEW t \in Runs
                 PROVE  /\ i - Len(q) \in 1..Len(s)
                        /\ PinOf(p[i], t) <=> t = r /\ s[i - Len(q)] \in Pins
      BY <1>2
    <2>1. i - Len(q) \in 1..Len(s) /\ Len(q) + (i - Len(q)) = i
      BY <1>2
    <2>2. QED
      BY <2>1, <1>3
  <1>5. PinPosted(p, r) <=> PinPosted(q, r) \/ HasPin(s)
    <2>1. PinPosted(q, r) => PinPosted(p, r)
      BY <1>2 DEF PinPosted
    <2>2. HasPin(s) => PinPosted(p, r)
      BY <1>2, <1>3 DEF PinPosted, HasPin
    <2>3. PinPosted(p, r) => PinPosted(q, r) \/ HasPin(s)
      BY <1>2, <1>4 DEF PinPosted, HasPin
    <2>4. QED
      BY <2>1, <2>2, <2>3
  <1>6. ASSUME NEW t \in Runs \ {r}
        PROVE  /\ PinPosted(p, t) <=> PinPosted(q, t)
               /\ OnePosted(q, t) => OnePosted(p, t)
    BY <1>2, <1>4 DEF PinPosted, OnePosted
  <1>7. ASSUME OnePosted(q, r), OnePin(s), ~(PinPosted(q, r) /\ HasPin(s)),
               NEW i \in 1..Len(p), NEW j \in 1..Len(p),
               PinOf(p[i], r), PinOf(p[j], r)
        PROVE  i = j
    <2>1. CASE i \in 1..Len(q) /\ j \in 1..Len(q)
      BY <2>1, <1>2, <1>7 DEF OnePosted
    <2>2. CASE i \notin 1..Len(q) /\ j \notin 1..Len(q)
      <3>1. i - Len(q) = j - Len(q)
        BY <2>2, <1>4, <1>7 DEF OnePin
      <3>2. QED
        BY <3>1, <1>2
    <2>3. CASE i \in 1..Len(q) /\ j \notin 1..Len(q)
      BY <2>3, <1>2, <1>4, <1>7 DEF PinPosted, HasPin
    <2>4. CASE i \notin 1..Len(q) /\ j \in 1..Len(q)
      BY <2>4, <1>2, <1>4, <1>7 DEF PinPosted, HasPin
    <2>5. QED
      BY <2>1, <2>2, <2>3, <2>4
  <1>8. QED
    BY <1>2, <1>5, <1>6, <1>7 DEF p, c, OnePosted

(* A command that the SDK takes.                                           *)
LEMMA TakePosted ==
  ASSUME NEW q \in Seq(Posted), q # <<>>, NEW r \in Runs, OnePosted(q, r)
  PROVE  /\ Tail(q) \in Seq(Posted) /\ Head(q) \in Posted
         /\ OnePosted(Tail(q), r)
         /\ PinPosted(Tail(q), r) => PinPosted(q, r)
         /\ PinOf(Head(q), r) => PinPosted(q, r) /\ ~PinPosted(Tail(q), r)
PROOF
  <1> DEFINE t == Tail(q)
  <1> DEFINE h == Head(q)
  <1> /\ t \in Seq(Posted) /\ Len(q) \in Nat \ {0} /\ Len(t) = Len(q) - 1
      /\ \A i \in 1..Len(t) : i + 1 \in 1..Len(q) /\ t[i] = q[i + 1]
      /\ 1 \in 1..Len(q) /\ h = q[1] /\ h \in Posted
    OBVIOUS
  <1> HIDE DEF t, h
  <1>1. ASSUME NEW i \in 1..Len(t), NEW j \in 1..Len(t), PinOf(t[i], r), PinOf(t[j], r)
        PROVE  i = j
    <2>1. i + 1 = j + 1
      BY <1>1 DEF OnePosted
    <2>2. QED
      BY <2>1
  <1>2. PinPosted(t, r) => PinPosted(q, r)
    BY DEF PinPosted
  <1>3. ASSUME PinOf(h, r)
        PROVE  PinPosted(q, r) /\ ~PinPosted(t, r)
    <2>1. PinPosted(q, r)
      BY <1>3 DEF PinPosted
    <2>2. ASSUME NEW i \in 1..Len(t), PinOf(t[i], r)
          PROVE  FALSE
      <3>1. i + 1 = 1
        BY <1>3, <2>2 DEF OnePosted
      <3>2. QED
        BY <3>1
    <2>3. QED
      BY <2>1, <2>2 DEF PinPosted
  <1>4. QED
    BY <1>1, <1>2, <1>3 DEF t, h, OnePosted

(***************************************************************************)
(* The invariant.                                                          *)
(***************************************************************************)
LEMMA ConnectorInitial == ConnectorInit => ConnectorInv
PROOF
  <1> SUFFICES ASSUME ConnectorInit PROVE ConnectorInv
    OBVIOUS
  <1>1. Types
    BY ConnectorAssumption DEF ConnectorInit, Types, Runs
  <1>2. ASSUME NEW r \in Runs PROVE OnePlace(r)
    <2>1. channel[r] = <<>> /\ toSdk = <<>> /\ tries[r] = 0
      BY DEF ConnectorInit
    <2>2. ~HasPin(channel[r]) /\ OnePin(channel[r])
      BY <2>1 DEF HasPin, OnePin
    <2>3. ~PinPosted(toSdk, r) /\ OnePosted(toSdk, r)
      BY <2>1 DEF PinPosted, OnePosted
    <2>4. QED
      BY <2>1, <2>2, <2>3 DEF OnePlace
  <1>3. QED
    BY <1>1, <1>2 DEF ConnectorInv

(* Steps that move no command.                                             *)
LEMMA Untouched ==
  ASSUME ConnectorInv, UNCHANGED <<run, runner, channel, toSdk, tries>>
  PROVE  ConnectorInv'
  BY DEF ConnectorInv, Types, OnePlace, NotEntered

(* A call starts with a fresh runner.                                      *)
LEMMA RunWorkflowKeeps ==
  ASSUME ConnectorInv, runWorkflow
  PROVE  ConnectorInv'
PROOF
  <1> USE ConnectorAssumption DEF Runs
  <1>1. /\ run' = run + 1 /\ run' \in Runs /\ run \in 0..MaxRuns
        /\ UNCHANGED <<channel, toSdk, tries>>
    BY DEF runWorkflow, ConnectorInv, Types, sdk
  <1>2. PICK fresh \in Alive : runner' = [runner EXCEPT ![run'] = fresh] /\ ~fresh.entered
    <2> DEFINE new(right) ==
          [at |-> "take", started |-> FALSE, entered |-> FALSE,
           pin |-> IF right THEN "SET_RIGHT_PIN" ELSE "SET_WRONG_PIN",
           interrupted |-> FALSE]
    <2>1. PICK right \in BOOLEAN : runner' = [runner EXCEPT ![run'] = new(right)]
      BY Zenon DEF runWorkflow
    <2>2. new(right) \in Alive /\ ~new(right).entered
      BY DEF Alive, Pins
    <2> HIDE DEF new
    <2>3. QED
      BY <2>1, <2>2
  <1>3. Types'
    BY <1>1, <1>2 DEF ConnectorInv, Types
  <1>4. ASSUME NEW r \in Runs PROVE OnePlace(r)'
    <2>1. NotEntered(r)' => NotEntered(r)
      BY <1>1, <1>2 DEF NotEntered, ConnectorInv, Types
    <2>2. QED
      BY <2>1, <1>1 DEF ConnectorInv, OnePlace
  <1>5. QED
    BY <1>3, <1>4 DEF ConnectorInv

(* An interrupt leaves the rest of a thread alone.                         *)
LEMMA CleanUpKeeps ==
  ASSUME ConnectorInv, CleanUp
  PROVE  ConnectorInv'
PROOF
  <1>1. /\ runner' = [runner EXCEPT ![run] = Interrupted(runner[run])]
        /\ UNCHANGED <<run, channel, toSdk, tries>>
    BY DEF CleanUp, sdk
  <1>2. ASSUME NEW t \in {Dead} \cup Alive
        PROVE  /\ Interrupted(t) \in {Dead} \cup Alive
               /\ Interrupted(t) = Dead <=> t = Dead
               /\ t # Dead => Interrupted(t).entered = t.entered
    BY DEF Interrupted, Dead, Alive
  <1>3. ASSUME NEW r \in Runs
        PROVE  /\ runner'[r] \in {Dead} \cup Alive
               /\ runner'[r] = Dead <=> runner[r] = Dead
               /\ runner[r] # Dead => runner'[r].entered = runner[r].entered
    BY <1>1, <1>2 DEF ConnectorInv, Types
  <1>4. Types'
    BY <1>1, <1>3 DEF ConnectorInv, Types
  <1>5. ASSUME NEW r \in Runs PROVE OnePlace(r)'
    BY <1>1, <1>3 DEF ConnectorInv, OnePlace, NotEntered
  <1>6. QED
    BY <1>4, <1>5 DEF ConnectorInv

(***************************************************************************)
(* The listener moves a PIN from its channel to the SDK.                   *)
(***************************************************************************)
LEMMA PostKeeps ==
  ASSUME ConnectorInv, NEW r \in Runs, NEW s \in Seq(Cmds), NEW rest \in Seq(Cmds),
         OnePin(s), OnePin(rest),
         HasPin(s) => HasPin(channel[r]) /\ ~HasPin(rest),
         HasPin(rest) => HasPin(channel[r]),
         channel' = [channel EXCEPT ![r] = rest],
         toSdk' = toSdk \o Commands(r, s),
         UNCHANGED <<run, runner, tries>>
  PROVE  ConnectorInv'
PROOF
  <1>1. toSdk \in Seq(Posted) /\ channel \in [Runs -> Seq(Cmds)] /\ OnePlace(r)
    BY DEF ConnectorInv, Types
  <1>2. Types'
    BY <1>1, PostPins DEF ConnectorInv, Types
  <1>3. ASSUME NEW t \in Runs \ {r} PROVE OnePlace(t)'
    <2>1. /\ PinPosted(toSdk', t) <=> PinPosted(toSdk, t)
          /\ OnePosted(toSdk, t) => OnePosted(toSdk', t)
          /\ channel'[t] = channel[t]
      BY <1>1, PostPins
    <2>2. QED
      BY <2>1 DEF ConnectorInv, OnePlace, NotEntered
  <1>4. OnePlace(r)'
    <2>1. channel'[r] = rest
      BY <1>1
    <2>2. OnePosted(toSdk, r) /\ ~(PinPosted(toSdk, r) /\ HasPin(s))
      BY <1>1 DEF OnePlace
    <2>3. /\ PinPosted(toSdk', r) <=> PinPosted(toSdk, r) \/ HasPin(s)
          /\ OnePosted(toSdk', r)
      BY <1>1, <2>2, PostPins
    <2>4. QED
      BY <1>1, <2>1, <2>3 DEF OnePlace, NotEntered
  <1>5. QED
    BY <1>2, <1>3, <1>4 DEF ConnectorInv

LEMMA ListenerKeeps ==
  ASSUME ConnectorInv, NEW r \in Runs, Listener(r)
  PROVE  ConnectorInv'
PROOF
  <1>1. channel[r] \in Seq(Cmds) /\ OnePin(channel[r]) /\ toSdk \in Seq(Posted)
    BY DEF ConnectorInv, Types, OnePlace
  <1>2. UNCHANGED <<run, runner, tries>>
    BY DEF Listener, ListenerChecks, ListenerTakes, call, sdk
  <1>3. <<>> \in Seq(Cmds) /\ ~HasPin(<<>>) /\ OnePin(<<>>)
    BY DEF HasPin, OnePin
  <1>4. toSdk \o Commands(r, <<>>) = toSdk
    BY <1>1 DEF Commands
  <1>5. CASE /\ channel' = [channel EXCEPT ![r] = <<>>]
             /\ toSdk' = toSdk \o Commands(r, channel[r])
    BY <1>1, <1>2, <1>3, <1>5, PostKeeps
  <1>6. CASE channel' = [channel EXCEPT ![r] = <<>>] /\ toSdk' = toSdk
    BY <1>2, <1>3, <1>4, <1>6, PostKeeps
  <1>7. CASE channel' = channel /\ toSdk' = toSdk
    BY <1>2, <1>7, Untouched
  <1>8. CASE /\ channel[r] # <<>>
             /\ channel' = [channel EXCEPT ![r] = Tail(channel[r])]
             /\ toSdk' = toSdk \o Commands(r, <<Head(channel[r])>>)
    <2> DEFINE h == Head(channel[r])
    <2>1. /\ Tail(channel[r]) \in Seq(Cmds) /\ h \in Cmds
          /\ OnePin(Tail(channel[r]))
          /\ HasPin(Tail(channel[r])) => HasPin(channel[r])
          /\ h \in Pins => HasPin(channel[r]) /\ ~HasPin(Tail(channel[r]))
      BY <1>1, <1>8, TakePin
    <2>2. /\ <<h>> \in Seq(Cmds) /\ OnePin(<<h>>)
          /\ HasPin(<<h>>) => h \in Pins
      BY <2>1 DEF OnePin, HasPin
    <2>3. QED
      BY <1>2, <1>8, <2>1, <2>2, PostKeeps
  <1>9. QED
    BY <1>5, <1>6, <1>7, <1>8 DEF Listener, ListenerChecks, ListenerTakes

(***************************************************************************)
(* The runner answers.                                                     *)
(***************************************************************************)
(* A runner that ends has no more to enter.                                *)
LEMMA EndKeeps ==
  ASSUME ConnectorInv, NEW r \in Runs, NEW what, Ends(r, what),
         UNCHANGED <<run, toSdk, tries>>
  PROVE  ConnectorInv'
PROOF
  <1>1. runner' = [runner EXCEPT ![r] = Dead] /\ channel' = channel
    BY DEF Ends
  <1>2. Types'
    BY <1>1 DEF ConnectorInv, Types
  <1>3. ASSUME NEW t \in Runs PROVE OnePlace(t)'
    BY <1>1 DEF ConnectorInv, Types, OnePlace, NotEntered
  <1>4. QED
    BY <1>2, <1>3 DEF ConnectorInv

(* A PIN is added only where there was none.                               *)
LEMMA AnswerKeeps ==
  ASSUME ConnectorInv, NEW r \in Runs, runner[r].at = "take",
         NEW cmd \in Cmds, NEW self \in Alive, Answers(r, cmd, self),
         \/ cmd \notin Pins /\ self.entered = runner[r].entered
         \/ ~runner[r].entered /\ self.entered,
         UNCHANGED <<run, toSdk, tries>>
  PROVE  ConnectorInv'
PROOF
  <1>1. CASE Ends(r, "exception")
    BY <1>1, EndKeeps
  <1>2. CASE /\ channel' = [channel EXCEPT ![r] = Append(channel[r], cmd)]
             /\ runner' = [runner EXCEPT ![r] = self]
    <2>1. /\ runner[r] # Dead /\ self # Dead /\ ~(r > run)
          /\ channel \in [Runs -> Seq(Cmds)] /\ OnePlace(r)
      BY DEF ConnectorInv, Types, Dead, Alive
    <2>2. Types'
      <3>1. Append(channel[r], cmd) \in Seq(Cmds)
        BY <2>1, AppendPin
      <3>2. QED
        BY <1>2, <2>1, <3>1 DEF ConnectorInv, Types
    <2>3. ASSUME NEW t \in Runs \ {r} PROVE OnePlace(t)'
      BY <1>2 DEF ConnectorInv, Types, OnePlace, NotEntered
    <2>4. OnePlace(r)'
      <3> DEFINE s == Append(channel[r], cmd)
      <3>1. channel'[r] = s /\ runner'[r] = self
        BY <1>2, <2>1 DEF ConnectorInv, Types
      <3>2. /\ cmd \notin Pins /\ OnePin(channel[r]) => OnePin(s)
            /\ cmd \notin Pins /\ HasPin(s) => HasPin(channel[r])
            /\ ~HasPin(channel[r]) => OnePin(s)
        BY <2>1, AppendPin
      <3> HIDE DEF s
      <3>3. CASE cmd \notin Pins /\ self.entered = runner[r].entered
        BY <2>1, <3>1, <3>2, <3>3 DEF OnePlace, NotEntered
      <3>4. CASE ~runner[r].entered /\ self.entered
        BY <2>1, <3>1, <3>2, <3>4 DEF OnePlace, NotEntered
      <3>5. QED
        BY <3>3, <3>4
    <2>5. QED
      BY <2>2, <2>3, <2>4 DEF ConnectorInv
  <1>3. QED
    BY <1>1, <1>2 DEF Answers

LEMMA RunnerKeeps ==
  ASSUME ConnectorInv, NEW r \in Runs, Runner(r)
  PROVE  ConnectorInv'
PROOF
  <1>1. UNCHANGED <<run, toSdk, tries>>
    BY DEF Runner, sdk
  <1>2. ASSUME runner[r].at = "take"
        PROVE  /\ runner[r] \in Alive
               /\ [runner[r] EXCEPT !.entered = TRUE] \in Alive
               /\ [runner[r] EXCEPT !.entered = TRUE].entered
               /\ runner[r].pin \in Pins
    <2>1. runner[r] \in Alive
      BY <1>2 DEF ConnectorInv, Types, Dead
    <2>2. [runner[r] EXCEPT !.entered = TRUE] \in Alive /\ runner[r].pin \in Pins
      BY <2>1 DEF Alive
    <2>3. [runner[r] EXCEPT !.entered = TRUE].entered = TRUE
      BY <2>1 DEF Alive
    <2>4. QED
      BY <2>1, <2>2, <2>3
  <1>3. CASE onReader(r)
    <2> DEFINE c == IF runner[r].started \/ Head(received) = "noCard"
                      THEN "CANCEL" ELSE "RUN_SELF_AUTH"
    <2>1. runner[r].at = "take" /\ Answers(r, c, runner[r])
      BY <1>3 DEF onReader, Received
    <2>2. c \in Cmds /\ c \notin Pins
      BY DEF Cmds, Pins
    <2> HIDE DEF c
    <2>3. QED
      BY <1>1, <1>2, <2>1, <2>2, AnswerKeeps
  <1>4. CASE onAccessRights(r) \/ onInsertCard(r)
    <2>1. /\ runner[r].at = "take"
          /\ Answers(r, "ACCEPT", runner[r]) \/ Answers(r, "CANCEL", runner[r])
      BY <1>4 DEF onAccessRights, onInsertCard, Received
    <2>2. {"ACCEPT", "CANCEL"} \subseteq Cmds \ Pins
      BY DEF Cmds, Pins
    <2>3. QED
      BY <1>1, <1>2, <2>1, <2>2, AnswerKeeps
  <1>5. CASE onEnterPin(r)
    <2>1. runner[r].at = "take"
      BY <1>5 DEF onEnterPin, Received
    <2>2. CASE runner[r].entered
      BY <1>1, <1>5, <2>2, EndKeeps DEF onEnterPin
    <2>3. CASE ~runner[r].entered
      <3>1. Answers(r, runner[r].pin, [runner[r] EXCEPT !.entered = TRUE])
        BY <1>5, <2>3 DEF onEnterPin
      <3>2. runner[r].pin \in Cmds
        BY <1>2, <2>1 DEF Cmds
      <3>3. QED
        BY <1>1, <1>2, <2>1, <2>3, <3>1, <3>2, AnswerKeeps
    <2>4. QED
      BY <2>2, <2>3
  <1>6. CASE onAuth(r)
    <2>1. CASE /\ runner[r].at = "take" /\ channel' = channel
               /\ runner' = [runner EXCEPT ![r].started = TRUE]
      <3>1. runner[r] # Dead /\ ~(r > run)
        BY <2>1 DEF ConnectorInv, Types, Dead
      <3>2. /\ [runner[r] EXCEPT !.started = TRUE] \in Alive
            /\ [runner[r] EXCEPT !.started = TRUE].entered = runner[r].entered
            /\ runner' = [runner EXCEPT ![r] = [runner[r] EXCEPT !.started = TRUE]]
        BY <1>2, <2>1 DEF Alive
      <3>3. Types'
        BY <1>1, <2>1, <3>1, <3>2 DEF ConnectorInv, Types
      <3>4. ASSUME NEW t \in Runs PROVE OnePlace(t)'
        BY <1>1, <2>1, <3>1, <3>2 DEF ConnectorInv, Types, OnePlace, NotEntered
      <3>5. QED
        BY <3>3, <3>4 DEF ConnectorInv
    <2>2. CASE \E what \in {"result", "exception"} : Ends(r, what)
      BY <1>1, <2>2, EndKeeps
    <2>3. QED
      BY <1>6, <2>1, <2>2 DEF onAuth, Received
  <1>7. CASE onOther(r)
    BY <1>1, <1>7, Untouched DEF onOther
  <1>8. CASE RunnerInterrupted(r)
    BY <1>1, <1>8, EndKeeps DEF RunnerInterrupted
  <1>9. QED
    BY <1>3, <1>4, <1>5, <1>6, <1>7, <1>8 DEF Runner

(***************************************************************************)
(* The SDK judges a PIN.                                                   *)
(***************************************************************************)
LEMMA CommandKeeps ==
  ASSUME ConnectorInv, processCommand
  PROVE  ConnectorInv'
PROOF
  <1> DEFINE c == Head(toSdk)
  <1>1. /\ toSdk # <<>> /\ toSdk' = Tail(toSdk) /\ toSdk \in Seq(Posted)
        /\ UNCHANGED <<run, runner, channel>>
    BY DEF processCommand, call, threads, ConnectorInv, Types
  <1>2. c \in Posted /\ toSdk' \in Seq(Posted)
    BY <1>1
  <1>3. \/ tries' = tries
        \/ c.cmd \in Pins /\ tries' = [tries EXCEPT ![c.of] = tries[c.of] + 1]
    BY DEF processCommand, SetPin, AnswerTo, sdk, Pins
  <1> HIDE DEF c
  <1>4. Types'
    BY <1>1, <1>2, <1>3 DEF ConnectorInv, Types, Posted
  <1>5. ASSUME NEW r \in Runs PROVE OnePlace(r)'
    <2>1. OnePlace(r) /\ tries \in [Runs -> Nat] /\ c.of \in Runs
      BY <1>2 DEF ConnectorInv, Types, Posted
    <2>2. /\ OnePosted(toSdk', r)
          /\ PinPosted(toSdk', r) => PinPosted(toSdk, r)
          /\ PinOf(c, r) => PinPosted(toSdk, r) /\ ~PinPosted(toSdk', r)
      BY <1>1, <2>1, TakePosted DEF OnePlace, c
    <2>3. CASE tries'[r] = tries[r]
      BY <1>1, <2>1, <2>2, <2>3 DEF OnePlace, NotEntered
    <2>4. CASE c.cmd \in Pins /\ c.of = r /\ tries'[r] = tries[r] + 1
      <3>1. PinPosted(toSdk, r) /\ ~PinPosted(toSdk', r)
        BY <2>2, <2>4 DEF PinOf
      <3>2. ~HasPin(channel[r]) /\ tries[r] = 0 /\ ~NotEntered(r)
        BY <2>1, <3>1 DEF OnePlace
      <3>3. QED
        BY <1>1, <2>1, <2>2, <2>4, <3>1, <3>2 DEF OnePlace, NotEntered
    <2>5. QED
      BY <1>3, <2>1, <2>3, <2>4
  <1>6. QED
    BY <1>4, <1>5 DEF ConnectorInv

(***************************************************************************)
(* The theorem.                                                            *)
(***************************************************************************)
LEMMA ConnectorInvariance == ConnectorInv /\ [ConnectorNext]_connectorVars => ConnectorInv'
PROOF
  <1> SUFFICES ASSUME ConnectorInv, [ConnectorNext]_connectorVars PROVE ConnectorInv'
    OBVIOUS
  <1>1. CASE runWorkflow
    BY <1>1, RunWorkflowKeeps
  <1>2. CASE Interrupt \/ CardRemoved
    BY <1>2, Untouched DEF Interrupt, CardRemoved, call, threads, sdk
  <1>3. CASE Caller
    BY <1>3, CleanUpKeeps, Untouched
       DEF Caller, ResultTaken, ExceptionTaken, Joined, threads, sdk
  <1>4. CASE Sdk
    BY <1>4, CommandKeeps, Untouched
       DEF Sdk, processStateChange, receive, call, threads, sdk
  <1>5. CASE \E r \in Runs : Runner(r) \/ Listener(r)
    BY <1>5, RunnerKeeps, ListenerKeeps
  <1>6. CASE UNCHANGED connectorVars
    BY <1>6, Untouched DEF connectorVars, call, threads, sdk
  <1>7. QED
    BY <1>1, <1>2, <1>3, <1>4, <1>5, <1>6 DEF ConnectorNext

(* However often the SDK asks for the PIN and whatever earlier calls have  *)
(* left running, the PIN given to one call of Connector.runWorkflow costs  *)
(* the card at most one try.                                               *)
THEOREM OneTry == ConnectorSpec => []OneTryPerRun
PROOF
  <1>1. ConnectorInv => OneTryPerRun
    BY DEF ConnectorInv, OnePlace, OneTryPerRun
  <1>2. QED
    BY <1>1, ConnectorInitial, ConnectorInvariance, PTL DEF ConnectorSpec
================================================================================
