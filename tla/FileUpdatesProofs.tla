-------------------------- MODULE FileUpdatesProofs --------------------------
(***************************************************************************)
(* The marks on the pictures of a list, for any pictures, any number of    *)
(* versions, updates, update checks, broken replies, failed writes, kills. *)
(*                                                                         *)
(* A reply may be old when it arrives, and a request older still, but the  *)
(* Downloader has one reply at a time: the list that sets a mark is that   *)
(* reply, so every other one is formed after the mark was set.             *)
(***************************************************************************)
EXTENDS FileUpdates, WellFoundedInduction, TLAPS

(* Every version a file can have: the first is 1 also when MaxVersion is 0. *)
Stamps == 0..(MaxVersion + 1)
Copies == [stamp : Stamps, whole : BOOLEAN]
Requests == [url : Files \cup {Json, Notes}, since : Stamps]

(* A request does not ask for more than the cache holds when it is sent    *)
(* and when its answer comes.                                              *)
Asks(request, c) ==
  /\ request \in Requests
  /\ request.url \in Files => request.since <= cacheTimestamp(c[request.url])

Types ==
  /\ published \in [Files -> Stamps]
  /\ cache \in [Files -> SUBSET Copies]
  /\ marked \in [Files -> Stamps]
  /\ mPendingRequests \in Seq(Requests)
  /\ slots \in Nat /\ faults \in Nat

(* The reply under way is no older than the mark of its file and than the  *)
(* copies in the cache.                                                    *)
ReplyFits ==
  (reply # Null /\ mCurrentRequest.url \in Files) =>
    /\ reply.stamp \in Stamps /\ reply.whole \in BOOLEAN
    /\ marked[mCurrentRequest.url] <= reply.stamp
    /\ cacheTimestamp(cache[mCurrentRequest.url]) <= reply.stamp
    /\ reply.stamp <= published[mCurrentRequest.url]
    /\ reply.status = "NotModified" => reply.stamp <= mCurrentRequest.since

IInv ==
  /\ Types
  /\ \A f \in Files : /\ marked[f] <= published[f]
                      /\ cacheTimestamp(cache[f]) <= published[f]
  /\ mCurrentRequest # Null => Asks(mCurrentRequest, cache)
  /\ \A i \in 1..Len(mPendingRequests) : Asks(mPendingRequests[i], cache)
  /\ reply # Null => mCurrentRequest # Null
  /\ ReplyFits

-----------------------------------------------------------------------------
(* The newest of a file's copies.                                          *)

LEMMA Greatest ==
  ASSUME NEW N \in Nat, NEW S, S \subseteq 0..N, S # {}
  PROVE  Max(S) \in S /\ \A n \in S : n <= Max(S)
PROOF
  <1> DEFINE T == {N - n : n \in S}
  <1>1. T \subseteq Nat /\ T # {}
    <2>1. \A n \in S : N - n \in Nat
      OBVIOUS
    <2>2. QED
      BY <2>1
  <1> HIDE DEF T
  <1>2. PICK x \in T : \A y \in T : ~(<<y, x>> \in OpToRel(<, Nat))
    BY <1>1, WFMin, NatLessThanWellFounded, Zenon
  <1>3. \A y \in Nat : x \in Nat /\ y < x => <<y, x>> \in OpToRel(<, Nat)
    BY Zenon DEF OpToRel
  <1>4. \A y \in T : x <= y
    <2>1. x \in Nat /\ \A y \in T : y \in Nat /\ ~(y < x)
      BY <1>1, <1>2, <1>3
    <2>2. QED
      BY <2>1
  <1>5. PICK m \in S : x = N - m
    BY DEF T
  <1>6. \A n \in S : N - n \in T
    BY DEF T
  <1>7. \A n \in S : m >= n
    BY <1>4, <1>5, <1>6
  <1>8. QED
    BY <1>7 DEF Max

LEMMA Newer ==
  ASSUME MaxVersion \in Nat, NEW c \in SUBSET Copies
  PROVE  /\ cacheTimestamp(c) \in Stamps
         /\ \A copy \in c : copy.stamp <= cacheTimestamp(c)
         /\ c # {} => \E copy \in c : copy.stamp = cacheTimestamp(c)
PROOF
  <1> DEFINE S == {copy.stamp : copy \in c}
  <1>1. CASE c = {}
    BY <1>1 DEF cacheTimestamp, Stamps
  <1>2. CASE c # {}
    <2>1. S \subseteq 0..(MaxVersion + 1) /\ S # {} /\ MaxVersion + 1 \in Nat
      BY <1>2 DEF Copies, Stamps
    <2>2. cacheTimestamp(c) = Max(S)
      BY <1>2 DEF cacheTimestamp
    <2>3. \A copy \in c : copy.stamp \in S
      OBVIOUS
    <2>4. \A n \in S : \E copy \in c : copy.stamp = n
      OBVIOUS
    <2> HIDE DEF S
    <2>5. Max(S) \in S /\ \A n \in S : n <= Max(S)
      BY <2>1, Greatest
    <2>6. QED
      BY <1>2, <2>1, <2>2, <2>3, <2>4, <2>5 DEF Stamps
  <1>3. QED
    BY <1>1, <1>2

(* A copy that is no older than the others is added.                       *)
LEMMA Grows ==
  ASSUME MaxVersion \in Nat, NEW c \in SUBSET Copies, NEW stamp \in Stamps,
         NEW whole \in BOOLEAN, cacheTimestamp(c) <= stamp
  PROVE  /\ WithCopy(c, stamp, whole) \in SUBSET Copies
         /\ cacheTimestamp(WithCopy(c, stamp, whole)) = stamp
         /\ Readable(WithCopy(c, stamp, whole)) <=> whole
PROOF
  <1> DEFINE copy == [stamp |-> stamp, whole |-> whole]
             d == WithCopy(c, stamp, whole)
  <1>1. /\ copy \in Copies /\ copy.stamp = stamp /\ copy.whole = whole
        /\ d = {e \in c : e.stamp # stamp} \cup {copy}
    BY DEF Copies, WithCopy
  <1> HIDE DEF copy, d
  <1>2. d \in SUBSET Copies /\ copy \in d /\ \A e \in d : e \in c \/ e = copy
    BY <1>1
  <1>3. /\ \A e \in c : e.stamp \in Stamps /\ e.stamp <= cacheTimestamp(c)
        /\ cacheTimestamp(c) \in Stamps /\ cacheTimestamp(d) \in Stamps
        /\ copy.stamp <= cacheTimestamp(d)
        /\ \E e \in d : e.stamp = cacheTimestamp(d)
    BY <1>2, Newer DEF Copies
  <1>4. \A e \in d : e.stamp <= stamp
    BY <1>1, <1>2, <1>3 DEF Stamps
  <1>5. cacheTimestamp(d) = stamp
    BY <1>1, <1>3, <1>4 DEF Stamps
  <1>6. \A e \in d : e.stamp = stamp => e = copy
    BY <1>1
  <1>7. Readable(d) <=> whole
    BY <1>1, <1>2, <1>5, <1>6 DEF Readable
  <1>8. QED
    BY <1>2, <1>5, <1>7 DEF d

-----------------------------------------------------------------------------
(* The Downloader: what is under way and what waits stays fit for it.      *)

Fit(q, c) == q \in Seq(Requests) /\ \A i \in 1..Len(q) : Asks(q[i], c)

LEMMA Joined ==
  ASSUME NEW c, NEW q, NEW p, Fit(q, c), Fit(p, c)
  PROVE  Fit(q \o p, c)
PROOF
  <1> DEFINE s == q \o p
  <1>1. /\ q \in Seq(Requests) /\ p \in Seq(Requests)
        /\ s \in Seq(Requests) /\ Len(q) \in Nat /\ Len(p) \in Nat
        /\ \A i \in 1..Len(s) :
             \/ i \in 1..Len(q) /\ s[i] = q[i]
             \/ i - Len(q) \in 1..Len(p) /\ s[i] = p[i - Len(q)]
    BY DEF Fit
  <1> HIDE DEF s
  <1>2. Fit(s, c)
    BY <1>1 DEF Fit
  <1>3. QED
    BY <1>2 DEF s

LEMMA One ==
  ASSUME NEW c, NEW request, Asks(request, c)
  PROVE  Fit(<<request>>, c) /\ Fit(<<>>, c)
  BY DEF Fit, Asks

(* The queue after a reply has been delivered, or was empty before.        *)
LEMMA NextFits ==
  ASSUME NEW waiting, NEW c, Fit(waiting, c), startDownloadIfPending(waiting)
  PROVE  /\ reply' = Null /\ Fit(mPendingRequests', c)
         /\ mCurrentRequest' # Null => Asks(mCurrentRequest', c)
PROOF
  <1>1. CASE waiting = <<>>
    BY <1>1 DEF startDownloadIfPending, Fit
  <1>2. CASE waiting # <<>>
    <2> DEFINE t == Tail(waiting)
    <2>1. /\ t \in Seq(Requests) /\ Len(waiting) \in Nat /\ Head(waiting) = waiting[1]
          /\ 1 \in 1..Len(waiting)
          /\ \A i \in 1..Len(t) : i + 1 \in 1..Len(waiting) /\ t[i] = waiting[i + 1]
      BY <1>2 DEF Fit
    <2>2. reply' = Null /\ mPendingRequests' = t /\ mCurrentRequest' = waiting[1]
      BY <1>2, <2>1 DEF startDownloadIfPending
    <2> HIDE DEF t
    <2>3. QED
      BY <2>1, <2>2 DEF Fit
  <1>3. QED
    BY <1>1, <1>2

Downloads(c) ==
  /\ mCurrentRequest # Null => Asks(mCurrentRequest, c)
  /\ Fit(mPendingRequests, c)

LEMMA ScheduleFits ==
  ASSUME Downloads(cache), NEW request, Asks(request, cache),
         scheduleDownload(request)
  PROVE  /\ mCurrentRequest' # Null => Asks(mCurrentRequest', cache)
         /\ Fit(mPendingRequests', cache)
         /\ reply' = Null \/ UNCHANGED <<mCurrentRequest, reply>>
PROOF
  <1>1. Fit(Append(mPendingRequests, request), cache)
    <2>1. Append(mPendingRequests, request) = mPendingRequests \o <<request>>
      BY DEF Downloads, Fit, Asks
    <2>2. QED
      BY <2>1, One, Joined DEF Downloads
  <1>2. QED
    BY <1>1, NextFits DEF Downloads, scheduleDownload

LEMMA Delivered ==
  ASSUME Downloads(cache), NEW c, Downloads(c), NEW p, Fit(p, c),
         onNetworkReplyFinished(p)
  PROVE  /\ reply' = Null /\ Fit(mPendingRequests', c)
         /\ mCurrentRequest' # Null => Asks(mCurrentRequest', c)
  BY Joined, NextFits DEF Downloads, onNetworkReplyFinished

(* The requests of a queue fit every newer cache.                          *)
LEMMA CacheGrows ==
  ASSUME MaxVersion \in Nat, NEW c \in [Files -> SUBSET Copies],
         NEW d \in [Files -> SUBSET Copies],
         \A f \in Files : cacheTimestamp(c[f]) <= cacheTimestamp(d[f]),
         Downloads(c)
  PROVE  Downloads(d)
PROOF
  <1>1. ASSUME NEW request, Asks(request, c)
        PROVE  Asks(request, d)
    <2>1. request \in Requests /\ request.since \in Stamps
      BY <1>1 DEF Asks, Requests
    <2>2. \A f \in Files : /\ cacheTimestamp(c[f]) \in Stamps
                           /\ cacheTimestamp(d[f]) \in Stamps
      BY Newer
    <2>3. QED
      BY <1>1, <2>1, <2>2 DEF Asks, Stamps
  <1>2. QED
    BY <1>1 DEF Downloads, Fit

-----------------------------------------------------------------------------
LEMMA Initial == Init => IInv
PROOF
  <1> SUFFICES ASSUME Init PROVE IInv
    OBVIOUS
  <1>1. 0 \in Stamps /\ 1 \in Stamps
    BY FileUpdatesAssumption DEF Stamps
  <1>2. Types
    <2>1. \A f \in Files : cache[f] \in SUBSET Copies
      <3> SUFFICES ASSUME NEW f \in Files PROVE cache[f] \in SUBSET Copies
        OBVIOUS
      <3>1. cache[f] \in {{}, {[stamp |-> 1, whole |-> TRUE]}}
        BY DEF Init
      <3>2. [stamp |-> 1, whole |-> TRUE] \in Copies
        BY <1>1 DEF Copies
      <3>3. QED
        BY <3>1, <3>2
    <2>2. cache \in [Files -> SUBSET Copies]
      BY <2>1 DEF Init
    <2>3. QED
      BY <1>1, <2>2 DEF Init, Types
  <1>3. \A f \in Files : cacheTimestamp(cache[f]) <= published[f]
    <2> SUFFICES ASSUME NEW f \in Files
                 PROVE  cacheTimestamp(cache[f]) <= published[f]
      OBVIOUS
    <2>1. /\ cacheTimestamp(cache[f]) \in Stamps
          /\ cache[f] # {} => \E copy \in cache[f] : copy.stamp = cacheTimestamp(cache[f])
      BY <1>2, Newer, FileUpdatesAssumption DEF Types
    <2>2. \A copy \in cache[f] : copy.stamp = 1
      <3>1. cache[f] \in {{}, {[stamp |-> 1, whole |-> TRUE]}}
        BY DEF Init
      <3>2. QED
        BY <3>1
    <2>3. published[f] = 1 /\ (cache[f] = {} => cacheTimestamp(cache[f]) = 0)
      BY DEF Init, cacheTimestamp
    <2>4. QED
      BY <2>1, <2>2, <2>3
  <1>4. QED
    BY <1>2, <1>3 DEF IInv, Init, ReplyFits

(* A step of the server or of the list that leaves the requests alone.     *)
LEMMA PublishKeeps ==
  ASSUME IInv, NEW f \in Files, Publish(f)
  PROVE  IInv'
PROOF
  <1>1. /\ published' = [published EXCEPT ![f] = @ + 1] /\ published[f] < MaxVersion
        /\ UNCHANGED <<cache, marked, mPendingRequests, mCurrentRequest, reply,
                       slots, faults>>
    BY DEF Publish, queue, updater, counts
  <1>2. /\ published \in [Files -> Stamps] /\ marked \in [Files -> Stamps]
        /\ \A g \in Files : /\ marked[g] <= published[g]
                            /\ cacheTimestamp(cache[g]) <= published[g]
                            /\ cacheTimestamp(cache[g]) \in Stamps
    BY Newer, FileUpdatesAssumption DEF IInv, Types
  <1>3. /\ published' \in [Files -> Stamps]
        /\ \A g \in Files : /\ marked[g] <= published'[g]
                            /\ cacheTimestamp(cache[g]) <= published'[g]
                            /\ published[g] <= published'[g]
    BY <1>1, <1>2, FileUpdatesAssumption DEF Stamps
  <1>4. Types'
    BY <1>1, <1>3 DEF IInv, Types
  <1>5. ReplyFits'
    <2> SUFFICES ASSUME reply # Null, mCurrentRequest.url \in Files
                 PROVE  reply.stamp <= published'[mCurrentRequest.url]
      BY <1>1 DEF IInv, ReplyFits
    <2>1. reply.stamp \in Stamps /\ reply.stamp <= published[mCurrentRequest.url]
      BY DEF IInv, ReplyFits
    <2>2. QED
      BY <1>2, <1>3, <2>1 DEF Stamps
  <1>6. QED
    BY <1>1, <1>3, <1>4, <1>5 DEF IInv, Asks

LEMMA AnswerKeeps ==
  ASSUME IInv, NEW status, NEW whole \in BOOLEAN, ServerAnswers(status, whole)
  PROVE  IInv'
PROOF
  <1> DEFINE url == mCurrentRequest.url
  <1>1. /\ mCurrentRequest # Null
        /\ UNCHANGED <<published, cache, marked, mPendingRequests, mCurrentRequest,
                       slots>>
        /\ faults' \in {faults, faults + 1}
        /\ status = "NotModified" =>
             url \in Files /\ ~(mCurrentRequest.since < published[url])
        /\ reply' = [status |-> status, whole |-> whole,
                     stamp |-> IF url \in Files THEN published[url] ELSE 0]
    BY DEF ServerAnswers, files, updater, counts
  <1>2. /\ published \in [Files -> Stamps] /\ mCurrentRequest.since \in Stamps
        /\ \A g \in Files : /\ marked[g] <= published[g]
                            /\ cacheTimestamp(cache[g]) <= published[g]
    BY <1>1 DEF IInv, Types, Asks, Requests
  <1>3. ReplyFits'
    BY <1>1, <1>2 DEF ReplyFits, Stamps
  <1>4. QED
    BY <1>1, <1>3 DEF IInv, Types, Asks

-----------------------------------------------------------------------------
(* The parts of the invariant that a step of the program has to restore.   *)
LEMMA Restored ==
  ASSUME IInv, cache' \in [Files -> SUBSET Copies], slots' \in Nat, faults' \in Nat,
         UNCHANGED published,
         \A f \in Files : marked'[f] \in {marked[f], published[f]},
         marked' \in [Files -> Stamps],
         \A f \in Files : cacheTimestamp(cache'[f]) <= published[f],
         Fit(mPendingRequests', cache'),
         mCurrentRequest' # Null => Asks(mCurrentRequest', cache'),
         reply' = Null \/ UNCHANGED <<mCurrentRequest, reply, marked, cache>>
  PROVE  IInv'
PROOF
  <1>1. /\ published \in [Files -> Stamps] /\ marked \in [Files -> Stamps]
        /\ \A f \in Files : marked[f] <= published[f]
    BY DEF IInv, Types
  <1>2. \A f \in Files : marked'[f] <= published'[f]
    BY <1>1 DEF Stamps
  <1>3. Types'
    BY <1>1 DEF Types, Fit
  <1>4. ReplyFits' /\ (reply # Null => mCurrentRequest # Null)'
    BY DEF IInv, ReplyFits
  <1>5. QED
    BY <1>2, <1>3, <1>4 DEF IInv, Fit

LEMMA Facts ==
  ASSUME IInv
  PROVE  /\ MaxVersion \in Nat /\ Downloads(cache) /\ Fit(<<>>, cache)
         /\ \A f \in Files : cacheTimestamp(cache[f]) <= published[f]
         /\ cache \in [Files -> SUBSET Copies] /\ marked \in [Files -> Stamps]
         /\ published \in [Files -> Stamps] /\ slots \in Nat /\ faults \in Nat
         /\ 0 \in Stamps /\ Json \notin Files /\ Notes \notin Files
         /\ List \in Files /\ Icons \subseteq Files /\ List \notin Icons
  BY FileUpdatesAssumption DEF IInv, Types, Downloads, Fit, Stamps, Files

LEMMA UpdateKeeps ==
  ASSUME IInv, NEW f \in Files, update(f),
         UNCHANGED <<published, cache, marked, slots, faults>>
  PROVE  IInv'
PROOF
  <1>1. CASE UNCHANGED queue
    BY <1>1 DEF queue, IInv, Types, ReplyFits, Asks
  <1>2. CASE scheduleDownload(Request(f, cacheTimestamp(cache[f])))
    <2>1. Asks(Request(f, cacheTimestamp(cache[f])), cache)
      <3>1. cacheTimestamp(cache[f]) \in Stamps
        BY Facts, Newer
      <3>2. cacheTimestamp(cache[f]) <= cacheTimestamp(cache[f])
        BY <3>1 DEF Stamps
      <3>3. QED
        BY <3>1, <3>2 DEF Asks, Requests, Request
    <2>2. QED
      BY <1>2, <2>1, ScheduleFits, Facts, Restored
  <1>3. QED
    BY <1>1, <1>2 DEF update

LEMMA CheckKeeps ==
  ASSUME IInv, NEW ignore, checkAppUpdate(ignore)
  PROVE  IInv'
PROOF
  <1>1. /\ scheduleDownload(Request(Json, 0)) /\ slots' = slots + 1
        /\ UNCHANGED <<published, cache, marked, faults>>
    BY DEF checkAppUpdate, files
  <1>2. Asks(Request(Json, 0), cache)
    BY Facts DEF Asks, Request, Requests
  <1>3. QED
    BY <1>1, <1>2, ScheduleFits, Facts, Restored

LEMMA SuccessKeeps ==
  ASSUME IInv, NEW f \in Files, NEW written, onDownloadSuccess(f, written)
  PROVE  /\ IInv'
         /\ written = "all" => /\ marked[f] <= cacheTimestamp(cache'[f])
                               /\ reply.whole => Readable(cache'[f])
         /\ written # "all" => faults' # faults
PROOF
  <1> DEFINE whole == reply.whole /\ written = "all"
             d == IF written = "nothing" THEN cache[f]
                  ELSE WithCopy(cache[f], reply.stamp, whole)
  <1>1. /\ reply # Null /\ mCurrentRequest.url = f /\ UNCHANGED <<published, slots>>
        /\ faults' = IF written = "all" THEN faults ELSE faults + 1
        /\ cache' = [cache EXCEPT ![f] = d]
        /\ marked' \in {marked, [g \in Files |-> IF g \in Icons THEN published[g]
                                                                 ELSE marked[g]]}
        /\ onNetworkReplyFinished(<<>>)
    BY DEF onDownloadSuccess, Finished, onFileUpdated, updater
  <1>2. /\ reply.stamp \in Stamps /\ marked[f] <= reply.stamp /\ whole \in BOOLEAN
        /\ cacheTimestamp(cache[f]) <= reply.stamp /\ reply.stamp <= published[f]
    BY <1>1 DEF IInv, ReplyFits
  <1>3. cacheTimestamp(cache[f]) \in Stamps /\ cacheTimestamp(cache[f]) <= published[f]
    BY Facts, Newer
  <1>4. /\ d \in SUBSET Copies /\ cacheTimestamp(cache[f]) <= cacheTimestamp(d)
        /\ cacheTimestamp(d) <= published[f]
        /\ written = "all" => cacheTimestamp(d) = reply.stamp
        /\ (written = "all" /\ reply.whole) => Readable(d)
    <2>1. CASE written = "nothing"
      BY <1>3, <2>1, Facts DEF Stamps
    <2>2. CASE written # "nothing"
      <3>1. cache[f] \in SUBSET Copies /\ d = WithCopy(cache[f], reply.stamp, whole)
        BY <2>2, Facts
      <3>2. (written = "all" /\ reply.whole) => whole
        OBVIOUS
      <3> HIDE DEF whole, d
      <3>3. /\ d \in SUBSET Copies /\ cacheTimestamp(d) = reply.stamp
            /\ whole => Readable(d)
        BY <1>2, <3>1, Facts, Grows
      <3>4. QED
        BY <1>2, <3>2, <3>3
    <2>3. QED
      BY <2>1, <2>2
  <1> HIDE DEF d
  <1>5. /\ cache' \in [Files -> SUBSET Copies] /\ cache'[f] = d
        /\ \A g \in Files : /\ cacheTimestamp(cache[g]) <= cacheTimestamp(cache'[g])
                            /\ cacheTimestamp(cache'[g]) <= published[g]
    <2>1. \A g \in Files : cacheTimestamp(cache[g]) \in Stamps
      BY Facts, Newer
    <2>2. QED
      BY <1>1, <1>4, <2>1, Facts DEF Stamps
  <1>6. Downloads(cache')
    BY <1>5, Facts, CacheGrows
  <1>7. Fit(<<>>, cache')
    BY DEF Fit
  <1>8. /\ reply' = Null /\ Fit(mPendingRequests', cache')
        /\ mCurrentRequest' # Null => Asks(mCurrentRequest', cache')
    BY <1>1, <1>6, <1>7, Facts, Delivered
  <1>9. /\ marked' \in [Files -> Stamps]
        /\ \A g \in Files : marked'[g] \in {marked[g], published[g]}
    BY <1>1, Facts
  <1>10. IInv'
    BY <1>1, <1>5, <1>8, <1>9, Facts, Restored
  <1>11. QED
    BY <1>1, <1>2, <1>4, <1>5, <1>10, Facts

(* A reply that leaves the files alone.                                    *)
LEMMA ReplyKeeps ==
  ASSUME IInv, NEW p, Fit(p, cache), onNetworkReplyFinished(p),
         UNCHANGED <<published, cache, marked, faults>>, slots' \in Nat
  PROVE  IInv'
  BY Delivered, Facts, Restored

LEMMA UnnecessaryKeeps ==
  ASSUME IInv, NEW f \in Files, onDownloadUnnecessary(f)
  PROVE  IInv' /\ marked[f] <= cacheTimestamp(cache'[f])
PROOF
  <1>1. /\ reply # Null /\ reply.status = "NotModified" /\ mCurrentRequest.url = f
        /\ onNetworkReplyFinished(<<>>)
        /\ UNCHANGED <<published, cache, marked, faults, slots>>
    BY DEF onDownloadUnnecessary, Finished, updater, counts
  <1>2. IInv'
    BY <1>1, Facts, ReplyKeeps
  <1>3. /\ reply.stamp \in Stamps /\ marked[f] <= reply.stamp
        /\ reply.stamp <= mCurrentRequest.since /\ mCurrentRequest.since \in Stamps
        /\ mCurrentRequest.since <= cacheTimestamp(cache[f])
    BY <1>1 DEF IInv, ReplyFits, Asks, Requests
  <1>4. cacheTimestamp(cache[f]) \in Stamps /\ marked[f] \in Stamps
    BY Facts, Newer
  <1>5. QED
    BY <1>1, <1>2, <1>3, <1>4 DEF Stamps

LEMMA FailedKeeps ==
  ASSUME IInv, NEW f \in Files, onDownloadFailed(f)
  PROVE  IInv'
  BY Facts, ReplyKeeps DEF onDownloadFailed, updater, counts

(* The update check's replies schedule release notes and nothing else.     *)
LEMMA UpdaterKeeps ==
  ASSUME IInv,
         \/ \E found : onUpdateDownloadFinished(found)
         \/ NotesDownloaded
         \/ \E url : onUpdateDownloadFailed(url) \/ ReplyUnheard(url)
  PROVE  IInv' /\ UNCHANGED <<cache, dirty, marked>>
PROOF
  <1>1. \A n \in Nat : Fit(notes(n), cache)
    <2> SUFFICES ASSUME NEW n \in Nat PROVE Fit(notes(n), cache)
      OBVIOUS
    <2>1. Asks(Request(Notes, 0), cache) /\ Request(Notes, 0) \in Requests
      BY Facts DEF Asks, Request, Requests
    <2>2. notes(n) = [i \in 1..n |-> Request(Notes, 0)]
      BY DEF notes
    <2>3. notes(n) \in Seq(Requests) /\ Len(notes(n)) = n
      BY <2>1, <2>2
    <2>4. QED
      BY <2>1, <2>2, <2>3 DEF Fit
  <1>2. PICK p : /\ Fit(p, cache) /\ onNetworkReplyFinished(p)
    BY <1>1, Facts
       DEF onUpdateDownloadFinished, NotesDownloaded, onUpdateDownloadFailed,
           ReplyUnheard
  <1>3. /\ UNCHANGED <<published, cache, dirty, marked, faults>>
        /\ slots' \in {slots, 0}
    BY DEF onUpdateDownloadFinished, NotesDownloaded, onUpdateDownloadFailed,
           ReplyUnheard, fireAppUpdateCheckFinished, files, updater, counts
  <1>4. QED
    BY <1>2, <1>3, Facts, ReplyKeeps

LEMMA KillKeeps ==
  ASSUME IInv, Killed
  PROVE  IInv'
PROOF
  <1>1. /\ faults' = faults + 1 /\ mPendingRequests' = <<>>
        /\ mCurrentRequest' = Null /\ reply' = Null /\ slots' = 0
        /\ UNCHANGED <<published, marked>>
    BY DEF Killed
  <1>2. /\ cache' \in [Files -> SUBSET Copies]
        /\ \A f \in Files : cacheTimestamp(cache'[f]) <= published[f]
    <2>1. ASSUME NEW f \in Files, NEW whole \in BOOLEAN, Finished(f, "OK"),
                 cache' = [cache EXCEPT ![f] =
                             WithCopy(@, reply.stamp, whole)]
          PROVE  /\ cache' \in [Files -> SUBSET Copies]
                 /\ \A g \in Files : cacheTimestamp(cache'[g]) <= published[g]
      <3> DEFINE d == WithCopy(cache[f], reply.stamp, whole)
      <3>1. /\ reply.stamp \in Stamps /\ cache[f] \in SUBSET Copies
            /\ cacheTimestamp(cache[f]) <= reply.stamp
            /\ reply.stamp <= published[f]
        BY <2>1, Facts DEF IInv, ReplyFits, Finished
      <3>2. d \in SUBSET Copies /\ cacheTimestamp(d) <= published[f]
        BY <3>1, Facts, Grows
      <3> HIDE DEF d
      <3>3. QED
        BY <2>1, <3>2, Facts DEF d
    <2>2. QED
      BY <2>1, Facts DEF Killed
  <1>3. Fit(<<>>, cache')
    BY DEF Fit
  <1>4. QED
    BY <1>1, <1>2, <1>3, Facts, Restored

-----------------------------------------------------------------------------
Spent ==
  \A f \in dirty \cap Icons : f \notin dirty' =>
    \/ faults' # faults
    \/ /\ cacheTimestamp(cache'[f]) >= marked[f]
       /\ \/ Readable(cache'[f])
          \/ ~reply.whole
          \/ reply.status = "NotModified" /\ ~Readable(cache[f])

LEMMA StepKeeps == IInv /\ [Next]_vars => IInv' /\ Spent
PROOF
  <1> SUFFICES ASSUME IInv, [Next]_vars PROVE IInv' /\ Spent
    OBVIOUS
  <1>1. ASSUME NEW f \in Files, Publish(f) PROVE IInv' /\ Spent
    BY <1>1, PublishKeeps DEF Publish, Spent
  <1>2. CASE doConfigurationsUpdate
    BY <1>2, UpdateKeeps, Facts DEF doConfigurationsUpdate, updater, Spent
  <1>3. ASSUME NEW f \in Icons, lookupPath(f) PROVE IInv' /\ Spent
    BY <1>3, UpdateKeeps, Facts DEF lookupPath, updater, counts, Spent
  <1>4. ASSUME NEW status, NEW whole \in BOOLEAN, ServerAnswers(status, whole)
        PROVE  IInv' /\ Spent
    BY <1>4, AnswerKeeps DEF ServerAnswers, files, Spent
  <1>5. ASSUME NEW ignore, checkAppUpdate(ignore) PROVE IInv' /\ Spent
    BY <1>5, CheckKeeps DEF checkAppUpdate, files, Spent
  <1>6. ASSUME NEW f \in Files, NEW written, onDownloadSuccess(f, written)
        PROVE  IInv' /\ Spent
    <2>1. /\ IInv'
          /\ written = "all" => /\ marked[f] <= cacheTimestamp(cache'[f])
                                /\ reply.whole => Readable(cache'[f])
          /\ written # "all" => faults' # faults
      BY <1>6, SuccessKeeps
    <2>2. \A g \in dirty \cap Icons : g \notin dirty' => g = f
      BY <1>6, Facts DEF onDownloadSuccess, onFileUpdated
    <2>3. cacheTimestamp(cache'[f]) \in Stamps /\ marked[f] \in Stamps
      <3>1. cache' \in [Files -> SUBSET Copies]
        BY <2>1 DEF IInv, Types
      <3>2. QED
        BY <3>1, Facts, Newer
    <2>4. QED
      BY <2>1, <2>2, <2>3 DEF Spent, Stamps
  <1>7. ASSUME NEW f \in Files, onDownloadUnnecessary(f)
        PROVE  IInv' /\ Spent
    <2>1. IInv' /\ marked[f] <= cacheTimestamp(cache'[f])
      BY <1>7, UnnecessaryKeeps
    <2>2. /\ \A g \in dirty \cap Icons : g \notin dirty' => g = f
          /\ reply.status = "NotModified" /\ cache' = cache
      BY <1>7 DEF onDownloadUnnecessary, Finished
    <2>3. cacheTimestamp(cache'[f]) \in Stamps /\ marked[f] \in Stamps
      <3>1. cache' \in [Files -> SUBSET Copies]
        BY <2>1 DEF IInv, Types
      <3>2. QED
        BY <3>1, Facts, Newer
    <2>4. QED
      BY <2>1, <2>2, <2>3 DEF Spent, Stamps
  <1>8. ASSUME NEW f \in Files, onDownloadFailed(f) PROVE IInv' /\ Spent
    BY <1>8, FailedKeeps DEF onDownloadFailed, Spent
  <1>9. CASE \/ \E found : onUpdateDownloadFinished(found)
             \/ NotesDownloaded
             \/ \E url : onUpdateDownloadFailed(url) \/ ReplyUnheard(url)
    BY <1>9, UpdaterKeeps DEF Spent
  <1>10. CASE Killed
    BY <1>10, KillKeeps DEF Killed, Spent
  <1>11. CASE UNCHANGED vars
    BY <1>11 DEF vars, files, queue, updater, counts, IInv, Types, ReplyFits, Asks,
                 Spent
  <1>12. QED
    BY <1>1, <1>2, <1>3, <1>4, <1>5, <1>6, <1>7, <1>8, <1>9, <1>10, <1>11
       DEF Next, Arrives

(***************************************************************************)
(* The answers that wait in the queue fit the cache and the marks on it:   *)
(* the inductive invariant.                                                *)
(***************************************************************************)
THEOREM Invariant == Spec => []IInv
PROOF
  <1>1. IInv /\ [Next]_vars => IInv'
    BY StepKeeps
  <1>2. QED
    BY <1>1, Initial, PTL DEF Spec

(***************************************************************************)
(* A picture that a new list has marked loses its mark only with a whole   *)
(* copy as new as the picture was then, or because its copy could not be   *)
(* written, the reply broke off after its header, or a copy spoilt in      *)
(* this way is still the server's newest: an answer formed before the list *)
(* arrived never clears it, nor does a failure.                            *)
(***************************************************************************)
THEOREM MarkSpent == Spec => MarkIsServed
PROOF
  <1>1. IInv /\ [Next]_vars =>
          [\A f \in dirty \cap Icons : f \notin dirty' =>
             \/ faults' # faults
             \/ /\ cacheTimestamp(cache'[f]) >= marked[f]
                /\ \/ Readable(cache'[f])
                   \/ ~reply.whole
                   \/ reply.status = "NotModified" /\ ~Readable(cache[f])]_vars
    BY StepKeeps DEF Spent
  <1>2. QED
    BY <1>1, Invariant, PTL DEF Spec, MarkIsServed
=============================================================================
