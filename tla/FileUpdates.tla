------------------------------ MODULE FileUpdates ------------------------------
(***************************************************************************)
(* The downloads of a running program: the list of providers (or readers), *)
(* the pictures it names (UpdatableFile, kept by FileProvider) and the     *)
(* application's own update check (AppUpdater) share one Downloader, which *)
(* runs one request at a time and tells every receiver of every reply.     *)
(* A new list marks its pictures "dirty" on the disk; looking a marked     *)
(* picture up fetches it.  The cache and the marks survive the program.    *)
(* Versions stand for the time stamps that name the cached copies.         *)
(***************************************************************************)
EXTENDS Naturals, Sequences, FiniteSets, FiniteSetsExt

CONSTANTS
  List, Icons,   \* the file of the list and those of the pictures
  Json, Notes,   \* what AppUpdater downloads: the app cast, the release notes
  Null,          \* no request, no reply, no copy
  MaxVersion,    \* bound: versions of a file the server ever has
  MaxUpdates,    \* bound: how often the list's update is started
  MaxFaults,     \* bound: replies that break off, failed writes and kills
  MaxChecks,     \* bound: update checks of the application
  MaxPending     \* bound: requests that wait when another check is started

ASSUME FileUpdatesAssumption ==
  /\ List \notin Icons /\ {Json, Notes} \cap ({List} \cup Icons) = {}
  /\ Null \notin {List, Json, Notes} \cup Icons
  /\ \A n \in {MaxVersion, MaxUpdates, MaxFaults, MaxChecks, MaxPending} : n \in Nat

VARIABLES
  published,        \* the server's version of each file
  cache,            \* the copies on the disk: [stamp, whole]
  dirty,            \* the files with a mark on the disk
  parsed,           \* the list was read, its pictures are known
  mUpdateRunning,   \* the files whose update is under way
  mPendingRequests, \* requests [url, since] that wait
  mCurrentRequest,  \* the request under way, or Null
  reply,            \* what the server has answered to it, or Null
  slots,            \* how often AppUpdater's slots are connected
  mAppUpdateData,   \* TRUE: the data of an app cast are held
  mIgnoreNextVersionskip,
  asked,            \* a check has been asked for and not been answered
  marked,           \* auxiliary: the version a mark was set for
  updates, faults, checks   \* counted for the bounds

files == <<published, cache, dirty, parsed, mUpdateRunning, marked>>
queue == <<mPendingRequests, mCurrentRequest, reply>>
updater == <<slots, mAppUpdateData, mIgnoreNextVersionskip, asked>>
counts == <<updates, faults, checks>>
vars == <<files, queue, updater, counts>>

Files == {List} \cup Icons
Versions == 1..MaxVersion
Request(url, since) == [url |-> url, since |-> since]

(* A file that is not in the cache is read from the program's resources;   *)
(* cachePath takes the newest copy, cacheTimestamp its stamp.              *)
cacheTimestamp(c) == IF c = {} THEN 0 ELSE Max({copy.stamp : copy \in c})
Readable(c) == \A copy \in c : copy.stamp = cacheTimestamp(c) => copy.whole

(* Opening a copy for writing replaces the one with its stamp.             *)
WithCopy(c, stamp, whole) ==
  {copy \in c : copy.stamp # stamp} \cup {[stamp |-> stamp, whole |-> whole]}

Init ==
  /\ published = [f \in Files |-> 1]
  /\ cache \in [Files -> {{}, {[stamp |-> 1, whole |-> TRUE]}}]
  /\ dirty = {} /\ marked = [f \in Files |-> 0]
  /\ parsed = TRUE
  /\ mUpdateRunning = {}
  /\ mPendingRequests = <<>> /\ mCurrentRequest = Null /\ reply = Null
  /\ slots = 0 /\ mAppUpdateData = FALSE /\ mIgnoreNextVersionskip = FALSE
  /\ asked = FALSE
  /\ updates = 0 /\ faults = 0 /\ checks = 0

-----------------------------------------------------------------------------
(* The Downloader.                                                         *)

startDownloadIfPending(waiting) ==
  /\ reply' = Null
  /\ IF waiting = <<>>
     THEN mCurrentRequest' = Null /\ mPendingRequests' = <<>>
     ELSE mCurrentRequest' = Head(waiting) /\ mPendingRequests' = Tail(waiting)

scheduleDownload(request) ==
  IF mCurrentRequest = Null
  THEN startDownloadIfPending(Append(mPendingRequests, request))
  ELSE /\ mPendingRequests' = Append(mPendingRequests, request)
       /\ UNCHANGED <<mCurrentRequest, reply>>

(* The receivers of the signal run inside onNetworkReplyFinished; the      *)
(* requests they schedule wait until its guard takes the next one.         *)
onNetworkReplyFinished(scheduled) ==
  startDownloadIfPending(mPendingRequests \o scheduled)

(* The answer is formed at the server; it arrives later.  The Downloader   *)
(* looks at its status only: an untrusted certificate, any other status, a *)
(* timeout or an abort before the header are failures.  But a reply that   *)
(* breaks off, or is aborted by NetworkReplyTimeout, after the header of a *)
(* 200 is a success with the data that have come so far (~whole).          *)
ServerAnswers(status, whole) ==
  /\ mCurrentRequest # Null /\ reply = Null
  /\ whole \/ (status = "OK" /\ faults < MaxFaults)
  /\ faults' = IF whole THEN faults ELSE faults + 1
  /\ LET url == mCurrentRequest.url
         fresh == url \in Files => mCurrentRequest.since < published[url]
     IN  /\ status = "OK" => fresh
         /\ status = "NotModified" => ~fresh
         /\ reply' = [status |-> status, whole |-> whole,
                      stamp |-> IF url \in Files THEN published[url] ELSE 0]
  /\ UNCHANGED <<files, mPendingRequests, mCurrentRequest, updater, updates, checks>>

Finished(url, status) ==
  reply # Null /\ reply.status = status /\ mCurrentRequest.url = url

Publish(f) ==
  /\ published[f] < MaxVersion
  /\ published' = [published EXCEPT ![f] = @ + 1]
  /\ UNCHANGED <<cache, dirty, parsed, mUpdateRunning, marked, queue, updater, counts>>

-----------------------------------------------------------------------------
(* UpdatableFile and the configuration that owns the list.                 *)

update(f) ==
  IF f \in mUpdateRunning
  THEN UNCHANGED <<mUpdateRunning, queue>>
  ELSE /\ mUpdateRunning' = mUpdateRunning \cup {f}
       /\ scheduleDownload(Request(f, cacheTimestamp(cache[f])))

(* Service::doConfigurationsUpdate, at the start and once a day.           *)
doConfigurationsUpdate ==
  /\ updates < MaxUpdates /\ updates' = updates + 1
  /\ update(List)
  /\ UNCHANGED <<published, cache, dirty, parsed, marked, updater, faults, checks>>

(* A view shows a picture of the list.                                     *)
lookupPath(f) ==
  /\ parsed /\ f \in dirty
  /\ update(f)
  /\ UNCHANGED <<published, cache, dirty, parsed, marked, updater, counts>>

(* The configuration's onFileUpdated for a list that can be parsed: every  *)
(* picture it names is marked.                                             *)
onFileUpdated ==
  /\ parsed' = TRUE
  /\ dirty' = (dirty \ {List}) \cup Icons
  /\ marked' = [f \in Files |-> IF f \in Icons THEN published[f] ELSE marked[f]]

(* writeDataToFile writes all the data, a part of them (the disk is full)  *)
(* or nothing (the file cannot be opened); the mark is removed whatever    *)
(* has become of the copy.  A list that broke off is written, but the      *)
(* configuration cannot parse it and keeps the one it has read.            *)
onDownloadSuccess(f, written) ==
  /\ Finished(f, "OK")
  /\ faults' = IF written = "all" THEN faults ELSE faults + 1
  /\ faults' <= MaxFaults
  /\ cache' = [cache EXCEPT ![f] =
       IF written = "nothing" THEN @
       ELSE WithCopy(@, reply.stamp, reply.whole /\ written = "all")]
  /\ IF written = "all" /\ reply.whole /\ f = List
     THEN onFileUpdated
     ELSE dirty' = dirty \ {f} /\ UNCHANGED <<parsed, marked>>
  /\ mUpdateRunning' = mUpdateRunning \ {f}
  /\ onNetworkReplyFinished(<<>>)
  /\ UNCHANGED <<published, updater, updates, checks>>

onDownloadUnnecessary(f) ==
  /\ Finished(f, "NotModified")
  /\ dirty' = dirty \ {f}
  /\ mUpdateRunning' = mUpdateRunning \ {f}
  /\ onNetworkReplyFinished(<<>>)
  /\ UNCHANGED <<published, cache, parsed, marked, updater, counts>>

(* Mutants: the mark goes with the failure; the update is not ended.       *)
onDownloadFailed_ClearsMark(f) ==
  /\ Finished(f, "failed")
  /\ dirty' = dirty \ {f}
  /\ mUpdateRunning' = mUpdateRunning \ {f}
  /\ onNetworkReplyFinished(<<>>)
  /\ UNCHANGED <<published, cache, parsed, marked, updater, counts>>
onDownloadFailed_StaysRunning(f) ==
  /\ Finished(f, "failed")
  /\ onNetworkReplyFinished(<<>>)
  /\ UNCHANGED <<files, updater, counts>>

onDownloadFailed(f) ==
  /\ Finished(f, "failed")
  /\ mUpdateRunning' = mUpdateRunning \ {f}
  /\ onNetworkReplyFinished(<<>>)
  /\ UNCHANGED <<published, cache, dirty, parsed, marked, updater, counts>>

(* The program is killed, in the middle of a write perhaps, and started    *)
(* again: the constructor of the configuration reads the list.             *)
Killed ==
  /\ faults < MaxFaults /\ faults' = faults + 1
  /\ \/ cache' = cache
     \/ \E f \in Files, whole \in BOOLEAN :
          /\ Finished(f, "OK") /\ (whole => reply.whole)
          /\ cache' = [cache EXCEPT ![f] = WithCopy(@, reply.stamp, whole)]
  /\ parsed' = Readable(cache'[List])
  /\ mUpdateRunning' = {}
  /\ mPendingRequests' = <<>> /\ mCurrentRequest' = Null /\ reply' = Null
  /\ slots' = 0 /\ mAppUpdateData' = FALSE /\ mIgnoreNextVersionskip' = FALSE
  /\ asked' = FALSE
  /\ UNCHANGED <<published, dirty, marked, updates, checks>>

-----------------------------------------------------------------------------
(* AppUpdater.  Each check connects the slots once more, and each signal   *)
(* calls them as often as they are connected, until one disconnects them.  *)

checkAppUpdate(pIgnoreNextVersionskip) ==
  /\ checks < MaxChecks /\ checks' = checks + 1
  /\ Len(mPendingRequests) < MaxPending
  /\ slots' = slots + 1
  /\ mAppUpdateData' = FALSE
  /\ mIgnoreNextVersionskip' = pIgnoreNextVersionskip
  /\ asked' = TRUE
  /\ scheduleDownload(Request(Json, 0))
  /\ UNCHANGED <<files, updates, faults>>

(* fireAppUpdateCheckFinished and clearDownloaderConnection.               *)
fireAppUpdateCheckFinished == asked' = FALSE /\ slots' = 0

notes(n) == [i \in 1..n |-> Request(Notes, 0)]

(* Nobody is connected, or the reply does not belong to the data at hand.  *)
Unheard(url) == slots = 0 \/ (url = Notes /\ ~mAppUpdateData)

(* The app cast: invalid (as one that broke off) or no newer version; a    *)
(* newer one, which the user may have chosen to skip.  The slot that finds *)
(* the version disregards the user's choice once; the slot of a second     *)
(* connection finds it again.                                              *)
onUpdateDownloadFinished(found) ==
  /\ Finished(Json, "OK") /\ slots > 0
  /\ reply.whole \/ found = "invalid"
  /\ \/ /\ found \in {"invalid", "old"}
        /\ mAppUpdateData' = (mAppUpdateData \/ found = "old")
        /\ fireAppUpdateCheckFinished
        /\ onNetworkReplyFinished(<<>>)
        /\ UNCHANGED mIgnoreNextVersionskip
     \/ /\ found = "skipped" /\ (~mIgnoreNextVersionskip \/ slots > 1)
        /\ mAppUpdateData' = TRUE
        /\ mIgnoreNextVersionskip' = FALSE
        /\ fireAppUpdateCheckFinished
        /\ onNetworkReplyFinished(notes(IF mIgnoreNextVersionskip THEN 1 ELSE 0))
     \/ /\ found = "new" \/ (found = "skipped" /\ mIgnoreNextVersionskip /\ slots = 1)
        /\ mAppUpdateData' = TRUE
        /\ mIgnoreNextVersionskip' = FALSE
        /\ onNetworkReplyFinished(notes(slots))
        /\ UNCHANGED <<slots, asked>>
  /\ UNCHANGED <<files, counts>>

(* Mutant: when the release notes cannot be had, nobody is told.           *)
onUpdateDownloadFailed_Silent(url) ==
  /\ Finished(url, "failed") /\ ~Unheard(url)
  /\ IF url = Json THEN fireAppUpdateCheckFinished ELSE UNCHANGED <<slots, asked>>
  /\ onNetworkReplyFinished(<<>>)
  /\ UNCHANGED <<files, mAppUpdateData, mIgnoreNextVersionskip, counts>>

onUpdateDownloadFailed(url) ==
  /\ Finished(url, "failed") /\ ~Unheard(url)
  /\ fireAppUpdateCheckFinished
  /\ onNetworkReplyFinished(<<>>)
  /\ UNCHANGED <<files, mAppUpdateData, mIgnoreNextVersionskip, counts>>

(* The release notes, or a part of them, are there: the new version is     *)
(* announced with them.                                                    *)
NotesDownloaded ==
  /\ Finished(Notes, "OK") /\ ~Unheard(Notes)
  /\ fireAppUpdateCheckFinished
  /\ onNetworkReplyFinished(<<>>)
  /\ UNCHANGED <<files, mAppUpdateData, mIgnoreNextVersionskip, counts>>

ReplyUnheard(url) ==
  /\ reply # Null /\ mCurrentRequest.url = url /\ Unheard(url)
  /\ onNetworkReplyFinished(<<>>)
  /\ UNCHANGED <<files, updater, counts>>

-----------------------------------------------------------------------------
Arrives ==
  \/ \E f \in Files :
       \/ \E written \in {"all", "part", "nothing"} : onDownloadSuccess(f, written)
       \/ onDownloadUnnecessary(f)
       \/ onDownloadFailed(f)
  \/ \E found \in {"invalid", "old", "skipped", "new"} : onUpdateDownloadFinished(found)
  \/ NotesDownloaded
  \/ \E url \in {Json, Notes} : onUpdateDownloadFailed(url) \/ ReplyUnheard(url)

Next ==
  \/ \E f \in Files : Publish(f)
  \/ doConfigurationsUpdate
  \/ \E f \in Icons : lookupPath(f)
  \/ \E status \in {"OK", "NotModified", "failed"}, whole \in BOOLEAN :
       ServerAnswers(status, whole)
  \/ \E ignore \in BOOLEAN : checkAppUpdate(ignore)
  \/ Arrives
  \/ Killed

(* NetworkReplyTimeout ends every request; the views go on showing the     *)
(* pictures; a server that is asked again and again does not always fail.  *)
Fairness ==
  /\ WF_vars(\E status \in {"OK", "NotModified", "failed"}, whole \in BOOLEAN :
               ServerAnswers(status, whole))
  /\ WF_vars(Arrives)
  /\ \A f \in Icons :
       /\ WF_vars(lookupPath(f))
       /\ SF_vars(/\ mCurrentRequest # Null /\ mCurrentRequest.url = f
                  /\ \E status \in {"OK", "NotModified"}, whole \in BOOLEAN :
                       ServerAnswers(status, whole))

Spec == Init /\ [][Next]_vars
FairSpec == Spec /\ Fairness

-----------------------------------------------------------------------------
(***************************************************************************)
(* Types.                                                                  *)
(***************************************************************************)
TypeOK ==
  /\ published \in [Files -> Versions]
  /\ \A f \in Files : cache[f] \subseteq [stamp : Versions, whole : BOOLEAN]
  /\ dirty \subseteq Files /\ mUpdateRunning \subseteq Files
  /\ marked \in [Files -> 0..MaxVersion]
  /\ mCurrentRequest = Null => mPendingRequests = <<>> /\ reply = Null
  /\ slots \in 0..MaxChecks
  /\ {parsed, mAppUpdateData, mIgnoreNextVersionskip, asked} \subseteq BOOLEAN

(* A picture's mark goes only with a copy that is as new as the picture    *)
(* was when the list marked it and that is whole: no answer formed before  *)
(* the mark was set may clear it, nor a failure, nor an answer to somebody *)
(* else.  UpdatableFile::clearDirty is called in three cases without such  *)
(* a copy, which are left out: the copy could not be written; the reply    *)
(* broke off after its header; the server says 304 of a copy that one of   *)
(* these has spoilt before.                                                *)
MarkIsServed ==
  [][\A f \in dirty \cap Icons : f \notin dirty' =>
       \/ faults' # faults
       \/ /\ cacheTimestamp(cache'[f]) >= marked[f]
          /\ \/ Readable(cache'[f])
             \/ ~reply.whole
             \/ reply.status = "NotModified" /\ ~Readable(cache[f])]_vars

(* Every update ends and every mark is answered while the list that names  *)
(* the picture can be read: a failed download, a failed write and the      *)
(* update check's requests in the same queue do not keep a file from being *)
(* fetched again.  mUpdateRunning and the disconnects of                   *)
(* cleanupAfterUpdate.  An answer that broke off counts, as in the code.   *)
PicturesSettle ==
  \A f \in Icons : (f \in dirty \/ f \in mUpdateRunning)
                     ~> (~parsed \/ (f \notin dirty /\ f \notin mUpdateRunning))

(* A check for a new version of the application is answered, even when     *)
(* another one is started while its replies are on their way, which        *)
(* connects AppUpdater's slots twice and resets the data the release notes *)
(* are compared with.                                                      *)
CheckIsAnswered == asked ~> ~asked
================================================================================
