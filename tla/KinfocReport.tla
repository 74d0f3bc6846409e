---------------------------- MODULE KinfocReport ----------------------------
(***************************************************************************)
(* The kinfoc reporter: KInfocClient with its batches in memory             *)
(* (KInfocBatchReportData), its posts (KInfocHttpPoster) and its cache      *)
(* files (KInfocCacheFileMgr).                                              *)
(*                                                                         *)
(* Reports come from any thread and are added under a lock; delayed calls   *)
(* run on the main thread; each of the two cache folders has a serial queue *)
(* of operations; answers come on the session's queue.  One action is one   *)
(* locked section, one operation or one callback.  The process may be       *)
(* killed between any two of them (Kill): the files stay.                   *)
(*                                                                         *)
(* Every record has the same size here, and fits the buffer of a batch.     *)
(* All reports have the priority Normal, as in doReportData.  Reports that  *)
(* sampling turns away, or that have no format, are none of the model's.    *)
(* The public section is built from the same format file and is taken to be *)
(* there: without it a flush returns early and the records stay.            *)
(*                                                                         *)
(* An operator named X_Flaw is X with a plausible slip of the code; the     *)
(* properties are tried against it in X's place.                            *)
(***************************************************************************)
EXTENDS Integers, Sequences, FiniteSets

CONSTANTS
  Reports,     \* the reports that are made
  Forced,      \* those made with forceReportData
  BatchLimit,  \* MIN_BATCH_REPORT_FILE_COUNT
  Capacity,    \* records that fit MAX_BATCH_BUFFER_LENGTH
  MaxKills     \* bound on the deaths of the process

ASSUME ReportAssumption ==
  /\ Forced \subseteq Reports
  /\ BatchLimit \in Nat \ {0} /\ Capacity \in Nat \ {0} /\ MaxKills \in Nat

VARIABLES
  batch,     \* m_pPriorityBatchData[Normal]
  arming,    \* runOnMainThread is on its way to the main thread
  armed,     \* a delayed flush is pending
  posts,     \* requests without an answer
  queue,     \* for each folder, the operations of its queue
  files,     \* for each folder, what its cache files hold
  filterSet, \* for each folder, the files in m_setFilterRptDataPath
  net,       \* what CMBizHelper says of the network
  kills,     \* deaths of the process so far
  (* history, read by properties only *)
  accepted,  \* the reports made
  received,  \* the reports the server has
  abandoned, \* the reports lost with the process, by age, or by the disk
  doubted,   \* received reports whose success the process could not learn
  doubled    \* reports the server received again without such a doubt

memory == <<batch, arming, armed>>
disk == <<queue, files, filterSet>>
history == <<received, abandoned, doubted, doubled>>
vars == <<memory, posts, disk, net, kills, accepted, history>>

Net == {"none", "cell", "wifi"}
Data == (SUBSET Reports) \ {{}}          \* a binary of one or more reports
Post == [data : Data, force : BOOLEAN, cached : BOOLEAN, arrived : BOOLEAN]

-----------------------------------------------------------------------------
Elems(s) == {s[i] : i \in DOMAIN s}

NewPost(data, force, cached) ==
  [data |-> data, force |-> force, cached |-> cached, arrived |-> FALSE]

Save(data) == [kind |-> "save", data |-> data]
Remove(data) == [kind |-> "remove", data |-> data]
Check == [kind |-> "check", data |-> {}]
Operation == [kind : {"save", "remove"}, data : Data] \cup {Check}

\* The buffers a flush builds: a record that does not fit starts a new one.
Buffers_SpareBuffer(records) ==
  [k \in 1..(Len(records) \div Capacity + 1) |->
     {records[i] : i \in {j \in DOMAIN records : (j - 1) \div Capacity = k - 1}}]
Buffers(records) ==
  [k \in 1..((Len(records) + Capacity - 1) \div Capacity) |->
     {records[i] : i \in {j \in DOMAIN records : (j - 1) \div Capacity = k - 1}}]

\* checkNetForReport
CanReport(force, n) == IF force THEN n # "none" ELSE n = "wifi"

\* Where copies of reports are.
SavedBy(operations) ==
  {r \in Reports : \E op \in Elems(operations) : op.kind = "save" /\ r \in op.data}
Batched == Elems(batch)
InFlight(cached) == {r \in Reports : \E p \in posts : p.cached = cached /\ r \in p.data}
Saving == SavedBy(queue[TRUE]) \cup SavedBy(queue[FALSE])
OnDisk == UNION (files[TRUE] \cup files[FALSE])
Volatile == Batched \cup InFlight(FALSE) \cup Saving
Held == Volatile \cup InFlight(TRUE) \cup OnDisk

-----------------------------------------------------------------------------
(* Making reports.                                                          *)

\* postBatchData: posted on Wi-Fi, else saved for later.  It is called for one
\* buffer after the other, and the network may change before buffer k + 1.
OnWifi(buffers, n) == IF n = "wifi" THEN buffers ELSE <<>>
OffWifi(buffers, n) == IF n = "wifi" THEN <<>> ELSE buffers
PostBatchData(buffers) ==
  \E k \in 0..Len(buffers), n \in Net :
    LET first == SubSeq(buffers, 1, k)
        rest == SubSeq(buffers, k + 1, Len(buffers))
        sent == OnWifi(first, net) \o OnWifi(rest, n)
        kept == OffWifi(first, net) \o OffWifi(rest, n)
    IN  /\ posts' = posts \cup {NewPost(data, FALSE, FALSE) : data \in Elems(sent)}
        /\ queue' = [queue EXCEPT ![FALSE] =
                       @ \o [i \in DOMAIN kept |-> Save(kept[i])]]
        /\ net' = n

\* flush, under the lock: every record leaves the array.
Flush(records) ==
  /\ PostBatchData(Buffers(records))
  /\ batch' = <<>>

\* addData: the array is flushed when it is full, else within three minutes.
ReportData(r) ==
  /\ r \notin accepted \cup Forced
  /\ accepted' = accepted \cup {r}
  /\ IF Len(batch) + 1 >= BatchLimit
     THEN /\ Flush(Append(batch, r))
          /\ UNCHANGED arming
     ELSE /\ batch' = Append(batch, r)
          /\ arming' = TRUE
          /\ UNCHANGED <<posts, queue, net>>
  /\ UNCHANGED <<armed, files, filterSet, kills, history>>

\* forceReportData: posted at once, or saved where there is no network.
ForceReportData(r) ==
  /\ r \in Forced \ accepted
  /\ accepted' = accepted \cup {r}
  /\ IF net # "none"
     THEN /\ posts' = posts \cup {NewPost({r}, TRUE, FALSE)}
          /\ UNCHANGED queue
     ELSE /\ queue' = [queue EXCEPT ![TRUE] = Append(@, Save({r}))]
          /\ UNCHANGED posts
  /\ UNCHANGED <<memory, files, filterSet, net, kills, history>>

\* runOnMainThread puts the delayed flush off by another three minutes.
RunOnMainThread_OnlyCancels ==
  /\ arming
  /\ arming' = FALSE /\ armed' = FALSE
  /\ UNCHANGED <<batch, posts, disk, net, kills, accepted, history>>
RunOnMainThread ==
  /\ arming
  /\ arming' = FALSE /\ armed' = TRUE
  /\ UNCHANGED <<batch, posts, disk, net, kills, accepted, history>>

FlushTimeout_OnWifiOnly ==
  /\ armed
  /\ armed' = FALSE
  /\ IF batch # <<>> /\ net = "wifi"
     THEN Flush(batch) ELSE UNCHANGED <<batch, posts, queue, net>>
  /\ UNCHANGED <<arming, files, filterSet, kills, accepted, history>>
FlushTimeout ==
  /\ armed
  /\ armed' = FALSE
  /\ IF batch # <<>> THEN Flush(batch) ELSE UNCHANGED <<batch, posts, queue, net>>
  /\ UNCHANGED <<arming, files, filterSet, kills, accepted, history>>

-----------------------------------------------------------------------------
(* The network, and the answers.                                            *)

\* The server receives a request.
Arrive(p) ==
  /\ p \in posts /\ ~p.arrived
  /\ posts' = (posts \ {p}) \cup {[p EXCEPT !.arrived = TRUE]}
  /\ received' = received \cup p.data
  /\ doubled' = doubled \cup ((p.data \cap received) \ doubted)
  /\ UNCHANGED <<memory, disk, net, kills, accepted, abandoned, doubted>>

\* onSuccess: a cache file is removed by its folder's queue; after any other
\* post, the folders are looked through.
AfterSuccess(p) ==
  IF p.cached
  THEN [queue EXCEPT ![p.force] = Append(@, Remove(p.data))]
  ELSE [force \in BOOLEAN |->
          IF force \/ ~p.force THEN Append(queue[force], Check) ELSE queue[force]]
OnSuccess(p) ==
  /\ p \in posts /\ p.arrived
  /\ posts' = posts \ {p}
  /\ queue' = AfterSuccess(p)
  /\ UNCHANGED <<memory, files, filterSet, net, kills, accepted, history>>

\* onFail: no answer, or one that is not understood, whether or not the server
\* has the request.  The data is saved, but for a cache file, which is there.
AfterFail_NotSaved(p) == queue
AfterFail_SavedAgain(p) == [queue EXCEPT ![p.force] = Append(@, Save(p.data))]
AfterFail(p) ==
  IF p.cached THEN queue
  ELSE [queue EXCEPT ![p.force] = Append(@, Save(p.data))]
OnFail(p) ==
  /\ p \in posts
  /\ posts' = posts \ {p}
  /\ queue' = AfterFail(p)
  /\ doubted' = IF p.arrived THEN doubted \cup p.data ELSE doubted
  /\ UNCHANGED <<memory, files, filterSet, net, kills, accepted, received, abandoned, doubled>>

NetChange(n) ==
  /\ net # n /\ net' = n
  /\ UNCHANGED <<memory, posts, disk, kills, accepted, history>>

-----------------------------------------------------------------------------
(* The operations of a folder's queue.                                      *)

\* saveDataCache; the result of createFileAtPath is not looked at.
RunSave(force) ==
  /\ queue[force] # <<>> /\ Head(queue[force]).kind = "save"
  /\ queue' = [queue EXCEPT ![force] = Tail(@)]
  /\ \/ /\ files' = [files EXCEPT ![force] = @ \cup {Head(queue[force]).data}]
        /\ UNCHANGED abandoned
     \/ /\ abandoned' = abandoned \cup Head(queue[force]).data
        /\ UNCHANGED files
  /\ UNCHANGED <<memory, posts, filterSet, net, kills, accepted, received, doubted, doubled>>

\* The files checkCacheFiles posts, those it removed for their age aside.
Unfiltered_All(force) == files[force]
Unfiltered(force) == files[force] \ filterSet[force]

\* checkCacheFiles.  The network may go while its loop runs: the rest is left.
RunCheck(force) ==
  /\ queue[force] # <<>> /\ Head(queue[force]).kind = "check"
  /\ queue' = [queue EXCEPT ![force] = Tail(@)]
  /\ IF ~CanReport(force, net)
     THEN UNCHANGED <<files, filterSet, posts, net, abandoned>>
     ELSE \E old \in SUBSET files[force] :
          \E sent \in SUBSET (Unfiltered(force) \ old), n \in Net :
            /\ IF CanReport(force, n) THEN n = net /\ sent = Unfiltered(force) \ old
                                      ELSE TRUE
            /\ net' = n
            /\ files' = [files EXCEPT ![force] = @ \ old]
            /\ filterSet' = [filterSet EXCEPT ![force] = @ \cup sent]
            /\ posts' = posts \cup {NewPost(data, force, TRUE) : data \in sent}
            /\ abandoned' = abandoned \cup UNION old
  /\ UNCHANGED <<memory, kills, accepted, received, doubted, doubled>>

\* The operation the success of a cache file's post has queued.
RunRemove(force) ==
  /\ queue[force] # <<>> /\ Head(queue[force]).kind = "remove"
  /\ queue' = [queue EXCEPT ![force] = Tail(@)]
  /\ files' = [files EXCEPT ![force] = @ \ {Head(queue[force]).data}]
  /\ filterSet' = [filterSet EXCEPT ![force] = @ \ {Head(queue[force]).data}]
  /\ UNCHANGED <<memory, posts, net, kills, accepted, history>>

-----------------------------------------------------------------------------
\* The process dies, and a new one starts: only the files are left.
Kill ==
  /\ kills < MaxKills
  /\ kills' = kills + 1
  /\ batch' = <<>> /\ arming' = FALSE /\ armed' = FALSE
  /\ posts' = {}
  /\ queue' = [force \in BOOLEAN |-> <<>>]
  /\ filterSet' = [force \in BOOLEAN |-> {}]
  /\ abandoned' = abandoned \cup (Held \ OnDisk)
  /\ doubted' = doubted \cup received
  /\ UNCHANGED <<files, net, accepted, received, doubled>>

Init ==
  /\ batch = <<>> /\ arming = FALSE /\ armed = FALSE
  /\ posts = {}
  /\ queue = [force \in BOOLEAN |-> <<>>]
  /\ files = [force \in BOOLEAN |-> {}]
  /\ filterSet = [force \in BOOLEAN |-> {}]
  /\ net \in Net
  /\ kills = 0
  /\ accepted = {} /\ received = {} /\ abandoned = {}
  /\ doubted = {} /\ doubled = {}

Next ==
  \/ \E r \in Reports : ReportData(r) \/ ForceReportData(r)
  \/ RunOnMainThread \/ FlushTimeout
  \/ \E p \in posts : Arrive(p) \/ OnSuccess(p) \/ OnFail(p)
  \/ \E n \in Net : NetChange(n)
  \/ \E force \in BOOLEAN : RunSave(force) \/ RunCheck(force) \/ RunRemove(force)
  \/ Kill

Spec == Init /\ [][Next]_vars

\* While the process lives its run loop and its queues go on, and the session
\* answers every request, at the latest with a timeout.
Fairness ==
  /\ WF_vars(RunOnMainThread) /\ WF_vars(FlushTimeout)
  /\ WF_vars(\E p \in posts : OnSuccess(p) \/ OnFail(p))
  /\ \A force \in BOOLEAN :
       WF_vars(RunSave(force) \/ RunCheck(force) \/ RunRemove(force))

FairSpec == Spec /\ Fairness

-----------------------------------------------------------------------------
(* Properties.                                                              *)

\* Every variable stays in its range; in particular no post, save or cache
\* file is ever without a report, however the records fill the buffers.
TypeOK ==
  /\ batch \in Seq(Reports) /\ arming \in BOOLEAN /\ armed \in BOOLEAN
  /\ posts \subseteq Post
  /\ queue \in [BOOLEAN -> Seq(Operation)]
  /\ files \in [BOOLEAN -> SUBSET Data]
  /\ filterSet \in [BOOLEAN -> SUBSET Data]
  /\ net \in Net /\ kills \in Nat
  /\ accepted \subseteq Reports /\ received \subseteq Reports
  /\ abandoned \subseteq Reports
  /\ doubted \subseteq Reports /\ doubled \subseteq Reports

\* The reporter implements ReportDelivery: through batches, posts, failures,
\* cache files and restarts, no copy of a report is let go before the server
\* has it, but with the process, by age, or by a full disk.
Delivery == INSTANCE ReportDelivery WITH held <- Held
Implements == Delivery!Spec

\* A report is in one place at a time: the array, a post of its own, a save to
\* come, or one cache file.  A second place would be a second delivery, or a
\* file nothing removes.
SavesOf(r, force) ==
  {i \in DOMAIN queue[force] :
     queue[force][i].kind = "save" /\ r \in queue[force][i].data}
FilesOf(r, force) == {data \in files[force] : r \in data}
OnePlace ==
  \A r \in Reports :
    Cardinality({i \in DOMAIN batch : batch[i] = r})
      + Cardinality({p \in posts : ~p.cached /\ r \in p.data})
      + Cardinality(SavesOf(r, TRUE)) + Cardinality(SavesOf(r, FALSE))
      + Cardinality(FilesOf(r, TRUE)) + Cardinality(FilesOf(r, FALSE)) <= 1

\* The server receives a report twice only where the process could not know
\* that the first time had succeeded: a failed answer, or its own death.  The
\* set of files being reported and the order of the queue's operations keep
\* every check from posting a file that is on its way or delivered.
DoubledOnlyInDoubt == doubled = {}

\* A report never sits in memory without a call that will flush it.
BatchTimed == batch # <<>> => arming \/ armed

\* A report leaves memory, for the server or for the disk.
LeavesMemory == \A r \in Reports : r \in Volatile ~> r \notin Volatile

-----------------------------------------------------------------------------
(* What a comment of the code says, and the code does not keep.             *)

\* kinfoc_cachefile_mgr.m:175 says of a file in the set that it is being
\* reported: it has a post without an answer, or its removal is queued.
FilteredIsReporting ==
  \A force \in BOOLEAN : \A data \in filterSet[force] :
    \/ \E p \in posts : p.cached /\ p.force = force /\ p.data = data
    \/ \E i \in DOMAIN queue[force] : queue[force][i] = Remove(data)
=============================================================================
