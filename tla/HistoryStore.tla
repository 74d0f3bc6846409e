---------------------------- MODULE HistoryStore ----------------------------
(***************************************************************************)
(* The user's own dictionary and its file: UserHistoryDictionary over       *)
(* CMExpandableBinaryDictionary, its CMBinaryDictionary, and the C++ that   *)
(* writes the directory (Ver4DictBuffers).                                  *)
(*                                                                         *)
(* A dictionary object has a serial queue; learning and reloading are       *)
(* blocks on it, a lookup waits for one.  Saving is not: it runs on the     *)
(* thread that asks for it, beside the queue, and it is several steps on    *)
(* the disk.  An object that is let go saves once more while it is freed,   *)
(* and the next object of the same file may be there already.  The process  *)
(* may be killed between any two steps (Kill); the files stay.              *)
(*                                                                         *)
(* A dictionary holds a set of words.  A garbage collection keeps them all  *)
(* here: the counts by which it drops some are left out.  Of the header     *)
(* and the body of a directory only their presence is told apart, and the   *)
(* body is written where its file is opened: a later write goes to the same *)
(* file, wherever it is by then.  Files of the older format 402 are left    *)
(* out, and so is needsToRecreate, which nothing sets.                      *)
(*                                                                         *)
(* An operator named X_Flaw is X with a plausible slip of the code; the     *)
(* properties are tried against it in X's place.                            *)
(***************************************************************************)
EXTENDS Integers, Sequences, FiniteSets

CONSTANTS
  Words,     \* words the user types
  Dicts,     \* dictionary objects of one file
  None,      \* no dictionary object, no word
  MaxQueue   \* bound on the blocks that wait in a serial queue

ASSUME StoreAssumption ==
  None \notin Dicts \cup Words /\ MaxQueue \in Nat \ {0}

VARIABLES
  dict, tmp,  \* the dictionary's directory, and the one a flush fills
  group,      \* the object in the facilitator's dictionaryGroup
  alive,      \* objects that are not being freed and not free
  exists,     \* for each object, _dircExists
  bin,        \* for each object, mBinaryDictionary
  queue,      \* for each object, the blocks of its serial queue
  lookup,     \* for each object, where the lookup in it stands
  flush,      \* for each object, where the flush of it stands
  main,       \* where the main thread stands in learning or unlearning
  (* history, read by properties only *)
  asked,      \* the words the user taught and did not unlearn
  saved,      \* the words of the last flush, but for those removed since
  troubles    \* what happened that may lose words

disk == <<dict, tmp>>
object == <<group, alive, exists>>
threads == <<lookup, flush, main>>
history == <<asked, saved, troubles>>
vars == <<disk, object, bin, queue, threads, history>>

-----------------------------------------------------------------------------
Directory == [there : BOOLEAN, header : BOOLEAN, body : BOOLEAN, words : SUBSET Words]
NoDirectory == [there |-> FALSE, header |-> FALSE, body |-> FALSE, words |-> {}]
NewDirectory == [there |-> TRUE, header |-> FALSE, body |-> FALSE, words |-> {}]

\* historyFileExist
Complete(dir) == dir.there /\ dir.header /\ dir.body
Content(dir) == IF Complete(dir) THEN dir.words ELSE {}

\* mBinaryDictionary: nil, an object without a native dictionary, or open.
Binary == [state : {"nil", "deaf", "open"}, words : SUBSET Words,
           updated : BOOLEAN, corrupted : BOOLEAN]
JustMade(state, words) ==
  [state |-> state, words |-> words, updated |-> FALSE, corrupted |-> FALSE]
Nil == JustMade("nil", {})
OpenWith(words) == JustMade("open", words)
\* newPolicyForExistingDictFile
Opened(dir) == IF Complete(dir) THEN OpenWith(dir.words) ELSE JustMade("deaf", {})

Update(w) == [kind |-> "update", word |-> w]
Unlearn(w) == [kind |-> "unlearn", word |-> w]
Plain(kind) == [kind |-> kind, word |-> None]
Block == [kind : {"update", "unlearn"}, word : Words]
           \cup [kind : {"reload", "read", "discard"}, word : {None}]

Steps == {"mkdir", "header", "body", "remove", "rename", "reopen"}
\* stale: the object flushed is not mBinaryDictionary any more; fixed: the
\* words to write are those of image, taken by a garbage collection or left by
\* an object that was closed under the flush.
Flush == [at : Steps \cup {"idle"}, main : BOOLEAN, stale : BOOLEAN,
          fixed : BOOLEAN, image : SUBSET Words]
NoFlush == [at |-> "idle", main |-> FALSE, stale |-> FALSE, fixed |-> FALSE, image |-> {}]

NoErrand == [at |-> "idle", word |-> None]

Flushing(d) == flush[d].at # "idle"
MainIdle == main.at = "idle" /\ \A d \in Dicts : ~(Flushing(d) /\ flush[d].main)

\* Blocks that hold the object, and the lookup that does.
Retained_NotByLookup(d) ==
  \E i \in DOMAIN queue[d] : queue[d][i].kind \in {"update", "unlearn"}
Retained(d) ==
  \/ lookup[d] # "idle"
  \/ \E i \in DOMAIN queue[d] : queue[d][i].kind \in {"update", "unlearn"}

Enqueue(d, block) ==
  /\ Len(queue[d]) < MaxQueue
  /\ queue' = [queue EXCEPT ![d] = Append(@, block)]

-----------------------------------------------------------------------------
(* Saving.                                                                  *)

\* flushBinaryDictionary, up to its first step on the disk.
NeedsFlush(d, gc) == bin[d].state = "open" /\ (gc \/ bin[d].updated)
FlushOf(d, gc, onMain) ==
  [at |-> "mkdir", main |-> onMain, stale |-> FALSE, fixed |-> gc,
   image |-> IF gc THEN bin[d].words ELSE {}]

\* The end of a flush, and of an object that is being freed.
Finish(d, binary) ==
  /\ flush' = [flush EXCEPT ![d] = NoFlush]
  /\ bin' = [bin EXCEPT ![d] = IF d \in alive THEN binary ELSE Nil]

\* A step that fails ends the flush, and the structure counts as corrupted.
AfterFailure(d) ==
  IF flush[d].stale \/ bin[d].state # "open" THEN bin[d]
  ELSE [bin[d] EXCEPT !.corrupted = TRUE]
Fail(d) == Finish(d, AfterFailure(d))

Step(d, from, to) ==
  /\ flush[d].at = from
  /\ flush' = [flush EXCEPT ![d].at = to]
  /\ UNCHANGED bin

MakeTmp_RemovesDict(d) ==
  /\ Step(d, "mkdir", "header")
  /\ tmp' = NewDirectory
  /\ dict' = NoDirectory
  /\ UNCHANGED <<object, queue, lookup, main, history>>
MakeTmp(d) ==
  /\ Step(d, "mkdir", "header")
  /\ tmp' = NewDirectory
  /\ UNCHANGED <<dict, object, queue, lookup, main, history>>

WriteHeader(d) ==
  /\ flush[d].at = "header"
  /\ IF tmp.there /\ ~tmp.header
     THEN Step(d, "header", "body") /\ tmp' = [tmp EXCEPT !.header = TRUE]
     ELSE Fail(d) /\ UNCHANGED tmp
  /\ UNCHANGED <<dict, object, queue, lookup, main, history>>

Image_OnlyCollected(d) == flush[d].image
Image(d) == IF flush[d].fixed THEN flush[d].image ELSE bin[d].words
WriteBody(d) ==
  /\ flush[d].at = "body"
  /\ IF tmp.there /\ ~tmp.body
     THEN /\ Step(d, "body", "remove")
          /\ tmp' = [tmp EXCEPT !.body = TRUE, !.words = Image(d)]
     ELSE Fail(d) /\ UNCHANGED tmp
  /\ UNCHANGED <<dict, object, queue, lookup, main, history>>

RemoveDict(d) ==
  /\ Step(d, "remove", "rename")
  /\ dict' = NoDirectory
  /\ UNCHANGED <<tmp, object, queue, lookup, main, history>>

Rename(d) ==
  /\ flush[d].at = "rename"
  /\ IF tmp.there /\ ~dict.there
     THEN /\ Step(d, "rename", "reopen")
          /\ dict' = tmp /\ tmp' = NoDirectory
          /\ saved' = Content(tmp)
     ELSE Fail(d) /\ UNCHANGED <<disk, saved>>
  /\ UNCHANGED <<object, queue, lookup, main, asked, troubles>>

\* reOpen
Reopen(d) ==
  /\ flush[d].at = "reopen"
  /\ Finish(d, IF flush[d].stale THEN bin[d] ELSE Opened(dict))
  /\ UNCHANGED <<disk, object, queue, lookup, main, history>>

\* A write, a removal or a rename fails.  Of a directory that is removed file
\* by file, one may be left.
DiskFails(d) ==
  /\ Flushing(d) /\ flush[d].at # "reopen"
  /\ Fail(d)
  /\ IF flush[d].at = "remove"
     THEN dict' \in {dict, [dict EXCEPT !.header = FALSE], [dict EXCEPT !.body = FALSE]}
     ELSE UNCHANGED dict
  /\ troubles' = troubles \cup {"failed"}
  /\ UNCHANGED <<tmp, object, queue, lookup, main, asked, saved>>

\* saveToUserHistoryDictionary, on the main thread.
Save(d, gc) ==
  /\ MainIdle /\ group = d /\ NeedsFlush(d, gc)
  /\ flush' = [flush EXCEPT ![d] = FlushOf(d, gc, TRUE)]
  /\ UNCHANGED <<disk, object, bin, queue, lookup, main, history>>

-----------------------------------------------------------------------------
(* The life of an object.                                                   *)

InUse(d) == d \in alive \/ Flushing(d)

\* resetDictionariesWithLanguageType, on the main thread or by a lookup that
\* finds no dictionaries.  reset finds the directory, or not, at this moment.
Create(d) ==
  /\ group = None /\ ~InUse(d) /\ queue[d] = <<>>
  /\ group' = d
  /\ alive' = alive \cup {d}
  /\ exists' = [exists EXCEPT ![d] = Complete(dict)]
  /\ queue' = [queue EXCEPT ![d] = <<Plain("reload")>>]
  /\ troubles' = IF \E e \in Dicts : InUse(e) THEN troubles \cup {"overlap"} ELSE troubles
  /\ UNCHANGED <<disk, bin, threads, asked, saved>>

\* dealloc: one more flush, on the thread that held the last reference.
Dealloc_NoFlush(d, gc, onMain) ==
  /\ alive' = alive \ {d}
  /\ bin' = [bin EXCEPT ![d] = Nil]
  /\ UNCHANGED flush
Dealloc(d, gc, onMain) ==
  /\ alive' = alive \ {d}
  /\ IF NeedsFlush(d, gc)
     THEN flush' = [flush EXCEPT ![d] = FlushOf(d, gc, onMain)] /\ UNCHANGED bin
     ELSE bin' = [bin EXCEPT ![d] = Nil] /\ UNCHANGED flush

\* removeAllObjects, by a reset or by a memory warning.
Release(d, gc) ==
  /\ MainIdle /\ group = d
  /\ group' = None
  /\ IF Retained(d) THEN UNCHANGED <<alive, bin, flush>> ELSE Dealloc(d, gc, TRUE)
  /\ UNCHANGED <<disk, exists, queue, lookup, main, history>>

\* The last block, or the lookup, that held a released object is over.
LastReference(d, gc) ==
  /\ d \in alive /\ group # d /\ ~Retained(d)
  /\ Dealloc(d, gc, FALSE)
  /\ UNCHANGED <<disk, group, exists, queue, lookup, main, history>>

-----------------------------------------------------------------------------
(* Learning and unlearning, on the main thread.                             *)

\* frequencyWithWord waits for the serial queue; then the word is handed over.
Learn(d, w) ==
  /\ MainIdle /\ group = d /\ queue[d] = <<>>
  /\ main' = [at |-> "learn", word |-> w]
  /\ UNCHANGED <<disk, object, bin, queue, lookup, flush, history>>

LearnQueue(d, w) ==
  /\ main = [at |-> "learn", word |-> w] /\ group = d
  /\ Enqueue(d, Update(w))
  /\ main' = NoErrand
  /\ asked' = asked \cup {w}
  /\ UNCHANGED <<disk, object, bin, lookup, flush, saved, troubles>>

\* removeUnigramEntryDynamically: reloadDictionaryIfRequired, then the block.
Unlearning(d, w) ==
  /\ MainIdle /\ group = d
  /\ main' = [at |-> IF bin[d].state = "nil" THEN "reload" ELSE "unlearn", word |-> w]
  /\ UNCHANGED <<disk, object, bin, queue, lookup, flush, history>>

UnlearnReload(d) ==
  /\ main.at = "reload" /\ group = d
  /\ Enqueue(d, Plain("reload"))
  /\ main' = [main EXCEPT !.at = "unlearn"]
  /\ UNCHANGED <<disk, object, bin, lookup, flush, history>>

UnlearnQueue(d, w) ==
  /\ main = [at |-> "unlearn", word |-> w] /\ group = d
  /\ Enqueue(d, Unlearn(w))
  /\ main' = NoErrand
  /\ asked' = asked \ {w}
  /\ UNCHANGED <<disk, object, bin, lookup, flush, saved, troubles>>

-----------------------------------------------------------------------------
(* A lookup, on the operation queue and under the facilitator's semaphore.  *)

Lookup(d) ==
  /\ group = d /\ lookup[d] = "idle"
  /\ lookup' = [lookup EXCEPT ![d] = IF bin[d].state = "nil" THEN "reload" ELSE "call"]
  /\ UNCHANGED <<disk, object, bin, queue, flush, main, history>>

LookupReload(d) ==
  /\ lookup[d] = "reload"
  /\ Enqueue(d, Plain("reload"))
  /\ lookup' = [lookup EXCEPT ![d] = "call"]
  /\ UNCHANGED <<disk, object, bin, flush, main, history>>

\* dispatch_sync: the lookup waits for its block.
LookupCall(d) ==
  /\ lookup[d] = "call"
  /\ Enqueue(d, Plain("read"))
  /\ lookup' = [lookup EXCEPT ![d] = "wait"]
  /\ UNCHANGED <<disk, object, bin, flush, main, history>>

-----------------------------------------------------------------------------
(* The blocks of the serial queue, one at a time.                           *)

HeadIs(d, kind) ==
  /\ d \in alive /\ queue[d] # <<>> /\ Head(queue[d]).kind = kind

\* What a block does to mBinaryDictionary while a flush of it goes on beside.
Race(d) == IF Flushing(d) THEN troubles \cup {"raced"} ELSE troubles

RunUpdate(d) ==
  /\ HeadIs(d, "update")
  /\ queue' = [queue EXCEPT ![d] = Tail(@)]
  /\ IF bin[d].state = "open"
     THEN /\ bin' = [bin EXCEPT ![d].words = @ \cup {Head(queue[d]).word},
                                ![d].updated = TRUE]
          /\ troubles' = Race(d)
     ELSE UNCHANGED <<bin, troubles>>
  /\ UNCHANGED <<disk, object, threads, asked, saved>>

RunUnlearn(d) ==
  /\ HeadIs(d, "unlearn")
  /\ queue' = [queue EXCEPT ![d] = Tail(@)]
  /\ IF bin[d].state = "open" /\ Head(queue[d]).word \in bin[d].words
     THEN /\ bin' = [bin EXCEPT ![d].words = @ \ {Head(queue[d]).word},
                                ![d].updated = TRUE]
          /\ troubles' = Race(d)
          /\ saved' = saved \ {Head(queue[d]).word}
     ELSE UNCHANGED <<bin, saved, troubles>>
  /\ UNCHANGED <<disk, object, threads, asked>>

\* A flush of the object that was mBinaryDictionary goes on with what it had.
Orphaned(d) ==
  IF Flushing(d) /\ ~flush[d].stale
  THEN [flush EXCEPT ![d].stale = TRUE, ![d].fixed = TRUE, ![d].image = Image(d)]
  ELSE flush

\* removeBinaryDictionaryLocked, with what takes the place of the object.
Replace(d, binary) ==
  /\ dict' = NoDirectory
  /\ bin' = [bin EXCEPT ![d] = binary]
  /\ flush' = Orphaned(d)

\* asyncReloadDictionary: createNewDictionaryLocked where the directory did
\* not exist when the object was made, or does not load.
Reload_NotWhenUnreadable(d) ==
  IF ~exists[d]
  THEN Replace(d, OpenWith({}))
  ELSE /\ UNCHANGED <<dict, flush>>
       /\ bin' = IF bin[d].state = "nil" THEN [bin EXCEPT ![d] = Opened(dict)] ELSE bin
Reload(d) ==
  IF ~exists[d] \/ (bin[d].state = "nil" /\ ~Complete(dict))
  THEN Replace(d, OpenWith({}))
  ELSE /\ UNCHANGED <<dict, flush>>
       /\ bin' = IF bin[d].state = "nil" THEN [bin EXCEPT ![d] = Opened(dict)] ELSE bin
RunReload(d) ==
  /\ HeadIs(d, "reload")
  /\ queue' = [queue EXCEPT ![d] = Tail(@)]
  /\ Reload(d)
  /\ troubles' = Race(d) \cup (IF bin[d].state # "nil" /\ ~exists[d] THEN {"reloaded"} ELSE {})
  /\ UNCHANGED <<tmp, object, lookup, main, asked, saved>>

\* The lookup's block: it asks for the removal of a corrupted dictionary.
RunRead(d) ==
  /\ HeadIs(d, "read")
  /\ queue' = [queue EXCEPT ![d] =
                 IF bin[d].corrupted THEN Append(Tail(@), Plain("discard")) ELSE Tail(@)]
  /\ lookup' = [lookup EXCEPT ![d] = "idle"]
  /\ UNCHANGED <<disk, object, bin, flush, main, history>>

RunDiscard(d) ==
  /\ HeadIs(d, "discard")
  /\ queue' = [queue EXCEPT ![d] = Tail(@)]
  /\ Replace(d, Nil)
  /\ troubles' = Race(d)
  /\ UNCHANGED <<tmp, object, lookup, main, asked, saved>>

-----------------------------------------------------------------------------
(* The end of the process.                                                  *)

\* The next process starts from what is on the disk.
Death ==
  /\ group' = None /\ alive' = {}
  /\ bin' = [d \in Dicts |-> Nil]
  /\ queue' = [d \in Dicts |-> <<>>]
  /\ lookup' = [d \in Dicts |-> "idle"]
  /\ flush' = [d \in Dicts |-> NoFlush]
  /\ main' = NoErrand
  /\ asked' = Content(dict)
  /\ troubles' = IF \E d \in Dicts : flush[d].at = "rename"
                 THEN troubles \cup {"cut"} ELSE troubles
  /\ UNCHANGED <<disk, exists, saved>>

Kill == Death

\* A block that holds a freed object weakly: the reload reads an instance
\* variable of nil and ends the process; the others do nothing.
RunWeak(d) ==
  /\ d \notin alive /\ queue[d] # <<>>
  /\ IF Head(queue[d]).kind = "reload"
     THEN Death
     ELSE /\ queue' = [queue EXCEPT ![d] = Tail(@)]
          /\ UNCHANGED <<disk, object, bin, threads, history>>

-----------------------------------------------------------------------------
Init ==
  /\ dict = NoDirectory /\ tmp = NoDirectory
  /\ group = None /\ alive = {}
  /\ exists = [d \in Dicts |-> FALSE]
  /\ bin = [d \in Dicts |-> Nil]
  /\ queue = [d \in Dicts |-> <<>>]
  /\ lookup = [d \in Dicts |-> "idle"]
  /\ flush = [d \in Dicts |-> NoFlush]
  /\ main = NoErrand
  /\ asked = {} /\ saved = {} /\ troubles = {}

FlushStep(d) ==
  MakeTmp(d) \/ WriteHeader(d) \/ WriteBody(d) \/ RemoveDict(d) \/ Rename(d) \/ Reopen(d)

RunBlock(d) ==
  RunUpdate(d) \/ RunUnlearn(d) \/ RunReload(d) \/ RunRead(d) \/ RunDiscard(d)

Next ==
  \/ \E d \in Dicts :
       \/ FlushStep(d) \/ DiskFails(d)
       \/ Create(d)
       \/ \E gc \in BOOLEAN : Save(d, gc) \/ Release(d, gc) \/ LastReference(d, gc)
       \/ \E w \in Words :
            Learn(d, w) \/ LearnQueue(d, w) \/ Unlearning(d, w) \/ UnlearnQueue(d, w)
       \/ UnlearnReload(d)
       \/ Lookup(d) \/ LookupReload(d) \/ LookupCall(d)
       \/ RunBlock(d) \/ RunWeak(d)
  \/ Kill

Spec == Init /\ [][Next]_vars

-----------------------------------------------------------------------------
(* Properties.                                                              *)

TroubleKinds == {"overlap", "failed", "raced", "reloaded", "cut"}
Without(kinds) == troubles \cap kinds = {}

\* Every variable stays in its range.
TypeOK ==
  /\ dict \in Directory /\ tmp \in Directory
  /\ group \in Dicts \cup {None} /\ alive \subseteq Dicts
  /\ exists \in [Dicts -> BOOLEAN]
  /\ bin \in [Dicts -> Binary]
  /\ queue \in [Dicts -> Seq(Block)]
  /\ lookup \in [Dicts -> {"idle", "reload", "call", "wait"}]
  /\ flush \in [Dicts -> Flush]
  /\ main \in [at : {"idle", "learn", "reload", "unlearn"}, word : Words \cup {None}]
  /\ asked \subseteq Words /\ saved \subseteq Words /\ troubles \subseteq TroubleKinds

\* Whether words h will have w in them after the blocks of q: the last one about
\* w says so.
Chores(q, w) == {i \in DOMAIN q : q[i].word = w}
Will(q, h, w) ==
  IF Chores(q, w) = {} THEN w \in h
  ELSE \E i \in Chores(q, w) :
         q[i].kind = "update" /\ \A j \in Chores(q, w) : j <= i
Held(d) == IF bin[d].state = "nil" THEN Content(dict) ELSE bin[d].words

\* Where no two objects overlapped, no disk failed, no block ran beside a
\* flush and no second reload was queued, the dictionary knows what the user
\* taught it since the process started, no more and no less: through saves,
\* resets, memory warnings and the flush of the object that is freed.
KnowsWhatWasTaught ==
  Without({"overlap", "failed", "raced", "reloaded"}) =>
    /\ \A d \in Dicts : InUse(d) => \A w \in Words : w \in asked <=> Will(queue[d], Held(d), w)
    /\ (\A d \in Dicts : ~InUse(d)) => asked = Content(dict)

\* What a flush saved stays on the disk, in the directory or, between its
\* removal and the rename, in the temporary one: whenever the process is
\* killed, but for that moment, and through all races of saving and learning.
OnDisk == IF Complete(dict) THEN dict.words ELSE Content(tmp)
SavedStays ==
  Without({"overlap", "failed", "reloaded", "cut"}) => saved \subseteq OnDisk

\* Only where two objects of the file overlapped can one be left with a
\* dictionary that takes no word, looks like one, and is never reloaded.
DeafOnlyAfterOverlap ==
  (\E d \in Dicts : bin[d].state = "deaf") => "overlap" \in troubles

\* A lookup holds the facilitator's semaphore and waits for its block; the block
\* is there, and the object that will run it is not freed under it.
LookupAnswered ==
  \A d \in Dicts :
    lookup[d] = "wait" => d \in alive /\ \E i \in DOMAIN queue[d] : queue[d][i].kind = "read"

\* Seen from outside, a word changes in the dictionary only while an order about
\* it waits, and ends as it was taught; and what a new process will find changes
\* at one moment only, when the old directory is removed, from the words of the
\* last flush to all those of this one.
Known ==
  LET loaded == {d \in Dicts : bin[d].state # "nil"}
  IN  IF loaded = {} THEN Content(dict) ELSE UNION {bin[d].words : d \in loaded}
Waiting == {w \in Words : \E d \in Dicts : Chores(queue[d], w) # {}}
Kept == IF \E d \in Dicts : flush[d].at = "rename" THEN Content(tmp) ELSE Content(dict)
Store == INSTANCE WordStore WITH
           taught <- asked, waiting <- Waiting, known <- Known, kept <- Kept,
           fine <- troubles = {}
Implements == Store!Spec

-----------------------------------------------------------------------------
(* What a comment of the code says, and the code does not keep.             *)

\* CMExpandableBinaryDictionary.h:27 says that a flush writes what is in memory
\* to the dictionary file: when it is about to read the file again, every word
\* in memory is there.
FlushWritesMemory ==
  \A d \in Dicts :
    flush[d].at = "reopen" /\ ~flush[d].stale => bin[d].words \subseteq Content(dict)
=============================================================================
