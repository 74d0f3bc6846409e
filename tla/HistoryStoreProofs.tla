------------------------- MODULE HistoryStoreProofs -------------------------
(***************************************************************************)
(* Theorems about HistoryStore: what is taught is known, what is saved       *)
(* stays, what a flush writes is what memory holds, and the whole is a       *)
(* WordStore, but for the named troubles, for any words, objects and length *)
(* of the queues.                                                           *)
(***************************************************************************)
EXTENDS HistoryStore, SequenceTheorems, TLAPS

-----------------------------------------------------------------------------
(* Blocks of a queue.                                                       *)

\* The queue keeps its type when a block is added or taken away.
LEMMA QueueTypes ==
  ASSUME NEW q \in Seq(Block)
  PROVE  /\ \A b \in Block : Append(q, b) \in Seq(Block)
         /\ q # <<>> => Tail(q) \in Seq(Block) /\ Head(q) \in Block
         /\ <<>> \in Seq(Block)
OBVIOUS

\* Every block that is made is one.
LEMMA BlockTypes ==
  /\ \A w \in Words : Update(w) \in Block /\ Unlearn(w) \in Block
  /\ \A k \in {"reload", "read", "discard"} : Plain(k) \in Block
BY DEF Update, Unlearn, Plain, Block

\* The parts of the types.
LEMMA DirectoryTypes ==
  /\ NoDirectory \in Directory /\ NewDirectory \in Directory
  /\ \A d \in Directory : Content(d) \subseteq Words
  /\ \A d \in Directory : Complete(d) \in BOOLEAN
BY DEF NoDirectory, NewDirectory, Directory, Content, Complete

LEMMA BinaryTypes ==
  /\ Nil \in Binary
  /\ \A s \in SUBSET Words : OpenWith(s) \in Binary
  /\ \A d \in Directory : Opened(d) \in Binary
BY DEF Nil, OpenWith, Opened, JustMade, Directory, Binary

LEMMA FlushTypes ==
  /\ NoFlush \in Flush
  /\ TypeOK => \A d \in Dicts, gc, m \in BOOLEAN : FlushOf(d, gc, m) \in Flush
  /\ TypeOK => \A d \in Dicts : Image(d) \subseteq Words
BY DEF NoFlush, Flush, Steps, TypeOK, FlushOf, Image, Binary

\* The end of a flush, a failed one, and an object let go keep the types.
LEMMA FinishTypes ==
  ASSUME TypeOK, NEW d \in Dicts, NEW b \in Binary, Finish(d, b)
  PROVE  flush' \in [Dicts -> Flush] /\ bin' \in [Dicts -> Binary]
BY FlushTypes, BinaryTypes DEF TypeOK, Finish

\* Some fields of a flush or of a dictionary are changed.
LEMMA StepFieldTypes ==
  ASSUME TypeOK, NEW d \in Dicts, NEW t \in Steps
  PROVE  [flush EXCEPT ![d].at = t] \in [Dicts -> Flush]
<1>1. flush[d] \in Flush
  BY DEF TypeOK
<1>2. [flush[d] EXCEPT !.at = t] \in Flush
  BY <1>1 DEF Flush
<1>. QED  BY <1>2 DEF TypeOK

LEMMA OrphanFieldTypes ==
  ASSUME TypeOK, NEW d \in Dicts, NEW i \in SUBSET Words
  PROVE  [flush EXCEPT ![d].stale = TRUE, ![d].fixed = TRUE, ![d].image = i]
           \in [Dicts -> Flush]
<1>1. flush[d] \in Flush
  BY DEF TypeOK
<1>2. [flush[d] EXCEPT !.stale = TRUE, !.fixed = TRUE, !.image = i] \in Flush
  BY <1>1 DEF Flush
<1>. QED  BY <1>2 DEF TypeOK

LEMMA WordsFieldTypes ==
  ASSUME TypeOK, NEW d \in Dicts, NEW s \in SUBSET Words
  PROVE  [bin EXCEPT ![d].words = s, ![d].updated = TRUE] \in [Dicts -> Binary]
<1>1. bin[d] \in Binary
  BY DEF TypeOK
<1>2. [bin[d] EXCEPT !.words = s, !.updated = TRUE] \in Binary
  BY <1>1 DEF Binary
<1>. QED  BY <1>2 DEF TypeOK

LEMMA FailTypes ==
  ASSUME TypeOK, NEW d \in Dicts, Fail(d)
  PROVE  flush' \in [Dicts -> Flush] /\ bin' \in [Dicts -> Binary]
<1>1. AfterFailure(d) \in Binary
  BY DEF TypeOK, AfterFailure, Binary
<1>. QED  BY <1>1, FinishTypes DEF Fail

LEMMA DeallocTypes ==
  ASSUME TypeOK, NEW d \in Dicts, NEW gc \in BOOLEAN, NEW m \in BOOLEAN, Dealloc(d, gc, m)
  PROVE  /\ flush' \in [Dicts -> Flush] /\ bin' \in [Dicts -> Binary]
         /\ alive' \subseteq Dicts
<1>1. CASE NeedsFlush(d, gc)
  <2>1. FlushOf(d, gc, m) \in Flush
    BY FlushTypes
  <2>. QED  BY <1>1, <2>1 DEF TypeOK, Dealloc
<1>2. CASE ~NeedsFlush(d, gc)
  BY <1>2, BinaryTypes DEF TypeOK, Dealloc
<1>. QED  BY <1>1, <1>2

LEMMA ReplaceTypes ==
  ASSUME TypeOK, NEW d \in Dicts, NEW b \in Binary, Replace(d, b)
  PROVE  /\ flush' \in [Dicts -> Flush] /\ bin' \in [Dicts -> Binary]
         /\ dict' \in Directory
<1>1. Orphaned(d) \in [Dicts -> Flush]
  BY FlushTypes, OrphanFieldTypes DEF TypeOK, Orphaned
<1>. QED  BY <1>1, DirectoryTypes DEF TypeOK, Replace

\* A step of a flush keeps the types.
LEMMA FlushStepTypes ==
  ASSUME TypeOK, NEW d \in Dicts, FlushStep(d) \/ DiskFails(d)
  PROVE  TypeOK'
<1>. USE DEF TypeOK, object, history, disk
<1>0. \A f \in Steps, t \in Steps : Step(d, f, t) =>
         flush' \in [Dicts -> Flush] /\ bin' \in [Dicts -> Binary]
  BY StepFieldTypes DEF Step
<1>1. CASE MakeTmp(d)
  BY <1>0, <1>1, DirectoryTypes DEF MakeTmp, Steps
<1>2. CASE WriteHeader(d)
  <2>1. [tmp EXCEPT !.header = TRUE] \in Directory
    BY DEF Directory
  <2>. QED  BY <1>0, <1>2, <2>1, FailTypes DEF WriteHeader, Steps
<1>3. CASE WriteBody(d)
  <2>1. [tmp EXCEPT !.body = TRUE, !.words = Image(d)] \in Directory
    BY FlushTypes DEF Directory
  <2>. QED  BY <1>0, <1>3, <2>1, FailTypes DEF WriteBody, Steps
<1>4. CASE RemoveDict(d)
  BY <1>0, <1>4, DirectoryTypes DEF RemoveDict, Steps
<1>5. CASE Rename(d)
  BY <1>0, <1>5, DirectoryTypes, FailTypes DEF Rename, Steps
<1>6. CASE Reopen(d)
  <2>1. Opened(dict) \in Binary /\ bin[d] \in Binary
    BY BinaryTypes
  <2>2. flush' \in [Dicts -> Flush] /\ bin' \in [Dicts -> Binary]
    BY <1>6, <2>1, FinishTypes DEF Reopen
  <2>. QED  BY <1>6, <2>2 DEF Reopen
<1>7. CASE DiskFails(d)
  <2>1. dict' \in Directory
    <3>1. /\ [dict EXCEPT !.header = FALSE] \in Directory
          /\ [dict EXCEPT !.body = FALSE] \in Directory
      BY DEF Directory
    <3>. QED  BY <1>7, <3>1 DEF DiskFails
  <2>. QED  BY <1>7, <2>1, FailTypes DEF DiskFails, TroubleKinds
<1>. QED  BY <1>1, <1>2, <1>3, <1>4, <1>5, <1>6, <1>7 DEF FlushStep

\* So does a block of the serial queue.
LEMMA BlockStepTypes ==
  ASSUME TypeOK, NEW d \in Dicts, RunBlock(d)
  PROVE  TypeOK'
<1>. USE DEF TypeOK, object, threads, history, disk
<1>0. /\ queue[d] # <<>> /\ d \in alive
      /\ Tail(queue[d]) \in Seq(Block) /\ Head(queue[d]) \in Block
      /\ [queue EXCEPT ![d] = Tail(@)] \in [Dicts -> Seq(Block)]
  BY QueueTypes DEF RunBlock, RunUpdate, RunUnlearn, RunReload, RunRead, RunDiscard, HeadIs
<1>a. Race(d) \subseteq TroubleKinds
  BY DEF Race, TroubleKinds
<1>1. CASE RunUpdate(d)
  <2>1. Head(queue[d]).word \in Words
    BY <1>0, <1>1 DEF RunUpdate, HeadIs, Block
  <2>2. bin' \in [Dicts -> Binary]
    <3>1. bin[d].words \cup {Head(queue[d]).word} \in SUBSET Words
      BY <2>1 DEF Binary
    <3>2. [bin EXCEPT ![d].words = bin[d].words \cup {Head(queue[d]).word},
                      ![d].updated = TRUE] \in [Dicts -> Binary]
      BY <3>1, WordsFieldTypes
    <3>. QED  BY <1>1, <3>2 DEF RunUpdate
  <2>. QED  BY <1>0, <1>a, <1>1, <2>2 DEF RunUpdate
<1>2. CASE RunUnlearn(d)
  <2>1. bin' \in [Dicts -> Binary]
    <3>1. bin[d].words \ {Head(queue[d]).word} \in SUBSET Words
      BY DEF Binary
    <3>2. [bin EXCEPT ![d].words = bin[d].words \ {Head(queue[d]).word},
                      ![d].updated = TRUE] \in [Dicts -> Binary]
      BY <3>1, WordsFieldTypes
    <3>. QED  BY <1>2, <3>2 DEF RunUnlearn
  <2>. QED  BY <1>0, <1>a, <1>2, <2>1 DEF RunUnlearn
<1>3. CASE RunReload(d)
  <2>1. /\ flush' \in [Dicts -> Flush] /\ bin' \in [Dicts -> Binary]
        /\ dict' \in Directory
    <3>1. CASE Replace(d, OpenWith({}))
      BY <3>1, ReplaceTypes, BinaryTypes
    <3>2. CASE ~Replace(d, OpenWith({}))
      BY <1>3, <3>2, BinaryTypes DEF RunReload, Reload
    <3>. QED  BY <3>1, <3>2
  <2>2. troubles' \subseteq TroubleKinds
    BY <1>3, <1>a DEF RunReload, TroubleKinds
  <2>. QED  BY <1>0, <1>3, <2>1, <2>2 DEF RunReload
<1>4. CASE RunRead(d)
  <2>1. Append(Tail(queue[d]), Plain("discard")) \in Seq(Block)
    BY <1>0, QueueTypes, BlockTypes
  <2>. QED  BY <1>0, <1>4, <2>1 DEF RunRead
<1>5. CASE RunDiscard(d)
  BY <1>0, <1>a, <1>5, ReplaceTypes, BinaryTypes DEF RunDiscard
<1>. QED  BY <1>1, <1>2, <1>3, <1>4, <1>5 DEF RunBlock

\* The process dies: everything but the disk is as at the start.
LEMMA DeathTypes ==
  ASSUME TypeOK, Death
  PROVE  TypeOK'
<1>1. /\ bin' \in [Dicts -> Binary] /\ flush' \in [Dicts -> Flush]
      /\ queue' \in [Dicts -> Seq(Block)]
      /\ lookup' \in [Dicts -> {"idle", "reload", "call", "wait"}]
  BY BinaryTypes, FlushTypes DEF Death
<1>2. asked' \subseteq Words
  BY DirectoryTypes DEF TypeOK, Death
<1>3. troubles' \subseteq TroubleKinds
  BY DEF TypeOK, Death, TroubleKinds
<1>. QED  BY <1>1, <1>2, <1>3 DEF TypeOK, Death, NoErrand, disk

\* The remaining steps keep the types, by what they do to the queue.
LEMMA CallTypes ==
  ASSUME TypeOK, NEW d \in Dicts,
         \/ \E w \in Words :
              Learn(d, w) \/ LearnQueue(d, w) \/ Unlearning(d, w) \/ UnlearnQueue(d, w)
         \/ UnlearnReload(d)
         \/ Lookup(d) \/ LookupReload(d) \/ LookupCall(d)
  PROVE  TypeOK'
<1>. USE DEF TypeOK, disk, object, history, threads, NoErrand
<1>0. \A b \in Block : Enqueue(d, b) => queue' \in [Dicts -> Seq(Block)]
  BY QueueTypes DEF Enqueue
<1>1. ASSUME NEW w \in Words, Learn(d, w) \/ Unlearning(d, w) PROVE TypeOK'
  BY <1>1 DEF Learn, Unlearning
<1>2. ASSUME NEW w \in Words, LearnQueue(d, w) PROVE TypeOK'
  BY <1>0, <1>2, BlockTypes DEF LearnQueue
<1>3. ASSUME NEW w \in Words, UnlearnQueue(d, w) PROVE TypeOK'
  BY <1>0, <1>3, BlockTypes DEF UnlearnQueue
<1>4. CASE UnlearnReload(d)
  <2>1. main \in [at : {"idle", "learn", "reload", "unlearn"}, word : Words \cup {None}]
    OBVIOUS
  <2>2. [main EXCEPT !.at = "unlearn"]
          \in [at : {"idle", "learn", "reload", "unlearn"}, word : Words \cup {None}]
    BY <2>1
  <2>. QED  BY <1>0, <1>4, <2>2, BlockTypes DEF UnlearnReload
<1>5. CASE Lookup(d)
  BY <1>5 DEF Lookup
<1>6. CASE LookupReload(d)
  BY <1>0, <1>6, BlockTypes DEF LookupReload
<1>7. CASE LookupCall(d)
  BY <1>0, <1>7, BlockTypes DEF LookupCall
<1>. QED  BY <1>1, <1>2, <1>3, <1>4, <1>5, <1>6, <1>7

LEMMA LifeTypes ==
  ASSUME TypeOK, NEW d \in Dicts,
         \/ Create(d) \/ RunWeak(d)
         \/ \E gc \in BOOLEAN : Save(d, gc) \/ Release(d, gc) \/ LastReference(d, gc)
  PROVE  TypeOK'
<1>. USE DEF TypeOK, disk, object, history, threads
<1>1. CASE Create(d)
  <2>1. <<Plain("reload")>> \in Seq(Block)
    BY BlockTypes
  <2>2. queue' \in [Dicts -> Seq(Block)] /\ exists' \in [Dicts -> BOOLEAN]
    BY <1>1, <2>1, DirectoryTypes DEF Create
  <2>. QED  BY <1>1, <2>2 DEF Create, TroubleKinds
<1>2. CASE RunWeak(d)
  <2>1. CASE Death
    BY <2>1, DeathTypes
  <2>2. CASE ~Death
    <3>1. Tail(queue[d]) \in Seq(Block)
      BY <1>2, QueueTypes DEF RunWeak
    <3>2. queue' = [queue EXCEPT ![d] = Tail(@)]
          /\ UNCHANGED <<disk, object, bin, threads, history>>
      BY <1>2, <2>2 DEF RunWeak
    <3>. QED  BY <3>1, <3>2
  <2>. QED  BY <2>1, <2>2
<1>3. ASSUME NEW gc \in BOOLEAN, Save(d, gc) PROVE TypeOK'
  <2>1. FlushOf(d, gc, TRUE) \in Flush
    BY FlushTypes
  <2>2. flush' \in [Dicts -> Flush]
    BY <1>3, <2>1 DEF Save
  <2>. QED  BY <1>3, <2>2 DEF Save
<1>4. ASSUME NEW gc \in BOOLEAN, Release(d, gc) PROVE TypeOK'
  <2>1. CASE Dealloc(d, gc, TRUE)
    BY <1>4, <2>1, DeallocTypes DEF Release
  <2>2. CASE ~Dealloc(d, gc, TRUE)
    BY <1>4, <2>2 DEF Release
  <2>. QED  BY <2>1, <2>2
<1>5. ASSUME NEW gc \in BOOLEAN, LastReference(d, gc) PROVE TypeOK'
  BY <1>5, DeallocTypes DEF LastReference
<1>. QED  BY <1>1, <1>2, <1>3, <1>4, <1>5

\* Every variable of the store stays in its range.
THEOREM TypeCorrect == Spec => []TypeOK
<1>1. Init => TypeOK
  BY BinaryTypes, FlushTypes, QueueTypes, DirectoryTypes, StoreAssumption
  DEF Init, TypeOK, NoErrand, TroubleKinds
<1>2. TypeOK /\ [Next]_vars => TypeOK'
  <2>. SUFFICES ASSUME TypeOK, [Next]_vars PROVE TypeOK'
    OBVIOUS
  <2>1. CASE UNCHANGED vars
    BY <2>1 DEF TypeOK, vars, disk, object, threads, history
  <2>2. CASE Kill
    BY <2>2, DeathTypes DEF Kill
  <2>3. ASSUME NEW d \in Dicts, FlushStep(d) \/ DiskFails(d) PROVE TypeOK'
    BY <2>3, FlushStepTypes
  <2>4. ASSUME NEW d \in Dicts, RunBlock(d) PROVE TypeOK'
    BY <2>4, BlockStepTypes
  <2>5. ASSUME NEW d \in Dicts,
               \/ \E w \in Words :
                    Learn(d, w) \/ LearnQueue(d, w) \/ Unlearning(d, w) \/ UnlearnQueue(d, w)
               \/ UnlearnReload(d)
               \/ Lookup(d) \/ LookupReload(d) \/ LookupCall(d)
        PROVE  TypeOK'
    BY <2>5, CallTypes
  <2>6. ASSUME NEW d \in Dicts,
               \/ Create(d) \/ RunWeak(d)
               \/ \E gc \in BOOLEAN : Save(d, gc) \/ Release(d, gc) \/ LastReference(d, gc)
        PROVE  TypeOK'
    BY <2>6, LifeTypes
  <2>. QED  BY <2>1, <2>2, <2>3, <2>4, <2>5, <2>6 DEF Next
<1>. QED  BY <1>1, <1>2, PTL DEF Spec

-----------------------------------------------------------------------------
(* Objects: who is in use, and who flushes.                                 *)

\* An object in use is held by the facilitator, by a block or by a lookup, or
\* it is being freed.  Only saving flushes an object that is alive, and only
\* one that the facilitator holds; what is flushed is open, unless the object
\* was replaced meanwhile.
ShapeOf(d) ==
  /\ d \notin alive /\ ~Flushing(d) => bin[d] = Nil
  /\ d \in alive /\ Flushing(d) => group = d /\ flush[d].main
  /\ d \notin alive /\ Flushing(d) => ~flush[d].stale
  /\ Flushing(d) /\ ~flush[d].stale => bin[d].state = "open"
  /\ Retained(d) => d \in alive
Shape ==
  /\ group # None => group \in alive
  /\ \A d \in Dicts : ShapeOf(d)

\* Elements of a queue after a block came or went.
LEMMA AppendElements ==
  ASSUME NEW q \in Seq(Block), NEW b \in Block
  PROVE  /\ Len(Append(q, b)) = Len(q) + 1
         /\ \A i \in DOMAIN q : i \in DOMAIN Append(q, b) /\ Append(q, b)[i] = q[i]
         /\ Append(q, b)[Len(q) + 1] = b
         /\ \A i \in DOMAIN Append(q, b) : i \in DOMAIN q \/ i = Len(q) + 1
OBVIOUS

LEMMA TailElements ==
  ASSUME NEW q \in Seq(Block), q # <<>>
  PROVE  /\ Len(Tail(q)) = Len(q) - 1
         /\ \A i \in DOMAIN Tail(q) : i + 1 \in DOMAIN q /\ Tail(q)[i] = q[i + 1]
         /\ \A i \in DOMAIN q : i # 1 => i - 1 \in DOMAIN Tail(q)
         /\ Head(q) = q[1] /\ 1 \in DOMAIN q
OBVIOUS

\* A plain block holds nothing; one that went held no less than what is left.
LEMMA RetainedByTail ==
  ASSUME TypeOK, NEW d \in Dicts, queue[d] # <<>>,
         queue' = [queue EXCEPT ![d] = Tail(@)], lookup'[d] \in {lookup[d], "idle"},
         Retained(d)'
  PROVE  Retained(d)
<1>1. queue[d] \in Seq(Block)
  BY DEF TypeOK
<1>2. queue'[d] = Tail(queue[d])
  BY DEF TypeOK
<1>. QED  BY <1>1, <1>2, TailElements DEF Retained

LEMMA RetainedByPlain ==
  ASSUME TypeOK, NEW d \in Dicts, NEW k \in {"reload", "read", "discard"},
         Enqueue(d, Plain(k)), lookup[d] # "idle" \/ lookup'[d] = "idle",
         Retained(d)'
  PROVE  Retained(d)
<1>1. queue[d] \in Seq(Block) /\ Plain(k) \in Block
  BY BlockTypes DEF TypeOK
<1>2. queue'[d] = Append(queue[d], Plain(k))
  BY DEF TypeOK, Enqueue
<1>3. Plain(k).kind \notin {"update", "unlearn"}
  BY DEF Plain
<1>. QED  BY <1>1, <1>2, <1>3, AppendElements DEF Retained

LEMMA FlushStepShape ==
  ASSUME TypeOK, Shape, NEW d \in Dicts, FlushStep(d) \/ DiskFails(d)
  PROVE  Shape'
<1>. USE DEF object
<1>1. UNCHANGED <<group, alive, exists, queue, lookup>>
  BY DEF FlushStep, DiskFails, MakeTmp, WriteHeader, WriteBody, RemoveDict, Rename, Reopen
<1>2. CASE \E f, t \in Steps : Step(d, f, t)
  BY <1>1, <1>2 DEF Step, Steps, TypeOK, Shape, ShapeOf, Flushing, Retained
<1>3. CASE Flushing(d) /\ \E b \in Binary : Finish(d, b)
  BY <1>1, <1>3 DEF Finish, NoFlush, TypeOK, Shape, ShapeOf, Flushing, Retained
<1>4. AfterFailure(d) \in Binary /\ bin[d] \in Binary /\ Opened(dict) \in Binary
  BY BinaryTypes DEF TypeOK, AfterFailure, Binary
<1>5. \/ \E f, t \in Steps : Step(d, f, t)
      \/ Flushing(d) /\ \E b \in Binary : Finish(d, b)
  BY <1>4 DEF FlushStep, DiskFails, MakeTmp, WriteHeader, WriteBody, RemoveDict, Rename,
              Reopen, Fail, Steps, Flushing
<1>. QED  BY <1>2, <1>3, <1>5

\* A step that touches one object only, and not who holds it.
LEMMA ShapeElsewhere ==
  ASSUME Shape, NEW d \in Dicts, UNCHANGED <<group, alive>>,
         \A e \in Dicts : e # d =>
           /\ bin'[e] = bin[e] /\ queue'[e] = queue[e]
           /\ flush'[e] = flush[e] /\ lookup'[e] = lookup[e],
         ShapeOf(d)'
  PROVE  Shape'
<1>1. ASSUME NEW e \in Dicts, e # d PROVE ShapeOf(e)'
  <2>1. ShapeOf(e)
    BY DEF Shape
  <2>. QED  BY <1>1, <2>1 DEF ShapeOf, Flushing, Retained
<1>. QED  BY <1>1 DEF Shape

LEMMA BlockStepShape ==
  ASSUME TypeOK, Shape, NEW d \in Dicts, RunBlock(d)
  PROVE  Shape'
<1>. USE DEF object, threads
<1>0. queue[d] # <<>> /\ d \in alive /\ queue[d] \in Seq(Block)
  BY DEF TypeOK, RunBlock, RunUpdate, RunUnlearn, RunReload, RunRead, RunDiscard, HeadIs
<1>1. CASE RunUpdate(d) \/ RunUnlearn(d)
  <2>1. Retained(d)' => Retained(d)
    BY <1>0, <1>1, RetainedByTail DEF TypeOK, RunUpdate, RunUnlearn
  <2>2. UNCHANGED <<group, alive, lookup, flush>> /\ bin'[d].state = bin[d].state
        /\ \A e \in Dicts : e # d => bin'[e] = bin[e] /\ queue'[e] = queue[e]
    BY <1>1 DEF TypeOK, RunUpdate, RunUnlearn, Binary
  <2>3. ShapeOf(d)'
    BY <1>0, <2>1, <2>2 DEF Shape, ShapeOf, Flushing
  <2>. QED  BY <2>2, <2>3, ShapeElsewhere
<1>2. CASE RunReload(d) \/ RunDiscard(d)
  <2>1. Retained(d)' => Retained(d)
    BY <1>0, <1>2, RetainedByTail DEF TypeOK, RunReload, RunDiscard
  <2>2. UNCHANGED <<group, alive, lookup>>
        /\ \A e \in Dicts : e # d => bin'[e] = bin[e] /\ queue'[e] = queue[e] /\ flush'[e] = flush[e]
    BY <1>2 DEF TypeOK, RunReload, RunDiscard, Reload, Replace, Orphaned
  <2>3. /\ flush'[d].at = flush[d].at /\ flush'[d].main = flush[d].main
        /\ Flushing(d) => flush'[d].stale \/ bin' = bin
        /\ flush[d].stale => flush'[d].stale
    BY <1>2 DEF TypeOK, Shape, ShapeOf, RunReload, RunDiscard, Reload, Replace, Orphaned, Flushing, Flush
  <2>4. ShapeOf(d)'
    BY <1>0, <2>1, <2>2, <2>3 DEF Shape, ShapeOf, Flushing
  <2>. QED  BY <2>2, <2>4, ShapeElsewhere
<1>3. CASE RunRead(d)
  <2>1. Retained(d)' => d \in alive'
    BY <1>0, <1>3 DEF RunRead
  <2>. QED  BY <1>0, <1>3, <2>1 DEF RunRead, TypeOK, Shape, ShapeOf, Flushing, Retained
<1>. QED  BY <1>1, <1>2, <1>3 DEF RunBlock

\* Learning, unlearning and looking up only add blocks.
LEMMA CallShape ==
  ASSUME TypeOK, Shape, NEW d \in Dicts,
         \/ \E w \in Words :
              Learn(d, w) \/ LearnQueue(d, w) \/ Unlearning(d, w) \/ UnlearnQueue(d, w)
         \/ UnlearnReload(d)
         \/ Lookup(d) \/ LookupReload(d) \/ LookupCall(d)
  PROVE  Shape'
<1>. USE DEF object
<1>1. UNCHANGED <<group, alive, bin, flush>>
  BY DEF Learn, LearnQueue, Unlearning, UnlearnQueue, UnlearnReload, Lookup, LookupReload,
         LookupCall
<1>2. \A e \in Dicts : e # d => queue'[e] = queue[e] /\ lookup'[e] = lookup[e]
  BY DEF TypeOK, Enqueue, Learn, LearnQueue, Unlearning, UnlearnQueue, UnlearnReload, Lookup,
         LookupReload, LookupCall
<1>3. Retained(d)' => d \in alive
  <2>1. CASE group = d
    BY <2>1, StoreAssumption DEF Shape
  <2>2. CASE group # d
    <3>1. lookup[d] # "idle" \/ UnlearnReload(d)
      BY <2>2 DEF Learn, LearnQueue, Unlearning, UnlearnQueue, Lookup, LookupReload, LookupCall
    <3>2. Retained(d) => d \in alive
      BY DEF Shape, ShapeOf
    <3>. QED  BY <2>2, <3>1, <3>2 DEF Retained, UnlearnReload
  <2>. QED  BY <2>1, <2>2
<1>4. ShapeOf(d)'
  BY <1>1, <1>3 DEF Shape, ShapeOf, Flushing
<1>. QED  BY <1>1, <1>2, <1>4, ShapeElsewhere

\* An object is let go: it is freed at once, or flushed first.
LEMMA DeallocShape ==
  ASSUME TypeOK, Shape, NEW d \in Dicts, NEW gc \in BOOLEAN, NEW m \in BOOLEAN,
         Dealloc(d, gc, m), d \in alive, ~Retained(d), ~Flushing(d),
         UNCHANGED <<queue, lookup>>,
         NEW e \in Dicts, group' = group \/ ~(e \in alive /\ Flushing(e))
  PROVE  ShapeOf(e)'
<1>1. ShapeOf(e)
  BY DEF Shape
<1>. QED  BY <1>1
  DEF TypeOK, ShapeOf, Dealloc, NeedsFlush, FlushOf, NoFlush, Flushing, Retained

\* What is left of an object when it dies with the process.
LEMMA DeathShape ==
  ASSUME Death
  PROVE  Shape'
BY DEF Death, Shape, ShapeOf, Flushing, Retained, NoFlush

LEMMA LifeShape ==
  ASSUME TypeOK, Shape, NEW d \in Dicts,
         \/ Create(d) \/ RunWeak(d)
         \/ \E gc \in BOOLEAN : Save(d, gc) \/ Release(d, gc) \/ LastReference(d, gc)
  PROVE  Shape'
<1>. USE DEF object, threads
<1>1. CASE Create(d)
  <2>1. /\ d \in alive' /\ group' = d /\ group = None /\ ~InUse(d)
        /\ UNCHANGED <<bin, flush, lookup>>
        /\ \A e \in Dicts : e # d => queue'[e] = queue[e] /\ (e \in alive' <=> e \in alive)
    BY <1>1 DEF Create, TypeOK
  <2>2. ASSUME NEW e \in Dicts PROVE ShapeOf(e)'
    <3>1. ShapeOf(e)
      BY DEF Shape
    <3>. QED  BY <2>1, <3>1, StoreAssumption DEF ShapeOf, InUse, Flushing, Retained
  <2>. QED  BY <2>1, <2>2 DEF Shape
<1>2. CASE RunWeak(d)
  <2>1. CASE Death
    BY <2>1, DeathShape
  <2>2. CASE ~Death
    <3>1. /\ d \notin alive /\ queue[d] # <<>>
          /\ queue' = [queue EXCEPT ![d] = Tail(@)]
          /\ UNCHANGED <<group, alive, bin, flush, lookup>>
      BY <1>2, <2>2 DEF RunWeak
    <3>2. Retained(d)' => Retained(d)
      BY <3>1, RetainedByTail DEF TypeOK
    <3>3. ShapeOf(d)'
      BY <3>1, <3>2 DEF Shape, ShapeOf, Flushing
    <3>. QED  BY <3>1, <3>3, ShapeElsewhere DEF TypeOK
  <2>. QED  BY <2>1, <2>2
<1>3. ASSUME NEW gc \in BOOLEAN, Save(d, gc) PROVE Shape'
  <2>1. d \in alive /\ group = d /\ bin[d].state = "open"
    BY <1>3, StoreAssumption DEF Save, Shape, NeedsFlush
  <2>2. ShapeOf(d)'
    BY <1>3, <2>1 DEF Save, FlushOf, TypeOK, Shape, ShapeOf, Flushing, Retained
  <2>. QED  BY <1>3, <2>2, ShapeElsewhere DEF Save, TypeOK
<1>4. ASSUME NEW gc \in BOOLEAN, Release(d, gc) PROVE Shape'
  <2>0. /\ group = d /\ group' = None /\ UNCHANGED <<queue, lookup>>
        /\ \A e \in Dicts : ~(e \in alive /\ Flushing(e))
    BY <1>4 DEF Release, MainIdle, Shape, ShapeOf
  <2>1. CASE Retained(d)
    BY <1>4, <2>0, <2>1 DEF Release, Shape, ShapeOf, Flushing, Retained
  <2>2. CASE ~Retained(d)
    <3>1. d \in alive /\ ~Flushing(d) /\ Dealloc(d, gc, TRUE)
      BY <1>4, <2>0, <2>2, StoreAssumption DEF Release, Shape
    <3>2. \A e \in Dicts : ShapeOf(e)'
      BY <2>0, <2>2, <3>1, DeallocShape
    <3>. QED  BY <2>0, <3>2 DEF Shape
  <2>. QED  BY <2>1, <2>2
<1>5. ASSUME NEW gc \in BOOLEAN, LastReference(d, gc) PROVE Shape'
  <2>1. /\ d \in alive /\ group # d /\ ~Retained(d) /\ Dealloc(d, gc, FALSE)
        /\ UNCHANGED <<group, queue, lookup>>
    BY <1>5 DEF LastReference
  <2>2. ~Flushing(d)
    BY <2>1 DEF Shape, ShapeOf
  <2>3. \A e \in Dicts : ShapeOf(e)'
    BY <2>1, <2>2, DeallocShape
  <2>. QED  BY <2>1, <2>3 DEF Shape, Dealloc, TypeOK
<1>. QED  BY <1>1, <1>2, <1>3, <1>4, <1>5

\* Who is in use and who flushes is as Shape says in every state.
THEOREM ShapeInvariant == Spec => []Shape
<1>1. Init => Shape
  BY DEF Init, Shape, ShapeOf, Flushing, Retained, NoFlush
<1>2. TypeOK /\ Shape /\ [Next]_vars => Shape'
  <2>. SUFFICES ASSUME TypeOK, Shape, [Next]_vars PROVE Shape'
    OBVIOUS
  <2>1. CASE UNCHANGED vars
    BY <2>1 DEF Shape, ShapeOf, Flushing, Retained, vars, disk, object, threads, history
  <2>2. CASE Kill
    BY <2>2, DeathShape DEF Kill
  <2>3. ASSUME NEW d \in Dicts, FlushStep(d) \/ DiskFails(d) PROVE Shape'
    BY <2>3, FlushStepShape
  <2>4. ASSUME NEW d \in Dicts, RunBlock(d) PROVE Shape'
    BY <2>4, BlockStepShape
  <2>5. ASSUME NEW d \in Dicts,
               \/ \E w \in Words :
                    Learn(d, w) \/ LearnQueue(d, w) \/ Unlearning(d, w) \/ UnlearnQueue(d, w)
               \/ UnlearnReload(d)
               \/ Lookup(d) \/ LookupReload(d) \/ LookupCall(d)
        PROVE  Shape'
    BY <2>5, CallShape
  <2>6. ASSUME NEW d \in Dicts,
               \/ Create(d) \/ RunWeak(d)
               \/ \E gc \in BOOLEAN : Save(d, gc) \/ Release(d, gc) \/ LastReference(d, gc)
        PROVE  Shape'
    BY <2>6, LifeShape
  <2>. QED  BY <2>1, <2>2, <2>3, <2>4, <2>5, <2>6 DEF Next
<1>. QED  BY <1>1, <1>2, TypeCorrect, PTL DEF Spec

-----------------------------------------------------------------------------
(* A lookup that waits is answered.                                         *)

\* The blocks of a queue that answer a lookup.
Answered(d) == \E i \in DOMAIN queue[d] : queue[d][i].kind = "read"
Waits == \A d \in Dicts : lookup[d] = "wait" => Answered(d)

\* A block that comes leaves them; one that goes does, if it is none of them.
LEMMA AnsweredByAppend ==
  ASSUME TypeOK, NEW d \in Dicts, NEW b \in Block, Enqueue(d, b)
  PROVE  /\ \A e \in Dicts : Answered(e) => Answered(e)'
         /\ b.kind = "read" => Answered(d)'
<1>1. queue[d] \in Seq(Block) /\ queue'[d] = Append(queue[d], b)
  BY DEF TypeOK, Enqueue
<1>2. \A e \in Dicts : e # d => queue'[e] = queue[e]
  BY DEF TypeOK, Enqueue
<1>3. Answered(d) => Answered(d)'
  BY <1>1, AppendElements DEF Answered
<1>4. Len(queue[d]) + 1 \in DOMAIN queue'[d]
  BY <1>1
<1>5. b.kind = "read" => Answered(d)'
  BY <1>1, <1>4, AppendElements DEF Answered
<1>6. \A e \in Dicts : e # d => (Answered(e) => Answered(e)')
  BY <1>2 DEF Answered
<1>. QED  BY <1>3, <1>5, <1>6

LEMMA AnsweredByTail ==
  ASSUME TypeOK, NEW d \in Dicts, queue[d] # <<>>, Head(queue[d]).kind # "read",
         queue' = [queue EXCEPT ![d] = Tail(@)]
  PROVE  \A e \in Dicts : Answered(e) => Answered(e)'
<1>1. queue[d] \in Seq(Block) /\ queue'[d] = Tail(queue[d])
  BY DEF TypeOK
<1>2. \A e \in Dicts : e # d => queue'[e] = queue[e]
  BY DEF TypeOK
<1>3. ASSUME NEW i \in DOMAIN queue[d], queue[d][i].kind = "read" PROVE Answered(d)'
  <2>1. i # 1
    BY <1>1, <1>3, TailElements
  <2>2. i - 1 \in DOMAIN Tail(queue[d]) /\ Tail(queue[d])[i - 1] = queue[d][(i - 1) + 1]
    BY <1>1, <2>1, TailElements
  <2>3. (i - 1) + 1 = i
    BY <1>1
  <2>. QED  BY <1>1, <1>3, <2>2, <2>3 DEF Answered
<1>. QED  BY <1>2, <1>3 DEF Answered

LEMMA WaitsKept ==
  ASSUME TypeOK, Shape, Waits, [Next]_vars
  PROVE  Waits'
<1>. USE DEF object, threads
<1>1. CASE UNCHANGED vars
  BY <1>1 DEF Waits, Answered, vars
<1>2. CASE Death
  BY <1>2 DEF Waits, Death
<1>3. CASE UNCHANGED <<queue, lookup>>
  BY <1>3 DEF Waits, Answered
<1>4. ASSUME NEW d \in Dicts, Create(d) PROVE Waits'
  <2>1. lookup[d] = "idle"
    BY <1>4 DEF Create, InUse, Shape, ShapeOf, Retained
  <2>. QED  BY <1>4, <2>1 DEF Create, Waits, Answered, TypeOK
<1>5. ASSUME NEW d \in Dicts, NEW b \in Block, Enqueue(d, b),
             \A e \in Dicts : lookup'[e] = "wait" => lookup[e] = "wait" \/ (e = d /\ b.kind = "read")
      PROVE  Waits'
  BY <1>5, AnsweredByAppend DEF Waits
<1>6. ASSUME NEW d \in Dicts, queue[d] # <<>>, Head(queue[d]).kind # "read",
             queue' = [queue EXCEPT ![d] = Tail(@)], UNCHANGED lookup
      PROVE  Waits'
  BY <1>6, AnsweredByTail DEF Waits
<1>7. ASSUME NEW d \in Dicts, RunRead(d) PROVE Waits'
  BY <1>7 DEF RunRead, Waits, Answered, TypeOK
<1>8. ASSUME NEW d \in Dicts, RunBlock(d) PROVE Waits'
  <2>1. CASE RunRead(d)
    BY <1>7, <2>1
  <2>2. CASE ~RunRead(d)
    BY <1>6, <1>8, <2>2 DEF RunBlock, RunUpdate, RunUnlearn, RunReload, RunDiscard, HeadIs
  <2>. QED  BY <2>1, <2>2
<1>9. ASSUME NEW d \in Dicts, RunWeak(d) PROVE Waits'
  <2>1. lookup[d] # "wait"
    BY <1>9 DEF RunWeak, Shape, ShapeOf, Retained
  <2>2. CASE Death
    BY <1>2, <2>2
  <2>3. CASE ~Death
    BY <1>9, <2>1, <2>3 DEF RunWeak, Waits, Answered, TypeOK
  <2>. QED  BY <2>2, <2>3
<1>10. ASSUME NEW d \in Dicts,
              \/ \E w \in Words : LearnQueue(d, w) \/ UnlearnQueue(d, w)
              \/ UnlearnReload(d) \/ LookupReload(d) \/ LookupCall(d)
       PROVE  Waits'
  <2>1. ASSUME NEW w \in Words, LearnQueue(d, w) PROVE Waits'
    BY <1>5, <2>1, BlockTypes DEF LearnQueue
  <2>2. ASSUME NEW w \in Words, UnlearnQueue(d, w) PROVE Waits'
    BY <1>5, <2>2, BlockTypes DEF UnlearnQueue
  <2>3. CASE UnlearnReload(d)
    BY <1>5, <2>3, BlockTypes DEF UnlearnReload
  <2>4. CASE LookupReload(d)
    BY <1>5, <2>4, BlockTypes DEF LookupReload, TypeOK
  <2>5. CASE LookupCall(d)
    <3>1. Plain("read") \in Block /\ Plain("read").kind = "read"
      BY BlockTypes DEF Plain
    <3>. QED  BY <1>5, <2>5, <3>1 DEF LookupCall, TypeOK
  <2>. QED  BY <1>10, <2>1, <2>2, <2>3, <2>4, <2>5
<1>11. ASSUME NEW d \in Dicts, Lookup(d) PROVE Waits'
  BY <1>11 DEF Lookup, Waits, Answered, TypeOK
<1>12. ASSUME NEW d \in Dicts,
              \/ FlushStep(d) \/ DiskFails(d)
              \/ \E w \in Words : Learn(d, w) \/ Unlearning(d, w)
              \/ \E gc \in BOOLEAN : Save(d, gc) \/ Release(d, gc) \/ LastReference(d, gc)
       PROVE  Waits'
  <2>1. UNCHANGED <<queue, lookup>>
    BY <1>12 DEF FlushStep, MakeTmp, WriteHeader, WriteBody, RemoveDict, Rename, Reopen, DiskFails,
         Learn, Unlearning, Save, Release, LastReference
  <2>. QED  BY <1>3, <2>1
<1>. QED  BY <1>1, <1>2, <1>4, <1>8, <1>9, <1>10, <1>11, <1>12 DEF Next, Kill

\* A lookup, which holds the facilitator's semaphore, waits only for a block that
\* is in the queue of an object that is not freed.
THEOREM LookupsAnswered == Spec => []LookupAnswered
<1>1. Init => Waits
  BY DEF Init, Waits
<1>2. TypeOK /\ Shape /\ Waits /\ [Next]_vars => Waits'
  BY WaitsKept
<1>3. Shape /\ Waits => LookupAnswered
  BY DEF Shape, ShapeOf, Waits, Answered, LookupAnswered, Retained
<1>. QED  BY <1>1, <1>2, <1>3, TypeCorrect, ShapeInvariant, PTL DEF Spec

-----------------------------------------------------------------------------
(* One object at a time, and what a flush finds on the disk.                *)

\* Troubles are not forgotten.
LEMMA TroublesGrow ==
  ASSUME TypeOK, [Next]_vars
  PROVE  troubles \subseteq troubles'
<1>. USE DEF history
<1>1. ASSUME NEW d \in Dicts, RunBlock(d) PROVE troubles \subseteq troubles'
  BY <1>1 DEF RunBlock, RunUpdate, RunUnlearn, RunReload, RunRead, RunDiscard, Race
<1>2. CASE UNCHANGED vars
  BY <1>2 DEF vars
<1>3. CASE Death
  BY <1>3 DEF Death
<1>4. ASSUME NEW d \in Dicts, FlushStep(d) \/ DiskFails(d) \/ RunWeak(d) \/ Create(d)
      PROVE  troubles \subseteq troubles'
  BY <1>3, <1>4 DEF FlushStep, MakeTmp, WriteHeader, WriteBody, RemoveDict, Rename, Reopen,
       DiskFails, RunWeak, Create
<1>. QED  BY <1>1, <1>2, <1>3, <1>4 DEF Next, Kill, Save, Release, LastReference, Learn,
       LearnQueue, Unlearning, UnlearnQueue, UnlearnReload, Lookup, LookupReload, LookupCall

LEMMA WithoutBefore ==
  ASSUME TypeOK, [Next]_vars, NEW K, Without(K)'
  PROVE  Without(K)
BY TroublesGrow DEF Without

\* No step but Create brings an object into use.
LEMMA UseStays ==
  ASSUME TypeOK, Shape, [Next]_vars, NEW e \in Dicts, InUse(e)', ~InUse(e)
  PROVE  Create(e)
<1>. USE DEF object, InUse, Flushing
<1>1. ASSUME NEW d \in Dicts, FlushStep(d) \/ DiskFails(d) PROVE FALSE
  <2>1. UNCHANGED alive /\ Flushing(d)
    BY <1>1 DEF FlushStep, MakeTmp, WriteHeader, WriteBody, RemoveDict, Rename, Reopen,
         DiskFails, Step
  <2>2. e # d => flush'[e] = flush[e]
    BY <1>1 DEF FlushStep, MakeTmp, WriteHeader, WriteBody, RemoveDict, Rename, Reopen,
         DiskFails, Step, Fail, Finish, TypeOK
  <2>. QED  BY <2>1, <2>2
<1>2. ASSUME NEW d \in Dicts, RunBlock(d) PROVE FALSE
  <2>1. UNCHANGED alive /\ flush'[e].at = flush[e].at
    BY <1>2 DEF RunBlock, RunUpdate, RunUnlearn, RunReload, RunRead, RunDiscard, Reload,
         Replace, Orphaned, threads, TypeOK, Flush
  <2>. QED  BY <2>1
<1>3. ASSUME NEW d \in Dicts, NEW gc \in BOOLEAN, Save(d, gc) PROVE FALSE
  <2>1. d \in alive /\ UNCHANGED alive /\ (e # d => flush'[e] = flush[e])
    BY <1>3, StoreAssumption DEF Save, Shape, TypeOK
  <2>. QED  BY <2>1
<1>4. ASSUME NEW d \in Dicts, NEW gc \in BOOLEAN, Release(d, gc) \/ LastReference(d, gc)
      PROVE  FALSE
  <2>1. d \in alive /\ alive' \subseteq alive /\ (e # d => flush'[e] = flush[e])
    BY <1>4, StoreAssumption DEF Release, LastReference, Dealloc, Shape, TypeOK
  <2>. QED  BY <2>1
<1>5. ASSUME Death PROVE FALSE
  BY <1>5 DEF Death, NoFlush
<1>6. ASSUME NEW d \in Dicts, Create(d) PROVE e = d
  BY <1>6 DEF Create, threads
<1>7. ASSUME UNCHANGED <<alive, flush>> PROVE FALSE
  BY <1>7
<1>8. ASSUME NEW d \in Dicts, RunWeak(d) PROVE FALSE
  BY <1>5, <1>7, <1>8 DEF RunWeak, threads
<1>9. ASSUME NEW d \in Dicts, NEW w \in Words,
             \/ Learn(d, w) \/ LearnQueue(d, w) \/ Unlearning(d, w) \/ UnlearnQueue(d, w)
             \/ UnlearnReload(d) \/ Lookup(d) \/ LookupReload(d) \/ LookupCall(d)
      PROVE  FALSE
  BY <1>7, <1>9 DEF Learn, LearnQueue, Unlearning, UnlearnQueue, UnlearnReload, Lookup,
       LookupReload, LookupCall
<1>10. ASSUME NEW d \in Dicts, UnlearnReload(d) \/ Lookup(d) \/ LookupReload(d) \/ LookupCall(d)
       PROVE  FALSE
  BY <1>7, <1>10 DEF UnlearnReload, Lookup, LookupReload, LookupCall
<1>11. CASE UNCHANGED vars
  BY <1>7, <1>11 DEF vars, threads
<1>. QED  BY <1>1, <1>2, <1>3, <1>4, <1>5, <1>6, <1>8, <1>9, <1>10, <1>11 DEF Next, Kill

Single == Without({"overlap"}) => \A d, e \in Dicts : InUse(d) /\ InUse(e) => d = e

LEMMA SingleKept ==
  ASSUME TypeOK, Shape, Single, [Next]_vars
  PROVE  Single'
<1>. SUFFICES ASSUME Without({"overlap"})',
                     NEW d \in Dicts, NEW e \in Dicts, InUse(d)', InUse(e)', d # e
              PROVE  FALSE
  BY DEF Single
<1>1. Without({"overlap"})
  BY WithoutBefore
<1>2. CASE InUse(d) /\ InUse(e)
  BY <1>1, <1>2 DEF Single
<1>3. ASSUME NEW f \in Dicts, Create(f), NEW g \in Dicts, InUse(g) PROVE FALSE
  BY <1>3 DEF Create, Without
<1>4. ~InUse(d) => Create(d)
  BY UseStays
<1>5. ~InUse(e) => Create(e)
  BY UseStays
<1>6. ~(Create(d) /\ Create(e))
  BY DEF Create, object, StoreAssumption
<1>. QED  BY <1>2, <1>3, <1>4, <1>5, <1>6

\* Where one object at a time is in use, its flush finds what it left.
DiskOf(d) ==
  /\ flush[d].at = "header" => tmp = NewDirectory
  /\ flush[d].at = "body" => tmp.there /\ tmp.header /\ ~tmp.body
  /\ flush[d].at \in {"remove", "rename"} => Complete(tmp)
  /\ flush[d].at = "rename" => ~dict.there
  /\ flush[d].at = "reopen" /\ ~flush[d].stale => Complete(dict)
  /\ bin[d].state # "deaf"
DiskInv == Without({"overlap"}) => \A d \in Dicts : DiskOf(d)

\* Of an object that is not in use nothing is asked.
LEMMA DiskOfUnused ==
  ASSUME Shape, NEW d \in Dicts, ~InUse(d)
  PROVE  DiskOf(d)
BY DEF Shape, ShapeOf, InUse, Flushing, DiskOf, Nil, JustMade

\* A step of a flush that goes well changes where it stands.
LEMMA StepResult ==
  ASSUME TypeOK, NEW d \in Dicts, NEW f \in Steps, NEW t \in Steps, Step(d, f, t)
  PROVE  /\ flush[d].at = f /\ bin' = bin
         /\ flush'[d] = [flush[d] EXCEPT !.at = t]
         /\ flush'[d].at = t
         /\ flush'[d].stale = flush[d].stale /\ flush'[d].fixed = flush[d].fixed
         /\ flush'[d].image = flush[d].image
         /\ \A e \in Dicts : e # d => flush'[e] = flush[e]
BY DEF Step, TypeOK, Flush

LEMMA DiskKept ==
  ASSUME TypeOK, Shape, Shape', Single, DiskInv, [Next]_vars
  PROVE  DiskInv'
<1>. SUFFICES ASSUME Without({"overlap"})', NEW e \in Dicts PROVE DiskOf(e)'
  BY DEF DiskInv
<1>. USE DEF object, threads, disk
<1>1. CASE ~InUse(e)'
  BY <1>1 DEF Shape, ShapeOf, InUse, Flushing, DiskOf, Nil, JustMade
<1>2. CASE InUse(e)' /\ ~InUse(e)
  <2>1. Create(e) /\ ~Flushing(e) /\ bin[e] = Nil
    BY <1>2, UseStays DEF InUse, Shape, ShapeOf
  <2>. QED  BY <2>1 DEF Create, Flushing, DiskOf, Nil, JustMade
<1>. SUFFICES ASSUME InUse(e)', InUse(e) PROVE DiskOf(e)'
  BY <1>1, <1>2
<1>3. Without({"overlap"}) /\ DiskOf(e) /\ \A d \in Dicts : InUse(d) => d = e
  BY WithoutBefore DEF DiskInv, Single
<1>4. ASSUME NEW d \in Dicts, Create(d) PROVE FALSE
  BY <1>4 DEF Create, Without
<1>5. ASSUME Death PROVE FALSE
  BY <1>5 DEF Death, InUse, Flushing, NoFlush
<1>6. CASE UNCHANGED <<disk, bin, flush>>
  BY <1>3, <1>6 DEF DiskOf, Complete
<1>7. ASSUME FlushStep(e) \/ DiskFails(e) PROVE DiskOf(e)'
  <2>0. AfterFailure(e).state # "deaf" /\ (e \in alive => bin[e].state # "deaf")
        /\ Opened(dict).state \in {"open", "deaf"} /\ (Complete(dict) => Opened(dict).state = "open")
    BY <1>3 DEF DiskOf, AfterFailure, Opened, OpenWith, JustMade, TypeOK, Binary
  <2>1. ASSUME NEW b \in Binary, Finish(e, b), b.state # "deaf" PROVE DiskOf(e)'
    BY <2>1 DEF DiskOf, Finish, NoFlush, Nil, JustMade, TypeOK
  <2>2. AfterFailure(e) \in Binary /\ bin[e] \in Binary /\ Opened(dict) \in Binary
    BY BinaryTypes DEF TypeOK, AfterFailure, Binary
  <2>3. CASE Fail(e)
    BY <2>0, <2>1, <2>2, <2>3 DEF Fail
  <2>4. CASE MakeTmp(e)
    <3>1. Step(e, "mkdir", "header") /\ tmp' = NewDirectory
      BY <2>4 DEF MakeTmp
    <3>2. flush'[e].at = "header" /\ bin' = bin
      BY <3>1, StepResult DEF Steps
    <3>. QED  BY <1>3, <3>1, <3>2 DEF DiskOf
  <2>5. CASE WriteHeader(e) /\ ~Fail(e)
    <3>1. Step(e, "header", "body") /\ tmp' = [tmp EXCEPT !.header = TRUE]
      BY <2>5 DEF WriteHeader
    <3>2. flush[e].at = "header" /\ flush'[e].at = "body" /\ bin' = bin
      BY <3>1, StepResult DEF Steps
    <3>3. tmp = NewDirectory
      BY <1>3, <3>2 DEF DiskOf
    <3>4. tmp'.there /\ tmp'.header /\ ~tmp'.body
      BY <3>1, <3>3 DEF NewDirectory, TypeOK, Directory
    <3>. QED  BY <1>3, <3>2, <3>4 DEF DiskOf
  <2>6. CASE WriteBody(e) /\ ~Fail(e)
    <3>1. Step(e, "body", "remove") /\ tmp' = [tmp EXCEPT !.body = TRUE, !.words = Image(e)]
      BY <2>6 DEF WriteBody
    <3>2. flush[e].at = "body" /\ flush'[e].at = "remove" /\ bin' = bin
      BY <3>1, StepResult DEF Steps
    <3>3. tmp.there /\ tmp.header
      BY <1>3, <3>2 DEF DiskOf
    <3>4. Complete(tmp)'
      BY <3>1, <3>3 DEF Complete, TypeOK, Directory
    <3>. QED  BY <1>3, <3>2, <3>4 DEF DiskOf
  <2>7. CASE RemoveDict(e)
    <3>1. Step(e, "remove", "rename") /\ ~dict'.there /\ UNCHANGED tmp
      BY <2>7 DEF RemoveDict, NoDirectory
    <3>2. flush[e].at = "remove" /\ flush'[e].at = "rename" /\ bin' = bin
      BY <3>1, StepResult DEF Steps
    <3>3. Complete(tmp)'
      BY <1>3, <3>1, <3>2 DEF DiskOf, Complete
    <3>. QED  BY <1>3, <3>1, <3>2, <3>3 DEF DiskOf
  <2>8. CASE Rename(e) /\ ~Fail(e)
    <3>1. Step(e, "rename", "reopen") /\ dict' = tmp
      BY <2>8 DEF Rename
    <3>2. flush[e].at = "rename" /\ flush'[e].at = "reopen" /\ bin' = bin
      BY <3>1, StepResult DEF Steps
    <3>3. Complete(dict)'
      BY <1>3, <3>1, <3>2 DEF DiskOf, Complete
    <3>. QED  BY <1>3, <3>2, <3>3 DEF DiskOf
  <2>9. CASE Reopen(e)
    BY <1>3, <2>0, <2>1, <2>2, <2>9 DEF Reopen, DiskOf
  <2>. QED  BY <1>7, <2>3, <2>4, <2>5, <2>6, <2>7, <2>8, <2>9 DEF FlushStep, DiskFails
<1>8. ASSUME RunBlock(e) PROVE DiskOf(e)'
  <2>1. UNCHANGED tmp
    BY <1>8 DEF RunBlock, RunUpdate, RunUnlearn, RunReload, RunRead, RunDiscard
  <2>2. ASSUME NEW b \in Binary, b.state # "deaf", Replace(e, b) PROVE DiskOf(e)'
    BY <1>3, <2>1, <2>2 DEF Replace, Orphaned, NoDirectory, DiskOf, Complete, TypeOK, Flushing, Flush
  <2>3. CASE RunUpdate(e) \/ RunUnlearn(e) \/ RunRead(e)
    <3>1. UNCHANGED <<dict, flush>> /\ bin'[e].state = bin[e].state
      BY <2>3 DEF RunUpdate, RunUnlearn, RunRead, TypeOK, Binary
    <3>. QED  BY <1>3, <2>1, <3>1 DEF DiskOf, Complete
  <2>4. CASE RunReload(e)
    <3>1. CASE Replace(e, OpenWith({}))
      BY <2>2, <3>1, BinaryTypes DEF OpenWith, JustMade
    <3>2. CASE ~Replace(e, OpenWith({}))
      BY <1>3, <2>1, <2>4, <3>2
      DEF RunReload, Reload, DiskOf, Complete, Opened, OpenWith, JustMade, TypeOK
    <3>. QED  BY <3>1, <3>2
  <2>5. CASE RunDiscard(e)
    BY <2>2, <2>5, BinaryTypes DEF RunDiscard, Nil, JustMade
  <2>. QED  BY <1>8, <2>3, <2>4, <2>5 DEF RunBlock
<1>9. ASSUME NEW gc \in BOOLEAN, Save(e, gc) PROVE DiskOf(e)'
  BY <1>3, <1>9 DEF Save, FlushOf, DiskOf, TypeOK
<1>10. ASSUME NEW gc \in BOOLEAN, Release(e, gc) \/ LastReference(e, gc) PROVE DiskOf(e)'
  <2>1. CASE UNCHANGED <<bin, flush>>
    BY <1>6, <1>10, <2>1 DEF Release, LastReference
  <2>2. CASE \E m \in BOOLEAN : Dealloc(e, gc, m)
    BY <1>3, <1>10, <2>2 DEF Release, LastReference, Dealloc, FlushOf, DiskOf, Nil, JustMade, TypeOK, Complete
  <2>. QED  BY <1>10, <2>1, <2>2 DEF Release, LastReference
<1>11. ASSUME NEW d \in Dicts,
              \/ FlushStep(d) \/ DiskFails(d) \/ RunBlock(d)
              \/ \E gc \in BOOLEAN : Save(d, gc) \/ Release(d, gc) \/ LastReference(d, gc)
       PROVE  d = e
  <2>1. InUse(d)
    BY <1>11, StoreAssumption DEF InUse, Flushing, FlushStep, MakeTmp, WriteHeader, WriteBody, RemoveDict,
         Rename, Reopen, DiskFails, Step, RunBlock, RunUpdate, RunUnlearn, RunReload, RunRead,
         RunDiscard, HeadIs, Save, Release, LastReference, Shape
  <2>. QED  BY <1>3, <2>1
<1>12. ASSUME NEW d \in Dicts, RunWeak(d) PROVE DiskOf(e)'
  BY <1>5, <1>6, <1>12 DEF RunWeak
<1>13. ASSUME NEW d \in Dicts,
              \/ \E w \in Words :
                   Learn(d, w) \/ LearnQueue(d, w) \/ Unlearning(d, w) \/ UnlearnQueue(d, w)
              \/ UnlearnReload(d) \/ Lookup(d) \/ LookupReload(d) \/ LookupCall(d)
       PROVE  DiskOf(e)'
  BY <1>6, <1>13 DEF Learn, LearnQueue, Unlearning, UnlearnQueue, UnlearnReload, Lookup,
       LookupReload, LookupCall
<1>14. CASE UNCHANGED vars
  BY <1>6, <1>14 DEF vars
<1>. QED  BY <1>4, <1>5, <1>7, <1>8, <1>9, <1>10, <1>11, <1>12, <1>13, <1>14 DEF Next, Kill

\* One object of the file is in use at a time, or the overlap was noted.
THEOREM OneObject == Spec => []Single
<1>1. Init => Single
  BY DEF Init, Single, InUse, Flushing, NoFlush
<1>2. TypeOK /\ Shape /\ Single /\ [Next]_vars => Single'
  BY SingleKept
<1>. QED  BY <1>1, <1>2, TypeCorrect, ShapeInvariant, PTL DEF Spec

THEOREM DiskInvariant == Spec => []DiskInv
<1>1. Init => DiskInv
  BY DEF Init, DiskInv, DiskOf, NoFlush, Nil, JustMade
<1>2. TypeOK /\ Shape /\ Shape' /\ Single /\ DiskInv /\ [Next]_vars => DiskInv'
  BY DiskKept
<1>. QED  BY <1>1, <1>2, TypeCorrect, ShapeInvariant, OneObject, PTL DEF Spec

\* Only an overlap of two objects leaves a dictionary that takes no word and is
\* never reloaded.
THEOREM Deaf == Spec => []DeafOnlyAfterOverlap
<1>1. DiskInv => DeafOnlyAfterOverlap
  BY DEF DiskInv, DiskOf, DeafOnlyAfterOverlap, Without
<1>. QED  BY <1>1, DiskInvariant, PTL

-----------------------------------------------------------------------------
(* Which steps there are while one object is in use, or none.               *)

Call(d) ==
  \/ \E w \in Words :
       Learn(d, w) \/ LearnQueue(d, w) \/ Unlearning(d, w) \/ UnlearnQueue(d, w)
  \/ UnlearnReload(d) \/ Lookup(d) \/ LookupReload(d) \/ LookupCall(d)
Handle(d) ==
  \E gc \in BOOLEAN : Save(d, gc) \/ Release(d, gc) \/ LastReference(d, gc)

LEMMA ActorInUse ==
  ASSUME TypeOK, Shape, NEW d \in Dicts,
         FlushStep(d) \/ DiskFails(d) \/ RunBlock(d) \/ Handle(d) \/ Call(d)
  PROVE  InUse(d)
<1>1. ASSUME FlushStep(d) \/ DiskFails(d) PROVE InUse(d)
  BY <1>1 DEF InUse, Flushing, FlushStep, MakeTmp, WriteHeader, WriteBody, RemoveDict,
       Rename, Reopen, DiskFails, Step
<1>2. ASSUME RunBlock(d) PROVE InUse(d)
  BY <1>2 DEF InUse, RunBlock, RunUpdate, RunUnlearn, RunReload, RunRead, RunDiscard, HeadIs
<1>3. ASSUME Handle(d) PROVE InUse(d)
  BY <1>3, StoreAssumption DEF InUse, Handle, Save, Release, LastReference, Shape
<1>4. ASSUME Call(d) PROVE InUse(d)
  <2>1. group = d \/ lookup[d] # "idle"
    BY <1>4 DEF Call, Learn, LearnQueue, Unlearning, UnlearnQueue, UnlearnReload, Lookup,
         LookupReload, LookupCall
  <2>. QED  BY <2>1, StoreAssumption DEF InUse, Shape, ShapeOf, Retained
<1>. QED  BY <1>1, <1>2, <1>3, <1>4

\* While one object is in use every step is its own, but for the weak blocks of
\* freed ones and the end of the process.
LEMMA StepOf ==
  ASSUME TypeOK, Shape, Single, [Next]_vars, Without({"overlap"})',
         NEW e \in Dicts, InUse(e)
  PROVE  \/ FlushStep(e) \/ DiskFails(e) \/ RunBlock(e) \/ Handle(e) \/ Call(e)
         \/ \E d \in Dicts : RunWeak(d)
         \/ Death \/ UNCHANGED vars
<1>1. \A d \in Dicts : InUse(d) => d = e
  BY WithoutBefore DEF Single
<1>2. ASSUME NEW d \in Dicts, Create(d) PROVE FALSE
  BY <1>2 DEF Create, Without
<1>3. ASSUME NEW d \in Dicts,
             FlushStep(d) \/ DiskFails(d) \/ RunBlock(d) \/ Handle(d) \/ Call(d)
      PROVE  d = e
  BY <1>1, <1>3, ActorInUse
<1>4. \/ UNCHANGED vars \/ Death
      \/ \E d \in Dicts : \/ FlushStep(d) \/ DiskFails(d) \/ RunBlock(d) \/ Handle(d)
                          \/ Call(d) \/ RunWeak(d)
  BY <1>2 DEF Next, Kill, Call, Handle
<1>. QED  BY <1>3, <1>4

\* Nothing but its own weak blocks happens to an object that is not in use.
LEMMA UnusedStep ==
  ASSUME TypeOK, Shape, [Next]_vars, NEW e \in Dicts, ~InUse(e), ~InUse(e)', ~Death
  PROVE  /\ flush'[e] = flush[e] /\ bin'[e] = bin[e]
         /\ queue'[e] = queue[e] \/ (queue[e] # <<>> /\ queue'[e] = Tail(queue[e]))
<1>. USE DEF object, threads
<1>1. ASSUME NEW d \in Dicts, RunWeak(d)
      PROVE  /\ flush'[e] = flush[e] /\ bin'[e] = bin[e]
             /\ queue'[e] = queue[e] \/ (queue[e] # <<>> /\ queue'[e] = Tail(queue[e]))
  BY <1>1 DEF RunWeak, TypeOK
<1>2. ASSUME NEW d \in Dicts, d # e,
             FlushStep(d) \/ DiskFails(d) \/ RunBlock(d) \/ Handle(d) \/ Call(d) \/ Create(d)
      PROVE  flush'[e] = flush[e] /\ bin'[e] = bin[e] /\ queue'[e] = queue[e]
  <2>1. CASE FlushStep(d) \/ DiskFails(d)
    BY <1>2, <2>1 DEF FlushStep, MakeTmp, WriteHeader, WriteBody, RemoveDict, Rename, Reopen,
         DiskFails, Step, Fail, Finish, TypeOK
  <2>2. CASE RunBlock(d)
    BY <1>2, <2>2 DEF RunBlock, RunUpdate, RunUnlearn, RunReload, RunRead, RunDiscard, Reload,
         Replace, Orphaned, TypeOK
  <2>3. CASE Handle(d) \/ Create(d)
    BY <1>2, <2>3 DEF Handle, Save, Release, LastReference, Dealloc, Create, TypeOK
  <2>4. CASE Call(d)
    BY <1>2, <2>4 DEF Call, Learn, LearnQueue, Unlearning, UnlearnQueue, UnlearnReload, Lookup,
         LookupReload, LookupCall, Enqueue, TypeOK
  <2>. QED  BY <1>2, <2>1, <2>2, <2>3, <2>4
<1>3. ~Create(e)
  BY DEF Create, InUse
<1>4. \/ UNCHANGED vars \/ Death
      \/ \E d \in Dicts : \/ FlushStep(d) \/ DiskFails(d) \/ RunBlock(d) \/ Handle(d)
                          \/ Call(d) \/ RunWeak(d) \/ Create(d)
  BY DEF Next, Kill, Call, Handle
<1>5. CASE UNCHANGED vars
  BY <1>5 DEF vars
<1>. QED  BY <1>1, <1>2, <1>3, <1>4, <1>5, ActorInUse

LEMMA IdleStep ==
  ASSUME TypeOK, Shape, [Next]_vars, \A d \in Dicts : ~InUse(d)
  PROVE  \/ \E d \in Dicts : Create(d) \/ RunWeak(d)
         \/ Death \/ UNCHANGED vars
<1>1. \/ UNCHANGED vars \/ Death
      \/ \E d \in Dicts : \/ FlushStep(d) \/ DiskFails(d) \/ RunBlock(d) \/ Handle(d)
                          \/ Call(d) \/ RunWeak(d) \/ Create(d)
  BY DEF Next, Kill, Call, Handle
<1>. QED  BY <1>1, ActorInUse

-----------------------------------------------------------------------------
(* Without a failure or a second reload.                                    *)

\* No object is replaced under its flush or thrown away; one that is not loaded
\* will be, from what it found when it was made.
CleanOf(d) ==
  /\ ~flush[d].stale /\ ~bin[d].corrupted
  /\ \A i \in DOMAIN queue[d] : queue[d][i].kind # "discard"
  /\ d \in alive /\ bin[d].state = "nil" =>
       exists[d] = Complete(dict) /\ queue[d] # <<>> /\ Head(queue[d]).kind = "reload"
Mishaps == {"overlap", "failed", "reloaded"}
Clean == Without(Mishaps) => \A d \in Dicts : CleanOf(d)

NoDiscard(q) == \A i \in DOMAIN q : q[i].kind # "discard"

LEMMA NoDiscardAppend ==
  ASSUME NEW q \in Seq(Block), NEW b \in Block, NoDiscard(q), b.kind # "discard"
  PROVE  /\ NoDiscard(Append(q, b)) /\ Append(q, b) # <<>>
         /\ q # <<>> => Head(Append(q, b)) = Head(q)
BY AppendElements DEF NoDiscard

LEMMA NoDiscardTail ==
  ASSUME NEW q \in Seq(Block), q # <<>>, NoDiscard(q)
  PROVE  NoDiscard(Tail(q))
BY TailElements DEF NoDiscard

LEMMA CallDoes ==
  ASSUME TypeOK, NEW e \in Dicts, Call(e)
  PROVE  /\ UNCHANGED <<dict, tmp, group, alive, exists, bin, flush, saved, troubles>>
         /\ \A d \in Dicts : d # e => queue'[d] = queue[d]
         /\ \/ queue' = queue
            \/ \E b \in Block : b.kind # "discard" /\ Enqueue(e, b)
<1>. USE DEF disk, object
<1>1. UNCHANGED <<dict, tmp, group, alive, exists, bin, flush, saved, troubles>>
  BY DEF Call, Learn, LearnQueue, Unlearning, UnlearnQueue, UnlearnReload, Lookup,
         LookupReload, LookupCall, history
<1>2. \/ queue' = queue
      \/ \E b \in Block : b.kind # "discard" /\ Enqueue(e, b)
  <2>1. /\ \A w \in Words : Update(w).kind # "discard" /\ Unlearn(w).kind # "discard"
        /\ \A k \in {"reload", "read"} : Plain(k).kind # "discard"
    BY DEF Update, Unlearn, Plain
  <2>2. CASE \E w \in Words : Learn(e, w) \/ Unlearning(e, w)
    BY <2>2 DEF Learn, Unlearning
  <2>3. ASSUME NEW w \in Words, LearnQueue(e, w) \/ UnlearnQueue(e, w)
        PROVE  \E b \in Block : b.kind # "discard" /\ Enqueue(e, b)
    BY <2>1, <2>3, BlockTypes DEF LearnQueue, UnlearnQueue
  <2>4. CASE Lookup(e)
    BY <2>4 DEF Lookup
  <2>5. CASE UnlearnReload(e) \/ LookupReload(e)
    BY <2>1, <2>5, BlockTypes DEF UnlearnReload, LookupReload
  <2>6. CASE LookupCall(e)
    BY <2>1, <2>6, BlockTypes DEF LookupCall
  <2>. QED  BY <2>2, <2>3, <2>4, <2>5, <2>6 DEF Call
<1>3. \A d \in Dicts : d # e => queue'[d] = queue[d]
  BY <1>2 DEF Enqueue, TypeOK
<1>. QED  BY <1>1, <1>2, <1>3

\* A weak block leaves all but its queue; or the process ends.
LEMMA WeakDoes ==
  ASSUME TypeOK, NEW d \in Dicts, RunWeak(d), ~Death
  PROVE  /\ UNCHANGED <<dict, tmp, group, alive, exists, bin, flush, lookup, main, asked, saved, troubles>>
         /\ d \notin alive /\ queue[d] # <<>>
         /\ queue' = [queue EXCEPT ![d] = Tail(@)]
         /\ queue'[d] = Tail(queue[d]) /\ \A e \in Dicts : e # d => queue'[e] = queue[e]
BY DEF TypeOK, RunWeak, disk, object, threads, history

\* Where no disk failed and one object is in use, a flush goes well.
LEMMA FlushGoesWell ==
  ASSUME NEW e \in Dicts, TypeOK, DiskOf(e), Without({"failed"})',
         FlushStep(e) \/ DiskFails(e)
  PROVE  /\ FlushStep(e)
         /\ WriteHeader(e) => Step(e, "header", "body")
         /\ WriteBody(e) => Step(e, "body", "remove") /\ tmp' = [tmp EXCEPT !.body = TRUE, !.words = Image(e)]
         /\ Rename(e) => /\ Step(e, "rename", "reopen") /\ dict' = tmp /\ saved' = Content(tmp)
                         /\ tmp' = NoDirectory
<1>1. ~DiskFails(e)
  BY DEF DiskFails, Without
<1>2. WriteHeader(e) => Step(e, "header", "body")
  BY DEF WriteHeader, DiskOf, NewDirectory
<1>3. WriteBody(e) => Step(e, "body", "remove") /\ tmp' = [tmp EXCEPT !.body = TRUE, !.words = Image(e)]
  BY DEF WriteBody, DiskOf
<1>4. Rename(e) => /\ Step(e, "rename", "reopen") /\ dict' = tmp /\ saved' = Content(tmp)
                   /\ tmp' = NoDirectory
  BY DEF Rename, DiskOf, Complete
<1>. QED  BY <1>1, <1>2, <1>3, <1>4

LEMMA CleanBySteps ==
  ASSUME NEW e \in Dicts, TypeOK, Shape, DiskOf(e), CleanOf(e), Without(Mishaps)',
         FlushStep(e) \/ DiskFails(e)
  PROVE  CleanOf(e)'
<1>. USE DEF object
<1>1. Without({"failed"})'
  BY DEF Without, Mishaps
<1>2. UNCHANGED <<alive, exists, queue>>
  BY DEF FlushStep, DiskFails, MakeTmp, WriteHeader, WriteBody, RemoveDict, Rename, Reopen
<1>3. e \in alive => bin[e].state # "nil"
  <2>1. Flushing(e)
    BY DEF Flushing, FlushStep, MakeTmp, WriteHeader, WriteBody, RemoveDict, Rename, Reopen,
         DiskFails, Step
  <2>. QED  BY <2>1 DEF Shape, ShapeOf, CleanOf
<1>4. ASSUME NEW f \in Steps, NEW t \in Steps, Step(e, f, t) PROVE CleanOf(e)'
  <2>1. flush'[e].stale = flush[e].stale /\ bin' = bin
    BY <1>4, StepResult
  <2>. QED  BY <1>2, <1>3, <2>1 DEF CleanOf
<1>5. CASE Reopen(e)
  <2>1. /\ flush'[e] = NoFlush
        /\ bin'[e] = IF e \in alive THEN Opened(dict) ELSE Nil
    BY <1>5 DEF Reopen, Finish, CleanOf, TypeOK
  <2>. QED  BY <1>2, <2>1 DEF NoFlush, CleanOf, Opened, OpenWith, JustMade, Nil
<1>6. Reopen(e) \/ \E f, t \in Steps : Step(e, f, t)
  BY <1>1, FlushGoesWell DEF FlushStep, MakeTmp, RemoveDict, Steps
<1>. QED  BY <1>4, <1>5, <1>6

LEMMA CleanByBlocks ==
  ASSUME NEW e \in Dicts, TypeOK, Shape, CleanOf(e), Without(Mishaps)', RunBlock(e)
  PROVE  CleanOf(e)'
<1>. USE DEF object, threads
<1>0. queue[e] # <<>> /\ e \in alive /\ queue[e] \in Seq(Block) /\ ~RunDiscard(e)
  <2>1. queue[e] # <<>> /\ e \in alive /\ queue[e] \in Seq(Block)
    BY DEF TypeOK, RunBlock, RunUpdate, RunUnlearn, RunReload, RunRead, RunDiscard, HeadIs
  <2>2. ~RunDiscard(e)
    BY <2>1, TailElements DEF CleanOf, RunDiscard, HeadIs
  <2>. QED  BY <2>1, <2>2
<1>1. queue'[e] = Tail(queue[e]) /\ NoDiscard(queue'[e])
  <2>1. queue'[e] = Tail(queue[e])
    BY <1>0 DEF CleanOf, RunBlock, RunUpdate, RunUnlearn, RunReload, RunRead, TypeOK
  <2>. QED  BY <1>0, <2>1, NoDiscardTail DEF CleanOf, NoDiscard
<1>2. CASE RunUpdate(e) \/ RunUnlearn(e) \/ RunRead(e)
  <2>1. bin[e].state # "nil"
    BY <1>0, <1>2 DEF CleanOf, RunUpdate, RunUnlearn, RunRead, HeadIs
  <2>2. flush' = flush /\ bin'[e].state = bin[e].state /\ bin'[e].corrupted = bin[e].corrupted
    BY <1>2 DEF RunUpdate, RunUnlearn, RunRead, TypeOK, Binary
  <2>. QED  BY <1>1, <2>1, <2>2 DEF CleanOf, NoDiscard
<1>3. CASE RunReload(e)
  <2>1. CASE bin[e].state # "nil"
    <3>1. exists[e] /\ UNCHANGED <<dict, flush, bin>>
      BY <1>3, <2>1 DEF RunReload, Reload, Without, Mishaps
    <3>. QED  BY <1>1, <2>1, <3>1 DEF CleanOf, NoDiscard
  <2>2. CASE bin[e].state = "nil" /\ exists[e]
    <3>1. Complete(dict) /\ UNCHANGED <<dict, flush>> /\ bin'[e] = Opened(dict)
      BY <1>0, <1>3, <2>2 DEF RunReload, Reload, CleanOf, TypeOK
    <3>. QED  BY <1>1, <3>1 DEF CleanOf, NoDiscard, Opened, OpenWith, JustMade
  <2>3. CASE bin[e].state = "nil" /\ ~exists[e]
    <3>1. flush[e].stale \/ ~Flushing(e)
      BY <2>3 DEF Shape, ShapeOf
    <3>2. flush' = flush /\ bin'[e] = OpenWith({})
      BY <1>3, <2>3, <3>1 DEF RunReload, Reload, Replace, Orphaned, CleanOf, TypeOK
    <3>. QED  BY <1>1, <3>2 DEF CleanOf, NoDiscard, OpenWith, JustMade
  <2>. QED  BY <2>1, <2>2, <2>3 DEF TypeOK
<1>. QED  BY <1>0, <1>2, <1>3 DEF RunBlock

LEMMA CleanKept ==
  ASSUME TypeOK, Shape, Shape', Single, DiskInv, Clean, [Next]_vars
  PROVE  Clean'
<1>. SUFFICES ASSUME Without(Mishaps)', NEW e \in Dicts PROVE CleanOf(e)'
  BY DEF Clean
<1>. USE DEF object, threads, disk
<1>0. Without(Mishaps) /\ Without({"overlap"})'
  BY WithoutBefore DEF Without, Mishaps
<1>1. CleanOf(e) /\ (Without({"overlap"}) /\ DiskOf(e)) /\ queue[e] \in Seq(Block)
  BY <1>0 DEF Clean, DiskInv, Without, Mishaps, TypeOK
<1>2. ASSUME Death PROVE CleanOf(e)'
  BY <1>2 DEF Death, CleanOf, Nil, JustMade, NoFlush
<1>3. ASSUME NEW d \in Dicts, RunWeak(d) PROVE CleanOf(e)'
  <2>1. CASE Death
    BY <1>2, <2>1
  <2>2. CASE ~Death
    <3>1. NoDiscard(queue'[e]) /\ (e \in alive => queue'[e] = queue[e])
      BY <1>1, <1>3, <2>2, WeakDoes, NoDiscardTail DEF CleanOf, NoDiscard
    <3>. QED  BY <1>1, <1>3, <2>2, <3>1, WeakDoes DEF CleanOf, NoDiscard, Complete
  <2>. QED  BY <2>1, <2>2
<1>4. CASE UNCHANGED vars
  BY <1>1, <1>4 DEF vars, CleanOf, Complete
<1>5. CASE InUse(e)
  <2>1. CASE FlushStep(e) \/ DiskFails(e)
    BY <1>1, <2>1, CleanBySteps
  <2>2. CASE RunBlock(e)
    BY <1>1, <2>2, CleanByBlocks
  <2>3. CASE Call(e)
    <3>1. CASE queue' = queue
      BY <1>1, <2>3, <3>1, CallDoes DEF CleanOf, Complete
    <3>2. ASSUME NEW b \in Block, b.kind # "discard", Enqueue(e, b) PROVE CleanOf(e)'
      <4>1. queue'[e] = Append(queue[e], b)
        BY <3>2 DEF Enqueue, TypeOK
      <4>2. /\ NoDiscard(queue'[e]) /\ queue'[e] # <<>>
            /\ queue[e] # <<>> => Head(queue'[e]) = Head(queue[e])
        BY <1>1, <3>2, <4>1, NoDiscardAppend DEF CleanOf, NoDiscard
      <4>. QED  BY <1>1, <2>3, <4>2, CallDoes DEF CleanOf, NoDiscard, Complete
    <3>. QED  BY <2>3, <3>1, <3>2, CallDoes
  <2>4. CASE Handle(e)
    <3>1. UNCHANGED <<dict, exists, queue>> /\ alive' \subseteq alive
      BY <2>4 DEF Handle, Save, Release, LastReference, Dealloc
    <3>2. ~flush'[e].stale /\ ~bin'[e].corrupted /\ (e \in alive' => bin'[e] = bin[e])
      BY <1>1, <2>4 DEF Handle, Save, Release, LastReference, Dealloc, FlushOf, Nil, JustMade, TypeOK, CleanOf
    <3>. QED  BY <1>1, <3>1, <3>2 DEF CleanOf, Complete
  <2>. QED  BY <1>0, <1>2, <1>3, <1>4, <1>5, <2>1, <2>2, <2>3, <2>4, StepOf
<1>6. CASE ~InUse(e)
  <2>1. bin[e] = Nil /\ ~Flushing(e) /\ e \notin alive
    BY <1>6 DEF InUse, Shape, ShapeOf
  <2>2. CASE InUse(e)'
    <3>1. Create(e)
      BY <1>6, <2>2, UseStays
    <3>. QED  BY <1>1, <2>1, <3>1 DEF Create, CleanOf, Plain, Nil, JustMade, TypeOK, Complete
  <2>3. CASE ~InUse(e)' /\ ~Death
    <3>1. e \notin alive' /\ ~bin'[e].corrupted
      BY <2>3 DEF InUse, Shape, ShapeOf, Nil, JustMade
    <3>2. flush'[e] = flush[e]
      BY <1>6, <2>3, UnusedStep
    <3>3. NoDiscard(queue'[e])
      BY <1>1, <1>6, <2>3, UnusedStep, NoDiscardTail DEF CleanOf, NoDiscard
    <3>. QED  BY <1>1, <3>1, <3>2, <3>3 DEF CleanOf, NoDiscard
  <2>. QED  BY <1>2, <2>2, <2>3
<1>. QED  BY <1>5, <1>6

THEOREM CleanInvariant == Spec => []Clean
<1>1. Init => Clean
  BY DEF Init, Clean, CleanOf, NoFlush, Nil, JustMade
<1>2. TypeOK /\ Shape /\ Shape' /\ Single /\ DiskInv /\ Clean /\ [Next]_vars => Clean'
  BY CleanKept
<1>. QED  BY <1>1, <1>2, TypeCorrect, ShapeInvariant, OneObject, DiskInvariant, PTL DEF Spec

-----------------------------------------------------------------------------
(* What was saved stays.                                                    *)

\* The saved words are in the directory, but between its removal and the rename;
\* in whatever a flush is about to put there; and in the memory that a flush may
\* write next.
OnFile == (\A d \in Dicts : flush[d].at # "rename") => saved \subseteq Content(dict)
SavedOf(d) ==
  /\ flush[d].at \in {"remove", "rename"} => saved \subseteq tmp.words
  /\ Flushing(d) /\ flush[d].fixed /\ flush[d].at # "reopen" => saved \subseteq flush[d].image
  /\ bin[d].state = "open" /\ flush[d].at # "reopen" => saved \subseteq bin[d].words
MishapsOrCut == Mishaps \cup {"cut"}
SavedInv == Without(MishapsOrCut) => OnFile /\ \A d \in Dicts : SavedOf(d)

\* Of an object that is not in use nothing is asked.
LEMMA SavedOfUnused ==
  ASSUME NEW d \in Dicts, bin[d] = Nil, ~Flushing(d)
  PROVE  SavedOf(d)
BY DEF Flushing, SavedOf, Nil, JustMade

LEMMA SavedBySteps ==
  ASSUME NEW e \in Dicts, TypeOK, Shape, DiskOf(e), CleanOf(e), Without(Mishaps)',
         OnFile, SavedOf(e), \A d \in Dicts : InUse(d) => d = e,
         FlushStep(e) \/ DiskFails(e)
  PROVE  SavedOf(e)' /\ OnFile'
<1>. USE DEF object, history
<1>0. Without({"failed"})' /\ flush[e].stale = FALSE /\ bin[e].state = "open"
  <2>1. Flushing(e)
    BY DEF Flushing, FlushStep, MakeTmp, WriteHeader, WriteBody, RemoveDict, Rename, Reopen,
         DiskFails, Step
  <2>. QED  BY <2>1 DEF Without, Mishaps, CleanOf, Shape, ShapeOf, TypeOK, Flush
<1>1. UNCHANGED alive /\ \A d \in Dicts : d # e => ~Flushing(d)
  BY DEF FlushStep, DiskFails, MakeTmp, WriteHeader, WriteBody, RemoveDict, Rename, Reopen, InUse
<1>2. \A d \in Dicts : d # e => flush[d].at = "idle" /\ flush'[d] = flush[d]
  BY <1>1 DEF FlushStep, DiskFails, MakeTmp, WriteHeader, WriteBody, RemoveDict, Rename, Reopen,
              Step, Fail, Finish, Flushing, TypeOK
<1>3. CASE MakeTmp(e)
  <2>1. Step(e, "mkdir", "header") /\ UNCHANGED <<dict, saved>>
    BY <1>3 DEF MakeTmp
  <2>2. /\ flush[e].at = "mkdir" /\ flush'[e].at = "header" /\ bin' = bin
        /\ flush'[e].fixed = flush[e].fixed /\ flush'[e].image = flush[e].image
    BY <2>1, StepResult DEF Steps
  <2>. QED  BY <1>2, <2>1, <2>2 DEF SavedOf, OnFile, Content, Complete, Flushing
<1>4. CASE WriteHeader(e)
  <2>1. Step(e, "header", "body") /\ UNCHANGED <<dict, saved>>
    BY <1>0, <1>4, FlushGoesWell DEF WriteHeader
  <2>2. /\ flush[e].at = "header" /\ flush'[e].at = "body" /\ bin' = bin
        /\ flush'[e].fixed = flush[e].fixed /\ flush'[e].image = flush[e].image
    BY <2>1, StepResult DEF Steps
  <2>. QED  BY <1>2, <2>1, <2>2 DEF SavedOf, OnFile, Content, Complete, Flushing
<1>5. CASE WriteBody(e)
  <2>1. /\ Step(e, "body", "remove") /\ UNCHANGED <<dict, saved>>
        /\ tmp' = [tmp EXCEPT !.body = TRUE, !.words = Image(e)]
    BY <1>0, <1>5, FlushGoesWell DEF WriteBody
  <2>2. /\ flush[e].at = "body" /\ flush'[e].at = "remove" /\ bin' = bin
        /\ flush'[e].fixed = flush[e].fixed /\ flush'[e].image = flush[e].image
    BY <2>1, StepResult DEF Steps
  <2>3. saved \subseteq Image(e)
    BY <1>0, <2>2 DEF SavedOf, Image, Flushing
  <2>4. tmp'.words = Image(e)
    BY <2>1 DEF TypeOK, Directory
  <2>. QED  BY <1>2, <2>1, <2>2, <2>3, <2>4 DEF SavedOf, OnFile, Content, Complete, Flushing
<1>6. CASE RemoveDict(e)
  <2>1. Step(e, "remove", "rename") /\ UNCHANGED <<tmp, saved>>
    BY <1>6 DEF RemoveDict
  <2>2. /\ flush[e].at = "remove" /\ flush'[e].at = "rename" /\ bin' = bin
        /\ flush'[e].fixed = flush[e].fixed /\ flush'[e].image = flush[e].image
    BY <2>1, StepResult DEF Steps
  <2>. QED  BY <2>1, <2>2 DEF SavedOf, OnFile, Flushing
<1>7. CASE Rename(e)
  <2>1. Step(e, "rename", "reopen") /\ dict' = tmp /\ saved' = Content(tmp)
    BY <1>0, <1>7, FlushGoesWell
  <2>2. flush'[e].at = "reopen"
    BY <2>1, StepResult DEF Steps
  <2>. QED  BY <2>1, <2>2 DEF SavedOf, OnFile, Content, Complete
<1>8. CASE Reopen(e)
  <2>1. /\ flush'[e] = NoFlush /\ UNCHANGED <<dict, saved>> /\ flush[e].at = "reopen"
        /\ bin'[e] = IF e \in alive THEN Opened(dict) ELSE Nil
    BY <1>0, <1>8 DEF Reopen, Finish, TypeOK, disk
  <2>2. saved \subseteq Content(dict)
    BY <1>2, <2>1 DEF OnFile
  <2>. QED  BY <1>2, <2>1, <2>2
       DEF NoFlush, SavedOf, OnFile, Opened, OpenWith, JustMade, Nil, Content, Complete, Flushing
<1>9. FlushStep(e)
  BY <1>0, FlushGoesWell
<1>. QED  BY <1>3, <1>4, <1>5, <1>6, <1>7, <1>8, <1>9 DEF FlushStep

LEMMA SavedByBlocks ==
  ASSUME NEW e \in Dicts, TypeOK, Shape, CleanOf(e), Without(Mishaps)',
         OnFile, SavedOf(e), \A d \in Dicts : InUse(d) => d = e, RunBlock(e)
  PROVE  SavedOf(e)' /\ OnFile'
<1>. USE DEF object, threads, history, disk
<1>0. queue[e] # <<>> /\ e \in alive /\ queue[e] \in Seq(Block) /\ ~RunDiscard(e)
  <2>1. queue[e] # <<>> /\ e \in alive /\ queue[e] \in Seq(Block)
    BY DEF TypeOK, RunBlock, RunUpdate, RunUnlearn, RunReload, RunRead, RunDiscard, HeadIs
  <2>2. ~RunDiscard(e)
    BY <2>1, TailElements DEF CleanOf, RunDiscard, HeadIs
  <2>. QED  BY <2>1, <2>2
<1>1. UNCHANGED tmp
  BY DEF RunBlock, RunUpdate, RunUnlearn, RunReload, RunRead, RunDiscard
<1>2. CASE RunUpdate(e) \/ RunRead(e)
  <2>1. /\ UNCHANGED <<dict, flush, saved>> /\ bin'[e].state = bin[e].state
        /\ bin[e].words \subseteq bin'[e].words
    BY <1>2 DEF RunUpdate, RunRead, TypeOK, Binary, disk
  <2>. QED  BY <1>1, <2>1 DEF SavedOf, OnFile, Content, Complete, Flushing
<1>3. CASE RunUnlearn(e)
  <2>1. CASE UNCHANGED bin
    BY <1>1, <1>3, <2>1 DEF RunUnlearn, SavedOf, OnFile, Content, Complete, Flushing, disk
  <2>2. CASE ~UNCHANGED bin
    <3>1. /\ UNCHANGED <<dict, flush>>
          /\ bin'[e].words = bin[e].words \ {Head(queue[e]).word}
          /\ bin'[e].state = bin[e].state
          /\ saved' = saved \ {Head(queue[e]).word}
      BY <1>3, <2>2 DEF RunUnlearn, TypeOK, Binary, disk
    <3>. QED  BY <1>1, <3>1 DEF SavedOf, OnFile, Content, Complete, Flushing
  <2>. QED  BY <2>1, <2>2
<1>4. CASE RunReload(e)
  <2>0. UNCHANGED saved
    BY <1>4 DEF RunReload
  <2>1. CASE bin[e].state # "nil"
    <3>1. UNCHANGED <<dict, flush, bin>>
      BY <1>4, <2>1 DEF RunReload, Reload, Without, Mishaps
    <3>. QED  BY <1>1, <2>0, <3>1 DEF SavedOf, OnFile, Content, Complete, Flushing
  <2>2. CASE bin[e].state = "nil"
    <3>1. ~Flushing(e)
      BY <2>2 DEF Shape, ShapeOf, CleanOf
    <3>2. \A d \in Dicts : ~Flushing(d)
      BY <3>1 DEF InUse
    <3>3. saved \subseteq Content(dict)
      BY <3>2 DEF OnFile, Flushing
    <3>4. flush' = flush
      BY <1>4, <3>1 DEF RunReload, Reload, Replace, Orphaned
    <3>5. CASE exists[e]
      <4>1. Complete(dict) /\ UNCHANGED <<dict, flush>> /\ bin'[e] = OpenWith(dict.words)
        BY <1>0, <1>4, <2>2, <3>5 DEF RunReload, Reload, CleanOf, TypeOK, Opened
      <4>2. saved \subseteq bin'[e].words
        BY <3>3, <4>1 DEF Content, OpenWith, JustMade
      <4>. QED  BY <2>0, <3>1, <3>3, <4>1, <4>2 DEF SavedOf, OnFile, Flushing, Content, Complete
    <3>6. CASE ~exists[e]
      <4>1. saved = {}
        BY <1>0, <2>2, <3>3, <3>6 DEF CleanOf, Content
      <4>. QED  BY <2>0, <4>1 DEF SavedOf, OnFile
    <3>. QED  BY <3>5, <3>6
  <2>. QED  BY <2>1, <2>2
<1>. QED  BY <1>0, <1>2, <1>3, <1>4 DEF RunBlock

LEMMA SavedKept ==
  ASSUME TypeOK, Shape, Shape', Single, DiskInv, Clean, SavedInv, [Next]_vars
  PROVE  SavedInv'
<1>. SUFFICES ASSUME Without(MishapsOrCut)' PROVE OnFile' /\ \A e \in Dicts : SavedOf(e)'
  BY DEF SavedInv
<1>. USE DEF object, threads, disk
<1>0. /\ Without(MishapsOrCut) /\ Without(Mishaps)' /\ Without(Mishaps)
      /\ Without({"overlap"})' /\ Without({"overlap"})
  BY WithoutBefore DEF Without, Mishaps, MishapsOrCut
<1>1. OnFile /\ \A e \in Dicts : SavedOf(e) /\ DiskOf(e) /\ CleanOf(e)
  BY <1>0 DEF Clean, DiskInv, SavedInv
<1>2. ASSUME UNCHANGED <<dict, tmp, bin, flush, saved>>
      PROVE  OnFile' /\ \A e \in Dicts : SavedOf(e)'
  BY <1>1, <1>2 DEF OnFile, SavedOf, Content, Complete, Flushing
<1>3. ASSUME Death PROVE OnFile' /\ \A e \in Dicts : SavedOf(e)'
  <2>1. \A d \in Dicts : flush[d].at # "rename"
    BY <1>3 DEF Death, Without, MishapsOrCut
  <2>2. OnFile'
    BY <1>1, <1>3, <2>1 DEF Death, OnFile, Content, Complete
  <2>. QED  BY <1>3, <2>2 DEF Death, SavedOf, Nil, JustMade, NoFlush, Flushing
<1>4. ASSUME NEW d \in Dicts, RunWeak(d) PROVE OnFile' /\ \A e \in Dicts : SavedOf(e)'
  BY <1>2, <1>3, <1>4 DEF RunWeak, history
<1>5. CASE UNCHANGED vars
  BY <1>2, <1>5 DEF vars, history
<1>6. ASSUME NEW e \in Dicts, InUse(e) PROVE OnFile' /\ \A d \in Dicts : SavedOf(d)'
  <2>0. \A d \in Dicts : InUse(d) => d = e
    BY <1>0, <1>6 DEF Single
  <2>1. ASSUME SavedOf(e)', OnFile' PROVE OnFile' /\ \A d \in Dicts : SavedOf(d)'
    <3>1. ASSUME NEW d \in Dicts, d # e PROVE SavedOf(d)'
      <4>1. ~InUse(d) /\ ~Create(d)
        BY <1>0, <1>6, <2>0, <3>1 DEF Create, Without
      <4>2. ~InUse(d)'
        BY <4>1, UseStays
      <4>. QED  BY <4>2 DEF InUse, Shape, ShapeOf, Flushing, SavedOf, Nil, JustMade
    <3>. QED  BY <2>1, <3>1
  <2>2. CASE FlushStep(e) \/ DiskFails(e)
    BY <1>0, <1>1, <2>0, <2>1, <2>2, SavedBySteps
  <2>3. CASE RunBlock(e)
    BY <1>0, <1>1, <2>0, <2>1, <2>3, SavedByBlocks
  <2>4. CASE Call(e)
    BY <1>2, <2>4, CallDoes
  <2>5. CASE Handle(e)
    <3>1. UNCHANGED <<dict, tmp, saved>>
      BY <2>5 DEF Handle, Save, Release, LastReference, history
    <3>2. CASE UNCHANGED <<bin, flush>>
      BY <1>2, <3>1, <3>2
    <3>3. CASE \E gc, m \in BOOLEAN : NeedsFlush(e, gc) /\ flush' = [flush EXCEPT ![e] = FlushOf(e, gc, m)]
                                      /\ UNCHANGED bin /\ ~Flushing(e)
      <4>1. PICK gc \in BOOLEAN, m \in BOOLEAN :
              flush'[e] = FlushOf(e, gc, m) /\ UNCHANGED bin /\ NeedsFlush(e, gc)
              /\ flush[e].at = "idle"
        BY <3>3 DEF TypeOK, Flushing
      <4>2. SavedOf(e)'
        BY <1>1, <3>1, <4>1 DEF SavedOf, FlushOf, NeedsFlush, Flushing
      <4>3. OnFile'
        <5>1. \A d \in Dicts : flush[d].at # "rename"
          BY <2>0, <4>1 DEF InUse, Flushing
        <5>. QED  BY <1>1, <3>1, <5>1 DEF OnFile, Content, Complete
      <4>. QED  BY <2>1, <4>2, <4>3
    <3>4. CASE bin' = [bin EXCEPT ![e] = Nil] /\ UNCHANGED flush
      BY <1>1, <2>1, <3>1, <3>4 DEF SavedOf, OnFile, Nil, JustMade, TypeOK, Content, Complete, Flushing
    <3>5. Handle(e) => \/ UNCHANGED <<bin, flush>>
                       \/ \E gc, m \in BOOLEAN : NeedsFlush(e, gc) /\ flush' = [flush EXCEPT ![e] = FlushOf(e, gc, m)]
                                                 /\ UNCHANGED bin /\ ~Flushing(e)
                       \/ bin' = [bin EXCEPT ![e] = Nil] /\ UNCHANGED flush
      <4>1. ASSUME NEW gc \in BOOLEAN, Save(e, gc)
            PROVE  NeedsFlush(e, gc) /\ flush' = [flush EXCEPT ![e] = FlushOf(e, gc, TRUE)]
                   /\ UNCHANGED bin /\ ~Flushing(e)
        BY <4>1, StoreAssumption DEF Save, MainIdle, Shape, ShapeOf
      <4>2. ASSUME NEW gc \in BOOLEAN, Release(e, gc) \/ LastReference(e, gc)
            PROVE  UNCHANGED <<bin, flush>> \/ (~Flushing(e) /\ \E m \in BOOLEAN : Dealloc(e, gc, m))
        BY <4>2, StoreAssumption DEF Release, LastReference, MainIdle, Shape, ShapeOf
      <4>. QED  BY <4>1, <4>2 DEF Handle, Dealloc
    <3>. QED  BY <2>5, <3>2, <3>3, <3>4, <3>5
  <2>. QED  BY <1>0, <1>3, <1>4, <1>5, <1>6, <2>2, <2>3, <2>4, <2>5, StepOf
<1>7. CASE \A d \in Dicts : ~InUse(d)
  <2>1. ASSUME NEW d \in Dicts, Create(d) PROVE OnFile' /\ \A e \in Dicts : SavedOf(e)'
    BY <1>2, <2>1 DEF Create
  <2>. QED  BY <1>3, <1>4, <1>5, <1>7, <2>1, IdleStep
<1>. QED  BY <1>6, <1>7

\* Whatever was saved and not removed since is on the disk in every state, where
\* no disk failed, no two objects overlapped, no second reload was queued and the
\* process was not killed just before a rename.
THEOREM SavedWordsStay == Spec => []SavedStays
<1>1. Init => SavedInv
  BY DEF Init, SavedInv, SavedOf, OnFile, NoFlush, Nil, JustMade, Flushing
<1>2. TypeOK /\ Shape /\ Shape' /\ Single /\ DiskInv /\ Clean /\ SavedInv /\ [Next]_vars => SavedInv'
  BY SavedKept
<1>3. DiskInv /\ SavedInv => SavedStays
  <2>. SUFFICES ASSUME DiskInv, SavedInv, Without(MishapsOrCut) PROVE saved \subseteq OnDisk
    BY DEF SavedStays, Without, MishapsOrCut, Mishaps
  <2>1. OnFile /\ \A d \in Dicts : DiskOf(d) /\ SavedOf(d)
    BY DEF DiskInv, SavedInv, Without, MishapsOrCut, Mishaps
  <2>2. CASE \A d \in Dicts : flush[d].at # "rename"
    BY <2>1, <2>2 DEF OnFile, OnDisk, Content
  <2>3. ASSUME NEW d \in Dicts, flush[d].at = "rename" PROVE saved \subseteq OnDisk
    BY <2>1, <2>3 DEF DiskOf, SavedOf, OnDisk, Content, Complete
  <2>. QED  BY <2>2, <2>3
<1>. QED  BY <1>1, <1>2, <1>3, TypeCorrect, ShapeInvariant, OneObject, DiskInvariant, CleanInvariant,
             PTL DEF Spec

-----------------------------------------------------------------------------
(* What the blocks of a queue will do.                                      *)

LEMMA BlockKinds ==
  /\ \A b \in Block : b.word = None <=> b.kind \notin {"update", "unlearn"}
  /\ \A b \in Block : b.kind \in {"update", "unlearn"} <=> b.word \in Words
  /\ \A w \in Words : /\ Update(w).word = w /\ Update(w).kind = "update"
                      /\ Unlearn(w).word = w /\ Unlearn(w).kind = "unlearn"
  /\ \A k \in {"reload", "read", "discard"} : Plain(k).word = None /\ Plain(k).kind = k
BY StoreAssumption DEF Block, Update, Unlearn, Plain

\* Where no block is about w, nothing will happen to it.
LEMMA WillIdle ==
  ASSUME NEW q \in Seq(Block), NEW h, NEW w \in Words,
         \A i \in DOMAIN q : q[i].kind \notin {"update", "unlearn"}
  PROVE  Will(q, h, w) <=> w \in h
<1>1. \A i \in DOMAIN q : q[i] \in Block
  OBVIOUS
<1>2. Chores(q, w) = {}
  BY <1>1, BlockKinds DEF Chores
<1>. QED  BY <1>2 DEF Will

\* A block about another word, or about none, changes nothing for w.
LEMMA WillAppendOther ==
  ASSUME NEW q \in Seq(Block), NEW h, NEW w \in Words, NEW b \in Block, b.word # w
  PROVE  Will(Append(q, b), h, w) <=> Will(q, h, w)
<1>1. Chores(Append(q, b), w) = Chores(q, w)
  BY AppendElements DEF Chores
<1>2. \A i \in Chores(q, w) : Append(q, b)[i] = q[i]
  BY AppendElements DEF Chores
<1>. QED  BY <1>1, <1>2 DEF Will

\* The last block about w decides.
LEMMA WillAppendOwn ==
  ASSUME NEW q \in Seq(Block), NEW h, NEW w \in Words, NEW b \in Block, b.word = w
  PROVE  Will(Append(q, b), h, w) <=> b.kind = "update"
<1>1. Len(q) + 1 \in Chores(Append(q, b), w)
  BY AppendElements DEF Chores
<1>2. \A i \in Chores(Append(q, b), w) : i \in 1 .. Len(q) + 1
  BY AppendElements DEF Chores
<1>3. Append(q, b)[Len(q) + 1] = b
  BY AppendElements
<1>4. \A i \in Chores(Append(q, b), w) :
         (\A j \in Chores(Append(q, b), w) : j <= i) <=> i = Len(q) + 1
  BY <1>1, <1>2
<1>5. Chores(Append(q, b), w) # {}
  BY <1>1
<1>. QED  BY <1>1, <1>3, <1>4, <1>5 DEF Will

\* The first block is run: what it makes of w takes its place.
LEMMA WillTail ==
  ASSUME NEW q \in Seq(Block), q # <<>>, NEW h, NEW g, NEW w \in Words,
         w \in g <=> IF Head(q).word = w THEN Head(q).kind = "update" ELSE w \in h
  PROVE  Will(q, h, w) <=> Will(Tail(q), g, w)
<1>0. q[1] = Head(q) /\ 1 \in DOMAIN q /\ DOMAIN q = 1 .. Len(q) /\ Len(q) \in Nat
  OBVIOUS
<1>1. \A i \in Chores(Tail(q), w) : i \in Nat /\ i >= 1 /\ i + 1 \in Chores(q, w) /\ q[i + 1] = Tail(q)[i]
  <2>1. \A i \in DOMAIN Tail(q) : i \in Nat /\ i >= 1 /\ i + 1 \in DOMAIN q /\ Tail(q)[i] = q[i + 1]
    OBVIOUS
  <2>. QED  BY <2>1 DEF Chores
<1>2. \A i \in Chores(q, w) : i \in Nat /\ (i # 1 => i - 1 \in Chores(Tail(q), w) /\ Tail(q)[i - 1] = q[i])
  <2>1. \A i \in DOMAIN q : i \in Nat /\ (i # 1 => i - 1 \in DOMAIN Tail(q) /\ Tail(q)[i - 1] = q[i])
    OBVIOUS
  <2>. QED  BY <2>1 DEF Chores
<1>3. 1 \in Chores(q, w) <=> Head(q).word = w
  BY <1>0 DEF Chores
<1>4. CASE Chores(Tail(q), w) = {}
  <2>1. \A i \in Chores(q, w) : i = 1
    BY <1>2, <1>4
  <2>2. CASE Head(q).word = w
    <3>1. Chores(q, w) = {1}
      BY <1>3, <2>1, <2>2
    <3>. QED  BY <1>0, <1>4, <2>2, <3>1 DEF Will
  <2>3. CASE Head(q).word # w
    <3>1. Chores(q, w) = {}
      BY <1>3, <2>1, <2>3
    <3>. QED  BY <1>4, <2>3, <3>1 DEF Will
  <2>. QED  BY <2>2, <2>3
<1>5. CASE Chores(Tail(q), w) # {}
  <2>1. Chores(q, w) # {}
    BY <1>1, <1>5
  <2>2. ASSUME NEW i \in Chores(Tail(q), w), Tail(q)[i].kind = "update",
               \A j \in Chores(Tail(q), w) : j <= i
        PROVE  Will(q, h, w)
    <3>1. \A j \in Chores(q, w) : j <= i + 1
      BY <1>1, <1>2, <2>2
    <3>. QED  BY <1>1, <2>1, <2>2, <3>1 DEF Will
  <2>3. ASSUME NEW i \in Chores(q, w), q[i].kind = "update", \A j \in Chores(q, w) : j <= i
        PROVE  Will(Tail(q), g, w)
    <3>1. PICK k \in Chores(Tail(q), w) : TRUE
      BY <1>5
    <3>2. i # 1
      BY <1>1, <2>3, <3>1
    <3>3. i - 1 \in Chores(Tail(q), w) /\ Tail(q)[i - 1].kind = "update"
      BY <1>2, <2>3, <3>2
    <3>4. \A j \in Chores(Tail(q), w) : j <= i - 1
      BY <1>1, <1>2, <2>3
    <3>. QED  BY <1>5, <3>3, <3>4 DEF Will
  <2>. QED  BY <1>5, <2>1, <2>2, <2>3 DEF Will
<1>. QED  BY <1>4, <1>5

-----------------------------------------------------------------------------
(* What the user taught.                                                    *)

\* The object in use will know what was asked of it; what a flush writes, and
\* the file of an object that has nothing to write, is what it knows.
Knows(d) == \A w \in Words : w \in asked <=> Will(queue[d], Held(d), w)
WrittenOf(d) ==
  /\ bin[d].state = "open" /\ ~Flushing(d) /\ ~bin[d].updated => Content(dict) = bin[d].words
  /\ flush[d].at \in {"remove", "rename"} => tmp.words = bin[d].words
  /\ Flushing(d) /\ flush[d].fixed => flush[d].image = bin[d].words
  /\ flush[d].at = "reopen" => Content(dict) = bin[d].words
Untroubled == Mishaps \cup {"raced"}
AskedOnFile == (\A d \in Dicts : ~InUse(d)) => asked = Content(dict)
KnowInv ==
  Without(Untroubled) =>
    /\ AskedOnFile
    /\ \A d \in Dicts : WrittenOf(d) /\ (InUse(d) => Knows(d))

\* An object that is being freed has no block that changes a word.
LEMMA FreedKnows ==
  ASSUME TypeOK, Shape, NEW d \in Dicts, ~Retained(d), NEW w \in Words, NEW h
  PROVE  Will(queue[d], h, w) <=> w \in h
BY WillIdle DEF TypeOK, Retained

LEMMA KnownBySteps ==
  ASSUME NEW e \in Dicts, TypeOK, Shape, DiskOf(e), CleanOf(e), Without(Mishaps)',
         WrittenOf(e), Knows(e), FlushStep(e) \/ DiskFails(e)
  PROVE  /\ WrittenOf(e)'
         /\ IF InUse(e)' THEN Knows(e)' ELSE asked' = Content(dict)'
<1>. USE DEF object, history, disk
<1>0. Without({"failed"})' /\ flush[e].stale = FALSE /\ bin[e].state = "open" /\ Flushing(e)
  <2>1. Flushing(e)
    BY DEF Flushing, FlushStep, MakeTmp, WriteHeader, WriteBody, RemoveDict, Rename, Reopen,
         DiskFails, Step
  <2>. QED  BY <2>1 DEF Without, Mishaps, CleanOf, Shape, ShapeOf, TypeOK, Flush
<1>1. UNCHANGED <<alive, queue, asked>>
  BY DEF FlushStep, DiskFails, MakeTmp, WriteHeader, WriteBody, RemoveDict, Rename, Reopen
<1>2. ASSUME UNCHANGED bin, flush'[e].at # "idle" PROVE InUse(e)' /\ Knows(e)'
  BY <1>0, <1>1, <1>2 DEF InUse, Flushing, Knows, Held
<1>3. CASE MakeTmp(e)
  <2>1. Step(e, "mkdir", "header") /\ UNCHANGED dict
    BY <1>3 DEF MakeTmp
  <2>2. /\ flush[e].at = "mkdir" /\ flush'[e].at = "header" /\ bin' = bin
        /\ flush'[e].fixed = flush[e].fixed /\ flush'[e].image = flush[e].image
    BY <2>1, StepResult DEF Steps
  <2>. QED  BY <1>2, <2>1, <2>2 DEF WrittenOf, Content, Complete, Flushing
<1>4. CASE WriteHeader(e)
  <2>1. Step(e, "header", "body") /\ UNCHANGED dict
    BY <1>0, <1>4, FlushGoesWell DEF WriteHeader
  <2>2. /\ flush[e].at = "header" /\ flush'[e].at = "body" /\ bin' = bin
        /\ flush'[e].fixed = flush[e].fixed /\ flush'[e].image = flush[e].image
    BY <2>1, StepResult DEF Steps
  <2>. QED  BY <1>2, <2>1, <2>2 DEF WrittenOf, Content, Complete, Flushing
<1>5. CASE WriteBody(e)
  <2>1. /\ Step(e, "body", "remove") /\ UNCHANGED dict
        /\ tmp' = [tmp EXCEPT !.body = TRUE, !.words = Image(e)]
    BY <1>0, <1>5, FlushGoesWell DEF WriteBody
  <2>2. /\ flush[e].at = "body" /\ flush'[e].at = "remove" /\ bin' = bin
        /\ flush'[e].fixed = flush[e].fixed /\ flush'[e].image = flush[e].image
    BY <2>1, StepResult DEF Steps
  <2>3. Image(e) = bin[e].words
    BY <1>0 DEF WrittenOf, Image
  <2>4. tmp'.words = bin[e].words
    BY <2>1, <2>3 DEF TypeOK, Directory
  <2>. QED  BY <1>2, <2>1, <2>2, <2>4 DEF WrittenOf, Content, Complete, Flushing
<1>6. CASE RemoveDict(e)
  <2>1. Step(e, "remove", "rename") /\ UNCHANGED tmp
    BY <1>6 DEF RemoveDict
  <2>2. /\ flush[e].at = "remove" /\ flush'[e].at = "rename" /\ bin' = bin
        /\ flush'[e].fixed = flush[e].fixed /\ flush'[e].image = flush[e].image
    BY <2>1, StepResult DEF Steps
  <2>. QED  BY <1>2, <2>1, <2>2 DEF WrittenOf, Flushing
<1>7. CASE Rename(e)
  <2>1. Step(e, "rename", "reopen") /\ dict' = tmp
    BY <1>0, <1>7, FlushGoesWell
  <2>2. /\ flush[e].at = "rename" /\ flush'[e].at = "reopen" /\ bin' = bin
        /\ flush'[e].fixed = flush[e].fixed /\ flush'[e].image = flush[e].image
    BY <2>1, StepResult DEF Steps
  <2>3. Content(dict)' = bin[e].words
    BY <2>1, <2>2 DEF DiskOf, WrittenOf, Content, Complete
  <2>. QED  BY <1>2, <2>2, <2>3 DEF WrittenOf, Flushing
<1>8. CASE Reopen(e)
  <2>1. /\ flush'[e] = NoFlush /\ UNCHANGED dict /\ flush[e].at = "reopen"
        /\ bin'[e] = IF e \in alive THEN Opened(dict) ELSE Nil
    BY <1>0, <1>8 DEF Reopen, Finish, TypeOK
  <2>2. Content(dict) = bin[e].words /\ Complete(dict) /\ Content(dict) = dict.words
    BY <1>0, <2>1 DEF WrittenOf, DiskOf, Content
  <2>3. CASE e \in alive
    <3>1. bin'[e] = OpenWith(bin[e].words)
      BY <2>1, <2>2, <2>3 DEF Opened
    <3>2. Held(e)' = Held(e) /\ InUse(e)'
      BY <1>0, <1>1, <2>3, <3>1 DEF Held, OpenWith, JustMade, InUse
    <3>3. Knows(e)'
      BY <1>1, <3>2 DEF Knows
    <3>4. WrittenOf(e)'
      BY <2>1, <2>2, <3>1 DEF WrittenOf, OpenWith, JustMade, NoFlush, Content, Complete, Flushing
    <3>. QED  BY <3>2, <3>3, <3>4
  <2>4. CASE e \notin alive
    <3>1. ~InUse(e)' /\ ~Retained(e)
      BY <1>1, <2>1, <2>4 DEF InUse, Flushing, NoFlush, Shape, ShapeOf
    <3>2. asked = bin[e].words
      <4>1. \A w \in Words : w \in asked <=> w \in bin[e].words
        BY <1>0, <3>1, FreedKnows DEF Knows, Held
      <4>. QED  BY <4>1 DEF TypeOK, Binary
    <3>3. asked' = Content(dict)'
      BY <1>1, <2>1, <2>2, <3>2 DEF Content, Complete
    <3>4. WrittenOf(e)'
      BY <2>1, <2>4 DEF WrittenOf, NoFlush, Nil, JustMade, Flushing
    <3>. QED  BY <3>1, <3>3, <3>4
  <2>. QED  BY <2>3, <2>4
<1>9. FlushStep(e)
  BY <1>0, FlushGoesWell
<1>. QED  BY <1>3, <1>4, <1>5, <1>6, <1>7, <1>8, <1>9 DEF FlushStep

LEMMA KnownByBlocks ==
  ASSUME NEW e \in Dicts, TypeOK, Shape, DiskOf(e), CleanOf(e), Without(Untroubled)',
         WrittenOf(e), Knows(e), RunBlock(e)
  PROVE  WrittenOf(e)' /\ InUse(e)' /\ Knows(e)'
<1>. USE DEF object, threads, history, disk
<1>0. queue[e] # <<>> /\ e \in alive /\ queue[e] \in Seq(Block) /\ ~RunDiscard(e)
      /\ Head(queue[e]) \in Block
  <2>1. queue[e] # <<>> /\ e \in alive /\ queue[e] \in Seq(Block)
    BY DEF TypeOK, RunBlock, RunUpdate, RunUnlearn, RunReload, RunRead, RunDiscard, HeadIs
  <2>2. ~RunDiscard(e)
    BY <2>1, TailElements DEF CleanOf, RunDiscard, HeadIs
  <2>. QED  BY <2>1, <2>2
<1>1. /\ UNCHANGED <<tmp, alive, asked>> /\ queue'[e] = Tail(queue[e]) /\ InUse(e)'
  BY <1>0 DEF RunBlock, RunUpdate, RunUnlearn, RunReload, RunRead, CleanOf, TypeOK, InUse
<1>2. ASSUME \A w \in Words : w \in Held(e)' <=>
               IF Head(queue[e]).word = w THEN Head(queue[e]).kind = "update" ELSE w \in Held(e)
      PROVE  Knows(e)'
  <2>1. ASSUME NEW w \in Words
        PROVE  Will(queue[e], Held(e), w) <=> Will(Tail(queue[e]), Held(e)', w)
    BY <1>0, <1>2, WillTail
  <2>. QED  BY <1>1, <2>1 DEF Knows
<1>3. CASE RunUpdate(e) \/ RunUnlearn(e)
  <2>1. bin[e].state = "open"
    BY <1>0, <1>3 DEF CleanOf, DiskOf, RunUpdate, RunUnlearn, HeadIs, TypeOK, Binary
  <2>2. UNCHANGED <<dict, flush>> /\ bin'[e].state = "open"
    BY <1>3, <2>1 DEF RunUpdate, RunUnlearn, TypeOK, Binary
  <2>a. Head(queue[e]).word \in Words /\ bin[e] \in Binary
    BY <1>0, <1>3, BlockKinds DEF RunUpdate, RunUnlearn, HeadIs, TypeOK
  <2>b. ASSUME RunUpdate(e)
        PROVE  /\ Head(queue[e]).kind = "update"
               /\ bin'[e].words = bin[e].words \cup {Head(queue[e]).word}
               /\ ~Flushing(e) /\ bin'[e].updated
    <3>1. /\ Head(queue[e]).kind = "update"
          /\ bin' = [bin EXCEPT ![e].words = @ \cup {Head(queue[e]).word}, ![e].updated = TRUE]
          /\ troubles' = Race(e)
      BY <2>1, <2>b DEF RunUpdate, HeadIs
    <3>2. bin'[e] = [bin[e] EXCEPT !.words = @ \cup {Head(queue[e]).word}, !.updated = TRUE]
      BY <3>1 DEF TypeOK
    <3>3. bin'[e].words = bin[e].words \cup {Head(queue[e]).word} /\ bin'[e].updated
      BY <2>a, <3>2 DEF Binary
    <3>4. ~Flushing(e)
      BY <3>1 DEF Race, Without, Untroubled
    <3>. QED  BY <3>1, <3>3, <3>4
  <2>c. ASSUME RunUnlearn(e)
        PROVE  /\ Head(queue[e]).kind = "unlearn"
               /\ bin'[e].words = bin[e].words \ {Head(queue[e]).word}
               /\ bin'[e] = bin[e] \/ (~Flushing(e) /\ bin'[e].updated)
    <3>1. Head(queue[e]).kind = "unlearn"
      BY <2>c DEF RunUnlearn, HeadIs
    <3>2. CASE Head(queue[e]).word \in bin[e].words
      <4>1. /\ bin' = [bin EXCEPT ![e].words = @ \ {Head(queue[e]).word}, ![e].updated = TRUE]
            /\ troubles' = Race(e)
        BY <2>1, <2>c, <3>2 DEF RunUnlearn
      <4>2. bin'[e] = [bin[e] EXCEPT !.words = @ \ {Head(queue[e]).word}, !.updated = TRUE]
        BY <4>1 DEF TypeOK
      <4>3. bin'[e].words = bin[e].words \ {Head(queue[e]).word} /\ bin'[e].updated
        BY <2>a, <4>2 DEF Binary
      <4>4. ~Flushing(e)
        BY <4>1 DEF Race, Without, Untroubled
      <4>. QED  BY <3>1, <4>3, <4>4
    <3>3. CASE Head(queue[e]).word \notin bin[e].words
      <4>1. bin' = bin
        BY <2>c, <3>3 DEF RunUnlearn
      <4>. QED  BY <3>1, <3>3, <4>1
    <3>. QED  BY <3>2, <3>3
  <2>3. bin'[e].words = IF Head(queue[e]).kind = "update" THEN bin[e].words \cup {Head(queue[e]).word}
                        ELSE bin[e].words \ {Head(queue[e]).word}
    BY <1>3, <2>b, <2>c
  <2>4. bin'[e] = bin[e] \/ (~Flushing(e) /\ bin'[e].updated)
    BY <1>3, <2>b, <2>c
  <2>5. WrittenOf(e)'
    BY <1>1, <2>2, <2>4 DEF WrittenOf, Content, Complete, Flushing
  <2>. QED  BY <1>1, <1>2, <2>1, <2>2, <2>a, <2>3, <2>5 DEF Held
<1>4. CASE RunRead(e)
  <2>1. UNCHANGED <<dict, flush, bin>> /\ Head(queue[e]).word \notin Words
    BY <1>0, <1>4, BlockKinds DEF RunRead, HeadIs
  <2>. QED  BY <1>1, <1>2, <2>1 DEF Held, WrittenOf, Content, Complete, Flushing
<1>5. CASE RunReload(e)
  <2>0. Head(queue[e]).word \notin Words
    BY <1>0, <1>5, BlockKinds DEF RunReload, HeadIs
  <2>1. CASE bin[e].state # "nil"
    <3>1. UNCHANGED <<dict, flush, bin>>
      BY <1>5, <2>1 DEF RunReload, Reload, Without, Untroubled, Mishaps
    <3>. QED  BY <1>1, <1>2, <2>0, <3>1 DEF Held, WrittenOf, Content, Complete, Flushing
  <2>2. CASE bin[e].state = "nil"
    <3>1. ~Flushing(e) /\ exists[e] = Complete(dict)
      BY <1>0, <2>2 DEF Shape, ShapeOf, CleanOf
    <3>2. flush' = flush
      BY <1>5, <3>1 DEF RunReload, Reload, Replace, Orphaned
    <3>3. bin'[e] = OpenWith(Content(dict)) /\ Content(dict)' = Content(dict)
      <4>1. CASE exists[e]
        BY <1>5, <2>2, <3>1, <4>1 DEF RunReload, Reload, Opened, Content, Complete, TypeOK
      <4>2. CASE ~exists[e]
        BY <1>5, <2>2, <3>1, <4>2
        DEF RunReload, Reload, Replace, NoDirectory, Content, Complete, TypeOK
      <4>. QED  BY <4>1, <4>2
    <3>4. Held(e)' = Held(e)
      BY <2>2, <3>3 DEF Held, OpenWith, JustMade
    <3>. QED  BY <1>1, <1>2, <2>0, <3>1, <3>2, <3>3, <3>4 DEF WrittenOf, OpenWith, JustMade, Flushing
  <2>. QED  BY <2>1, <2>2
<1>. QED  BY <1>0, <1>3, <1>4, <1>5 DEF RunBlock

LEMMA KnownByCalls ==
  ASSUME NEW e \in Dicts, TypeOK, Shape, WrittenOf(e), InUse(e), Knows(e), Call(e)
  PROVE  WrittenOf(e)' /\ InUse(e)' /\ Knows(e)'
<1>. USE DEF disk, object, history
<1>1. UNCHANGED <<dict, tmp, alive, bin, flush>>
  BY CallDoes
<1>2. WrittenOf(e)' /\ InUse(e)' /\ Held(e)' = Held(e)
  BY <1>1 DEF WrittenOf, InUse, Held, Flushing, Content, Complete
<1>3. ASSUME NEW b \in Block, Enqueue(e, b),
             asked' = IF b.kind = "update" THEN asked \cup {b.word}
                      ELSE IF b.kind = "unlearn" THEN asked \ {b.word} ELSE asked
      PROVE  Knows(e)'
  <2>1. queue[e] \in Seq(Block) /\ queue'[e] = Append(queue[e], b)
    BY <1>3 DEF Enqueue, TypeOK
  <2>2. ASSUME NEW w \in Words PROVE w \in asked' <=> Will(queue[e], Held(e), w)'
    <3>1. CASE b.word = w
      <4>1. Will(Append(queue[e], b), Held(e), w) <=> b.kind = "update"
        BY <2>1, <3>1, WillAppendOwn
      <4>2. b.kind \in {"update", "unlearn"}
        BY <3>1, BlockKinds
      <4>. QED  BY <1>2, <1>3, <2>1, <3>1, <4>1, <4>2
    <3>2. CASE b.word # w
      <4>1. Will(Append(queue[e], b), Held(e), w) <=> Will(queue[e], Held(e), w)
        BY <2>1, <3>2, WillAppendOther
      <4>2. w \in asked' <=> w \in asked
        BY <1>3, <3>2
      <4>. QED  BY <1>2, <2>1, <4>1, <4>2 DEF Knows
    <3>. QED  BY <3>1, <3>2
  <2>. QED  BY <2>2 DEF Knows
<1>4. CASE UNCHANGED <<queue, asked>>
  BY <1>2, <1>4 DEF Knows
<1>5. ASSUME NEW w \in Words, LearnQueue(e, w) PROVE Knows(e)'
  BY <1>3, <1>5, BlockTypes, BlockKinds DEF LearnQueue
<1>6. ASSUME NEW w \in Words, UnlearnQueue(e, w) PROVE Knows(e)'
  BY <1>3, <1>6, BlockTypes, BlockKinds DEF UnlearnQueue
<1>7. CASE UnlearnReload(e) \/ LookupReload(e)
  <2>1. Plain("reload") \in Block /\ Plain("reload").kind = "reload"
    BY BlockTypes, BlockKinds
  <2>2. Enqueue(e, Plain("reload")) /\ asked' = asked
    BY <1>7 DEF UnlearnReload, LookupReload
  <2>3. Knows(e)'
    BY <1>3, <2>1, <2>2
  <2>. QED  BY <1>2, <2>3
<1>8. CASE LookupCall(e)
  <2>1. Plain("read") \in Block /\ Plain("read").kind = "read"
    BY BlockTypes, BlockKinds
  <2>2. Enqueue(e, Plain("read")) /\ asked' = asked
    BY <1>8 DEF LookupCall
  <2>3. Knows(e)'
    BY <1>3, <2>1, <2>2
  <2>. QED  BY <1>2, <2>3
<1>9. CASE Lookup(e) \/ \E w \in Words : Learn(e, w) \/ Unlearning(e, w)
  BY <1>4, <1>9 DEF Lookup, Learn, Unlearning
<1>. QED  BY <1>2, <1>5, <1>6, <1>7, <1>8, <1>9 DEF Call

\* What asking for a flush, or letting an object go, does.
LEMMA HandleDoes ==
  ASSUME TypeOK, Shape, NEW e \in Dicts, Handle(e)
  PROVE  /\ UNCHANGED <<dict, tmp, queue, lookup, asked, saved>>
         /\ \/ UNCHANGED <<alive, bin, flush>>
            \/ /\ ~Flushing(e) /\ UNCHANGED bin
               /\ \E gc, m \in BOOLEAN :
                    NeedsFlush(e, gc) /\ flush' = [flush EXCEPT ![e] = FlushOf(e, gc, m)]
            \/ /\ ~Flushing(e) /\ ~Retained(e) /\ UNCHANGED flush
               /\ \E gc \in BOOLEAN : ~NeedsFlush(e, gc)
               /\ bin' = [bin EXCEPT ![e] = Nil] /\ alive' = alive \ {e}
<1>. USE DEF disk, history, object
<1>1. UNCHANGED <<dict, tmp, queue, lookup, asked, saved>>
  BY DEF Handle, Save, Release, LastReference
<1>2. ASSUME NEW gc \in BOOLEAN, Save(e, gc)
      PROVE  NeedsFlush(e, gc) /\ flush' = [flush EXCEPT ![e] = FlushOf(e, gc, TRUE)]
             /\ UNCHANGED bin /\ ~Flushing(e)
  BY <1>2, StoreAssumption DEF Save, MainIdle, Shape, ShapeOf
<1>3. ASSUME NEW gc \in BOOLEAN, Release(e, gc) \/ LastReference(e, gc)
      PROVE  \/ UNCHANGED <<alive, bin, flush>>
             \/ ~Flushing(e) /\ ~Retained(e) /\ \E m \in BOOLEAN : Dealloc(e, gc, m)
  BY <1>3, StoreAssumption DEF Release, LastReference, MainIdle, Shape, ShapeOf
<1>. QED  BY <1>1, <1>2, <1>3 DEF Handle, Dealloc

LEMMA KnownByHandling ==
  ASSUME NEW e \in Dicts, TypeOK, Shape, DiskOf(e), WrittenOf(e), InUse(e), Knows(e), Handle(e)
  PROVE  /\ WrittenOf(e)'
         /\ IF InUse(e)' THEN Knows(e)' ELSE asked' = Content(dict)'
<1>1. UNCHANGED <<dict, tmp, queue, asked>>
  BY HandleDoes
<1>2. CASE UNCHANGED <<alive, bin, flush>>
  BY <1>1, <1>2 DEF WrittenOf, Knows, Held, InUse, Flushing, Content, Complete
<1>3. CASE /\ ~Flushing(e) /\ UNCHANGED bin
           /\ \E gc, m \in BOOLEAN :
                NeedsFlush(e, gc) /\ flush' = [flush EXCEPT ![e] = FlushOf(e, gc, m)]
  <2>1. PICK gc \in BOOLEAN, m \in BOOLEAN : flush'[e] = FlushOf(e, gc, m)
    BY <1>3 DEF TypeOK
  <2>2. WrittenOf(e)' /\ InUse(e)'
    BY <1>1, <1>3, <2>1 DEF WrittenOf, FlushOf, InUse, Flushing
  <2>. QED  BY <1>1, <1>3, <2>2 DEF Knows, Held, Content, Complete
<1>4. CASE /\ ~Flushing(e) /\ ~Retained(e) /\ UNCHANGED flush
           /\ \E gc \in BOOLEAN : ~NeedsFlush(e, gc)
           /\ bin' = [bin EXCEPT ![e] = Nil] /\ alive' = alive \ {e}
  <2>1. ~InUse(e)' /\ bin'[e] = Nil
    BY <1>4 DEF InUse, Flushing, TypeOK
  <2>2. Held(e) = Content(dict)
    BY <1>4 DEF NeedsFlush, DiskOf, WrittenOf, Held, TypeOK, Binary
  <2>3. asked = Content(dict)
    <3>1. \A w \in Words : w \in asked <=> w \in Content(dict)
      BY <1>4, <2>2, FreedKnows DEF Knows
    <3>2. Content(dict) \subseteq Words
      BY DirectoryTypes DEF TypeOK
    <3>. QED  BY <3>1, <3>2 DEF TypeOK
  <2>4. WrittenOf(e)'
    BY <1>4, <2>1 DEF WrittenOf, Nil, JustMade, Flushing
  <2>. QED  BY <1>1, <2>1, <2>3, <2>4 DEF Content, Complete
<1>. QED  BY <1>2, <1>3, <1>4, HandleDoes

LEMMA KnownKept ==
  ASSUME TypeOK, Shape, Shape', Single, DiskInv, Clean, KnowInv, [Next]_vars
  PROVE  KnowInv'
<1>. SUFFICES ASSUME Without(Untroubled)'
              PROVE  /\ AskedOnFile'
                     /\ \A d \in Dicts : WrittenOf(d)' /\ (InUse(d)' => Knows(d)')
  BY DEF KnowInv
<1>. DEFINE Goal == AskedOnFile' /\ \A d \in Dicts : WrittenOf(d)' /\ (InUse(d)' => Knows(d)')
<1>. USE DEF object, threads, disk, history
<1>0. /\ Without(Untroubled) /\ Without(Mishaps)' /\ Without(Mishaps)
      /\ Without({"overlap"})' /\ Without({"overlap"})
  BY WithoutBefore DEF Without, Mishaps, Untroubled
<1>1. /\ AskedOnFile
      /\ \A d \in Dicts : WrittenOf(d) /\ (InUse(d) => Knows(d)) /\ DiskOf(d) /\ CleanOf(d)
  BY <1>0 DEF Clean, DiskInv, KnowInv
<1>2. ASSUME Death PROVE Goal
  BY <1>2 DEF Death, AskedOnFile, WrittenOf, InUse, Content, Complete, Nil, JustMade, NoFlush, Flushing
<1>3. CASE UNCHANGED vars
  BY <1>1, <1>3 DEF vars, AskedOnFile, WrittenOf, InUse, Knows, Held, Content, Complete, Flushing
<1>4. ASSUME NEW d \in Dicts, RunWeak(d) PROVE Goal
  <2>1. CASE Death
    BY <1>2, <2>1
  <2>2. CASE ~Death
    <3>1. /\ UNCHANGED <<dict, tmp, alive, exists, bin, flush, asked, lookup>>
          /\ d \notin alive /\ queue[d] # <<>>
          /\ queue' = [queue EXCEPT ![d] = Tail(@)]
          /\ \A e \in Dicts : e # d => queue'[e] = queue[e]
      <4>1. UNCHANGED bin
        BY <1>4, <2>2 DEF RunWeak
      <4>. QED  BY <1>4, <2>2, <4>1, WeakDoes
    <3>2. AskedOnFile' /\ \A e \in Dicts : WrittenOf(e)'
      BY <1>1, <3>1 DEF AskedOnFile, WrittenOf, InUse, Content, Complete, Flushing
    <3>3. ASSUME NEW e \in Dicts, InUse(e)' PROVE Knows(e)'
      <4>1. Knows(e) /\ Held(e)' = Held(e) /\ asked' = asked
        BY <1>1, <3>1, <3>3 DEF InUse, Held, Flushing, Content, Complete
      <4>2. CASE e = d
        <5>1. ~Retained(e)
          BY <3>1, <4>2 DEF Shape, ShapeOf
        <5>2. ~Retained(e)' /\ queue'[e] \in Seq(Block)
          <6>1. Retained(e)' => Retained(e)
            BY <3>1, <4>2, RetainedByTail
          <6>2. queue'[e] \in Seq(Block)
            BY <3>1, <4>2, QueueTypes DEF TypeOK
          <6>. QED  BY <5>1, <6>1, <6>2
        <5>3. \A w \in Words : Will(queue'[e], Held(e), w) <=> w \in Held(e)
          BY <5>2, WillIdle DEF Retained
        <5>4. \A w \in Words : Will(queue[e], Held(e), w) <=> w \in Held(e)
          BY <5>1, FreedKnows
        <5>. QED  BY <4>1, <5>3, <5>4 DEF Knows
      <4>3. CASE e # d
        BY <3>1, <4>1, <4>3 DEF Knows
      <4>. QED  BY <4>2, <4>3
    <3>. QED  BY <3>2, <3>3
  <2>. QED  BY <2>1, <2>2
<1>5. ASSUME NEW e \in Dicts, InUse(e) PROVE Goal
  <2>0. \A d \in Dicts : InUse(d) => d = e
    BY <1>0, <1>5 DEF Single
  <2>1. ASSUME WrittenOf(e)', IF InUse(e)' THEN Knows(e)' ELSE asked' = Content(dict)' PROVE Goal
    <3>1. ASSUME NEW d \in Dicts, d # e PROVE WrittenOf(d)' /\ ~InUse(d)'
      <4>1. ~InUse(d) /\ ~Create(d)
        BY <1>0, <1>5, <2>0, <3>1 DEF Create, Without
      <4>2. ~InUse(d)'
        BY <4>1, UseStays
      <4>. QED  BY <4>2 DEF InUse, Shape, ShapeOf, Flushing, WrittenOf, Nil, JustMade
    <3>. QED  BY <2>1, <3>1 DEF AskedOnFile
  <2>2. CASE FlushStep(e) \/ DiskFails(e)
    BY <1>0, <1>1, <1>5, <2>1, <2>2, KnownBySteps
  <2>3. CASE RunBlock(e)
    BY <1>1, <1>5, <2>1, <2>3, KnownByBlocks
  <2>4. CASE Call(e)
    BY <1>1, <1>5, <2>1, <2>4, KnownByCalls
  <2>5. CASE Handle(e)
    BY <1>1, <1>5, <2>1, <2>5, KnownByHandling
  <2>. QED  BY <1>0, <1>2, <1>3, <1>4, <1>5, <2>2, <2>3, <2>4, <2>5, StepOf
<1>6. CASE \A d \in Dicts : ~InUse(d)
  <2>1. ASSUME NEW d \in Dicts, Create(d) PROVE Goal
    <3>1. /\ UNCHANGED <<dict, tmp, bin, flush, asked>> /\ d \in alive'
          /\ queue'[d] = <<Plain("reload")>> /\ bin[d] = Nil
          /\ \A e \in Dicts : e # d => ~InUse(e)'
      <4>1. \A e \in Dicts : e # d => ~InUse(e)'
        BY <1>6, <2>1 DEF Create, InUse, Flushing
      <4>2. bin[d] = Nil
        BY <1>6 DEF InUse, Shape, ShapeOf
      <4>. QED  BY <2>1, <4>1, <4>2 DEF Create, TypeOK
    <3>2. Held(d)' = Content(dict) /\ asked = Content(dict)
      BY <1>1, <1>6, <3>1 DEF Held, Nil, JustMade, Content, Complete, AskedOnFile
    <3>3. \A w \in Words : Will(<<Plain("reload")>>, Held(d)', w) <=> w \in Held(d)'
      <4>1. <<Plain("reload")>> \in Seq(Block)
            /\ \A i \in DOMAIN <<Plain("reload")>> : <<Plain("reload")>>[i].kind = "reload"
        BY BlockTypes, BlockKinds
      <4>. QED  BY <4>1, WillIdle
    <3>4. Knows(d)'
      BY <3>1, <3>2, <3>3 DEF Knows
    <3>5. \A e \in Dicts : WrittenOf(e)'
      BY <1>1, <3>1 DEF WrittenOf, Content, Complete, Flushing
    <3>6. AskedOnFile'
      BY <3>1 DEF AskedOnFile, InUse
    <3>. QED  BY <3>1, <3>4, <3>5, <3>6
  <2>. QED  BY <1>2, <1>3, <1>4, <1>6, <2>1, IdleStep
<1>. QED  BY <1>5, <1>6

\* What is known, written and asked agree while nothing goes wrong.
THEOREM KnowInvariant == Spec => []KnowInv
<1>1. Init => KnowInv
  BY DEF Init, KnowInv, AskedOnFile, WrittenOf, InUse, NoFlush, Nil, JustMade, Flushing, Content,
         Complete, NoDirectory
<1>2. TypeOK /\ Shape /\ Shape' /\ Single /\ DiskInv /\ Clean /\ KnowInv /\ [Next]_vars => KnowInv'
  BY KnownKept
<1>. QED  BY <1>1, <1>2, TypeCorrect, ShapeInvariant, OneObject, DiskInvariant, CleanInvariant,
             PTL DEF Spec

\* Through saves, resets, memory warnings and the flush of an object that is
\* freed, the dictionary comes to know exactly what the user taught it.
THEOREM KnowsWhatWasTaughtAlways == Spec => []KnowsWhatWasTaught
<1>1. KnowInv => KnowsWhatWasTaught
  BY DEF KnowInv, KnowsWhatWasTaught, Knows, AskedOnFile, Without, Untroubled, Mishaps
<1>. QED  BY <1>1, KnowInvariant, PTL

-----------------------------------------------------------------------------
(* What a flush writes.                                                     *)

\* Where no block ran beside a flush, what a flush holds, what it has put into
\* the temporary directory and what it has renamed are the words in memory.
WritesOf(d) ==
  Flushing(d) =>
    /\ ~flush[d].stale
    /\ flush[d].fixed => flush[d].image = bin[d].words
    /\ flush[d].at \in {"remove", "rename"} => tmp.words = bin[d].words
    /\ flush[d].at = "reopen" => dict.words = bin[d].words
Races == {"overlap", "raced"}
WritesInv == Without(Races) => \A d \in Dicts : WritesOf(d)

\* Where no block ran beside a flush and no two objects overlapped, a flush
\* that is about to read the file again has written the words in memory, all
\* of them and no other, to a complete directory: whatever disk failed before,
\* whatever was reloaded, and however many processes were killed.
WritesExactly ==
  Without(Races) =>
    \A d \in Dicts :
      flush[d].at = "reopen" =>
        ~flush[d].stale /\ Complete(dict) /\ dict.words = bin[d].words

\* A step of a flush keeps it: the one that writes the body writes the words in
\* memory, and one that fails ends the flush.
LEMMA WritesBySteps ==
  ASSUME NEW e \in Dicts, TypeOK, DiskOf(e), WritesOf(e), FlushStep(e) \/ DiskFails(e)
  PROVE  WritesOf(e)'
<1>. USE DEF object, history, disk
<1>1. ASSUME flush'[e] = NoFlush PROVE WritesOf(e)'
  BY <1>1 DEF WritesOf, Flushing, NoFlush
<1>2. ASSUME Fail(e) PROVE WritesOf(e)'
  BY <1>1, <1>2 DEF Fail, Finish, TypeOK
<1>3. CASE DiskFails(e)
  BY <1>2, <1>3 DEF DiskFails
<1>4. CASE MakeTmp(e)
  <2>1. Step(e, "mkdir", "header")
    BY <1>4 DEF MakeTmp
  <2>. QED  BY <2>1, StepResult DEF WritesOf, Flushing, Steps
<1>5. CASE WriteHeader(e)
  <2>1. Step(e, "header", "body") \/ Fail(e)
    BY <1>5 DEF WriteHeader
  <2>2. ASSUME Step(e, "header", "body") PROVE WritesOf(e)'
    BY <2>2, StepResult DEF WritesOf, Flushing, Steps
  <2>. QED  BY <1>2, <2>1, <2>2
<1>6. CASE WriteBody(e)
  <2>1. CASE tmp.there /\ ~tmp.body
    <3>1. Step(e, "body", "remove") /\ tmp' = [tmp EXCEPT !.body = TRUE, !.words = Image(e)]
      BY <1>6, <2>1 DEF WriteBody
    <3>2. /\ flush[e].at = "body" /\ flush'[e].at = "remove" /\ bin' = bin
          /\ flush'[e].fixed = flush[e].fixed /\ flush'[e].image = flush[e].image
          /\ flush'[e].stale = flush[e].stale
      BY <3>1, StepResult DEF Steps
    <3>3. Image(e) = bin[e].words
      BY <3>2 DEF WritesOf, Flushing, Image
    <3>4. tmp'.words = bin[e].words
      BY <3>1, <3>3 DEF TypeOK, Directory
    <3>. QED  BY <3>2, <3>4 DEF WritesOf, Flushing
  <2>2. CASE ~(tmp.there /\ ~tmp.body)
    BY <1>2, <1>6, <2>2 DEF WriteBody
  <2>. QED  BY <2>1, <2>2
<1>7. CASE RemoveDict(e)
  <2>1. Step(e, "remove", "rename") /\ UNCHANGED tmp
    BY <1>7 DEF RemoveDict
  <2>. QED  BY <2>1, StepResult DEF WritesOf, Flushing, Steps
<1>8. CASE Rename(e)
  <2>1. CASE tmp.there /\ ~dict.there
    <3>1. Step(e, "rename", "reopen") /\ dict' = tmp
      BY <1>8, <2>1 DEF Rename
    <3>2. /\ flush[e].at = "rename" /\ flush'[e].at = "reopen" /\ bin' = bin
          /\ flush'[e].fixed = flush[e].fixed /\ flush'[e].image = flush[e].image
          /\ flush'[e].stale = flush[e].stale
      BY <3>1, StepResult DEF Steps
    <3>. QED  BY <3>1, <3>2 DEF WritesOf, Flushing
  <2>2. CASE ~(tmp.there /\ ~dict.there)
    BY <1>2, <1>8, <2>2 DEF Rename
  <2>. QED  BY <2>1, <2>2
<1>9. CASE Reopen(e)
  BY <1>1, <1>9 DEF Reopen, Finish, TypeOK
<1>. QED  BY <1>3, <1>4, <1>5, <1>6, <1>7, <1>8, <1>9 DEF FlushStep

\* A block that changes what a flush writes is noted as a race; any other leaves
\* the flush and its words alone.
LEMMA BlockBesideFlush ==
  ASSUME NEW e \in Dicts, TypeOK, Flushing(e), RunBlock(e), Without({"raced"})'
  PROVE  UNCHANGED <<dict, tmp, bin, flush>>
<1>. USE DEF object, threads, disk
<1>1. troubles' # Race(e) /\ \A K : troubles' # Race(e) \cup K
  BY DEF Race, Without
<1>2. ~RunReload(e) /\ ~RunDiscard(e)
  BY <1>1 DEF RunReload, RunDiscard
<1>3. CASE RunUpdate(e)
  BY <1>1, <1>3 DEF RunUpdate
<1>4. CASE RunUnlearn(e)
  BY <1>1, <1>4 DEF RunUnlearn
<1>5. CASE RunRead(e)
  BY <1>5 DEF RunRead
<1>. QED  BY <1>2, <1>3, <1>4, <1>5 DEF RunBlock

\* Nor does a block start a flush.
LEMMA BlockWithoutFlush ==
  ASSUME NEW e \in Dicts, TypeOK, ~Flushing(e), RunBlock(e)
  PROVE  flush' = flush
BY DEF RunBlock, RunUpdate, RunUnlearn, RunReload, RunRead, RunDiscard, Reload, Replace,
       Orphaned, threads

LEMMA WritesKept ==
  ASSUME TypeOK, Shape, Shape', Single, DiskInv, WritesInv, [Next]_vars
  PROVE  WritesInv'
<1>. SUFFICES ASSUME Without(Races)', NEW e \in Dicts PROVE WritesOf(e)'
  BY DEF WritesInv
<1>. USE DEF object, threads, disk
<1>0. Without(Races) /\ Without({"overlap"})' /\ Without({"overlap"}) /\ Without({"raced"})'
  BY WithoutBefore DEF Without, Races
<1>1. WritesOf(e) /\ DiskOf(e)
  BY <1>0 DEF DiskInv, WritesInv
<1>2. ASSUME UNCHANGED <<dict, tmp, bin, flush>> PROVE WritesOf(e)'
  BY <1>1, <1>2 DEF WritesOf, Flushing
<1>3. ASSUME ~Flushing(e)' PROVE WritesOf(e)'
  BY <1>3 DEF WritesOf
<1>4. CASE Death
  BY <1>3, <1>4 DEF Death, Flushing, NoFlush
<1>5. ASSUME NEW d \in Dicts, RunWeak(d) PROVE WritesOf(e)'
  BY <1>2, <1>4, <1>5 DEF RunWeak
<1>6. CASE UNCHANGED vars
  BY <1>2, <1>6 DEF vars
<1>7. CASE InUse(e)
  <2>1. CASE FlushStep(e) \/ DiskFails(e)
    BY <1>1, <2>1, WritesBySteps
  <2>2. CASE RunBlock(e)
    <3>1. CASE Flushing(e)
      BY <1>0, <1>2, <2>2, <3>1, BlockBesideFlush
    <3>2. CASE ~Flushing(e)
      BY <1>3, <2>2, <3>2, BlockWithoutFlush DEF Flushing
    <3>. QED  BY <3>1, <3>2
  <2>3. CASE Call(e)
    BY <1>2, <2>3, CallDoes
  <2>4. CASE Handle(e)
    <3>1. UNCHANGED <<dict, tmp>>
      BY <2>4, HandleDoes
    <3>2. CASE UNCHANGED <<alive, bin, flush>>
      BY <1>2, <3>1, <3>2
    <3>3. CASE /\ UNCHANGED bin
               /\ \E gc, m \in BOOLEAN :
                    NeedsFlush(e, gc) /\ flush' = [flush EXCEPT ![e] = FlushOf(e, gc, m)]
      <4>1. PICK gc \in BOOLEAN, m \in BOOLEAN : flush'[e] = FlushOf(e, gc, m)
        BY <3>3 DEF TypeOK
      <4>. QED  BY <3>3, <4>1 DEF WritesOf, FlushOf
    <3>4. CASE ~Flushing(e) /\ UNCHANGED flush
      BY <1>3, <3>4 DEF Flushing
    <3>. QED  BY <2>4, <3>2, <3>3, <3>4, HandleDoes
  <2>. QED  BY <1>0, <1>4, <1>5, <1>6, <1>7, <2>1, <2>2, <2>3, <2>4, StepOf
<1>8. CASE ~InUse(e) /\ InUse(e)'
  <2>1. Create(e)
    BY <1>8, UseStays
  <2>. QED  BY <1>3, <1>8, <2>1 DEF Create, InUse, Flushing
<1>9. CASE ~InUse(e)'
  BY <1>3, <1>9 DEF InUse
<1>. QED  BY <1>7, <1>8, <1>9

\* Where no block ran beside a flush and no two objects overlapped, a flush
\* writes exactly what is in memory; disks that fail, second reloads and kills
\* do not matter.
THEOREM FlushesWriteExactly == Spec => []WritesExactly
<1>1. Init => WritesInv
  BY DEF Init, WritesInv, WritesOf, NoFlush, Flushing
<1>2. TypeOK /\ Shape /\ Shape' /\ Single /\ DiskInv /\ WritesInv /\ [Next]_vars => WritesInv'
  BY WritesKept
<1>3. DiskInv /\ WritesInv => WritesExactly
  BY DEF DiskInv, DiskOf, WritesInv, WritesOf, Flushing, WritesExactly, Without, Races
<1>. QED  BY <1>1, <1>2, <1>3, TypeCorrect, ShapeInvariant, OneObject, DiskInvariant, PTL DEF Spec

\* What the comment at CMExpandableBinaryDictionary.h:27 says of a flush holds but
\* for the two races: a block beside the flush, and two objects of one file.
THEOREM CommentHoldsUnlessRaced == Spec => [](Without(Races) => FlushWritesMemory)
<1>1. WritesExactly => (Without(Races) => FlushWritesMemory)
  BY DEF WritesExactly, FlushWritesMemory, Content
<1>. QED  BY <1>1, FlushesWriteExactly, PTL
-----------------------------------------------------------------------------
(* The dictionary and its file are a WordStore.                             *)

\* The words a queue has blocks about.
OfQueue(q) == {w \in Words : Chores(q, w) # {}}

LEMMA OfQueueWords ==
  ASSUME NEW q \in Seq(Block)
  PROVE  OfQueue(q) = {w \in Words : \E i \in DOMAIN q : q[i].word = w}
BY DEF OfQueue, Chores

LEMMA OfQueueAppend ==
  ASSUME NEW q \in Seq(Block), NEW b \in Block
  PROVE  OfQueue(Append(q, b)) = OfQueue(q) \cup {w \in Words : b.word = w}
<1>1. Append(q, b) \in Seq(Block)
  OBVIOUS
<1>2. \A w \in Words : (\E i \in DOMAIN Append(q, b) : Append(q, b)[i].word = w)
                        <=> (\E i \in DOMAIN q : q[i].word = w) \/ b.word = w
  <2>. TAKE w \in Words
  <2>1. ASSUME NEW i \in DOMAIN Append(q, b), Append(q, b)[i].word = w
        PROVE  (\E j \in DOMAIN q : q[j].word = w) \/ b.word = w
    BY <2>1, AppendElements
  <2>2. ASSUME NEW i \in DOMAIN q, q[i].word = w
        PROVE  \E j \in DOMAIN Append(q, b) : Append(q, b)[j].word = w
    BY <2>2, AppendElements
  <2>3. Len(q) + 1 \in DOMAIN Append(q, b) /\ Append(q, b)[Len(q) + 1] = b
    OBVIOUS
  <2>4. b.word = w => \E j \in DOMAIN Append(q, b) : Append(q, b)[j].word = w
    BY <2>3
  <2>. QED  BY <2>1, <2>2, <2>4, Zenon
<1>3. OfQueue(Append(q, b)) = {w \in Words : \E i \in DOMAIN Append(q, b) : Append(q, b)[i].word = w}
  BY <1>1, OfQueueWords
<1>4. OfQueue(q) = {w \in Words : \E i \in DOMAIN q : q[i].word = w}
  BY OfQueueWords
<1>. QED  BY <1>2, <1>3, <1>4, Zenon

LEMMA OfQueueTail ==
  ASSUME NEW q \in Seq(Block), q # <<>>
  PROVE  OfQueue(q) = OfQueue(Tail(q)) \cup {w \in Words : Head(q).word = w}
<1>1. Tail(q) \in Seq(Block)
  OBVIOUS
<1>2. \A w \in Words : (\E i \in DOMAIN q : q[i].word = w)
                        <=> (\E i \in DOMAIN Tail(q) : Tail(q)[i].word = w) \/ Head(q).word = w
  <2>. TAKE w \in Words
  <2>1. ASSUME NEW i \in DOMAIN q, q[i].word = w, i # 1
        PROVE  \E j \in DOMAIN Tail(q) : Tail(q)[j].word = w
    <3>1. i - 1 \in DOMAIN Tail(q) /\ Tail(q)[i - 1] = q[i]
      BY <2>1
    <3>. QED  BY <2>1, <3>1
  <2>2. ASSUME NEW i \in DOMAIN Tail(q), Tail(q)[i].word = w
        PROVE  \E j \in DOMAIN q : q[j].word = w
    BY <2>2, TailElements
  <2>3. Head(q) = q[1] /\ 1 \in DOMAIN q
    BY TailElements
  <2>4. Head(q).word = w => \E i \in DOMAIN q : q[i].word = w
    BY <2>3
  <2>5. ASSUME NEW i \in DOMAIN q, q[i].word = w, i = 1 PROVE Head(q).word = w
    BY <2>3, <2>5
  <2>. QED  BY <2>1, <2>2, <2>4, <2>5, Zenon
<1>3. OfQueue(Tail(q)) = {w \in Words : \E i \in DOMAIN Tail(q) : Tail(q)[i].word = w}
  BY <1>1, OfQueueWords
<1>4. OfQueue(q) = {w \in Words : \E i \in DOMAIN q : q[i].word = w}
  BY OfQueueWords
<1>. QED  BY <1>2, <1>3, <1>4, Zenon

\* An object that nothing retains has no block about a word.
LEMMA OfQueueUnretained ==
  ASSUME NEW q \in Seq(Block), \A i \in DOMAIN q : q[i].kind \notin {"update", "unlearn"}
  PROVE  OfQueue(q) = {}
<1>1. \A i \in DOMAIN q : q[i] \in Block
  OBVIOUS
<1>. QED  BY <1>1, OfQueueWords, BlockKinds

LEMMA WaitingStays ==
  ASSUME \A d \in Dicts : OfQueue(queue'[d]) = OfQueue(queue[d])
  PROVE  Waiting' = Waiting
<1>1. Waiting = {w \in Words : \E d \in Dicts : w \in OfQueue(queue[d])}
  BY DEF Waiting, OfQueue
<1>2. Waiting' = {w \in Words : \E d \in Dicts : w \in OfQueue(queue'[d])}
  BY DEF Waiting, OfQueue
<1>. QED  BY <1>1, <1>2

\* What one object knows, and what is kept, while no other is in use.
KeptBy(d) == IF flush[d].at = "rename" THEN Content(tmp) ELSE Content(dict)

LEMMA OneLoaded ==
  ASSUME NEW b, NEW c, NEW e \in Dicts, \A d \in Dicts : d # e => b[d].state = "nil"
  PROVE  LET loaded == {d \in Dicts : b[d].state # "nil"}
         IN  (IF loaded = {} THEN c ELSE UNION {b[d].words : d \in loaded})
               = (IF b[e].state = "nil" THEN c ELSE b[e].words)
<1>1. CASE b[e].state = "nil"
  <2>1. {d \in Dicts : b[d].state # "nil"} = {}
    BY <1>1
  <2>. QED  BY <1>1, <2>1
<1>2. CASE b[e].state # "nil"
  <2>1. {d \in Dicts : b[d].state # "nil"} = {e}
    BY <1>2
  <2>2. UNION {b[d].words : d \in {e}} = b[e].words
    OBVIOUS
  <2>. QED  BY <1>2, <2>1, <2>2
<1>. QED  BY <1>1, <1>2

\* Seen from outside a dictionary is what the object in use holds.
LEMMA SeenOfOne ==
  ASSUME TypeOK, Shape, NEW e \in Dicts, \A d \in Dicts : InUse(d) => d = e
  PROVE  Known = Held(e) /\ Kept = KeptBy(e) /\ Waiting = OfQueue(queue[e])
<1>1. \A d \in Dicts : d # e => bin[d].state = "nil" /\ flush[d].at # "rename"
  BY DEF InUse, Shape, ShapeOf, Flushing, Nil, JustMade
<1>2. Known = Held(e)
  BY <1>1, OneLoaded DEF Known, Held
<1>3. Kept = KeptBy(e)
  BY <1>1 DEF Kept, KeptBy
<1>4. ASSUME NEW d \in Dicts, d # e PROVE OfQueue(queue[d]) = {}
  <2>1. ~Retained(d)
    BY <1>4 DEF InUse, Shape, ShapeOf
  <2>. QED  BY <2>1, OfQueueUnretained DEF Retained, TypeOK
<1>5. Waiting = OfQueue(queue[e])
  BY <1>4 DEF Waiting, OfQueue
<1>. QED  BY <1>2, <1>3, <1>5

LEMMA SeenOfOneAfter ==
  ASSUME TypeOK', Shape', NEW e \in Dicts, \A d \in Dicts : InUse(d)' => d = e
  PROVE  Known' = Held(e)' /\ Kept' = KeptBy(e)' /\ Waiting' = OfQueue(queue'[e])
<1>1. \A d \in Dicts : d # e => bin'[d].state = "nil" /\ flush'[d].at # "rename"
  BY DEF InUse, Shape, ShapeOf, Flushing, Nil, JustMade
<1>2. Known' = Held(e)'
  BY <1>1, OneLoaded DEF Known, Held
<1>3. Kept' = KeptBy(e)'
  BY <1>1 DEF Kept, KeptBy
<1>4. ASSUME NEW d \in Dicts, d # e PROVE OfQueue(queue'[d]) = {}
  <2>1. ~Retained(d)'
    BY <1>4 DEF InUse, Shape, ShapeOf
  <2>. QED  BY <2>1, OfQueueUnretained DEF Retained, TypeOK
<1>5. Waiting' = OfQueue(queue'[e])
  BY <1>4 DEF Waiting, OfQueue
<1>. QED  BY <1>2, <1>3, <1>5

\* A step of a flush changes what is kept at one moment, and to what is known.
LEMMA StepKeeps ==
  ASSUME NEW e \in Dicts, TypeOK, Shape, DiskOf(e), CleanOf(e), WrittenOf(e),
         Without({"failed"})', FlushStep(e) \/ DiskFails(e)
  PROVE  /\ asked' = asked /\ queue' = queue /\ Held(e)' = Held(e)
         /\ KeptBy(e)' \in {KeptBy(e), Held(e)}
<1>. USE DEF object, history, disk
<1>0. /\ FlushStep(e) /\ UNCHANGED <<alive, asked, queue>>
      /\ ~flush[e].stale /\ bin[e].state = "open" /\ Held(e) = bin[e].words
  <2>0. FlushStep(e)
    BY FlushGoesWell
  <2>1. FlushStep(e) /\ Flushing(e)
    BY <2>0 DEF Flushing, FlushStep, MakeTmp, WriteHeader, WriteBody, RemoveDict,
         Rename, Reopen, Step
  <2>2. UNCHANGED <<alive, asked, queue>>
    BY <2>1 DEF FlushStep, MakeTmp, WriteHeader, WriteBody, RemoveDict, Rename, Reopen
  <2>. QED  BY <2>1, <2>2 DEF CleanOf, Shape, ShapeOf, Held
<1>1. ASSUME UNCHANGED bin PROVE Held(e)' = Held(e)
  BY <1>0, <1>1 DEF Held
<1>2. ASSUME NEW f \in {"mkdir", "header", "body"}, NEW t \in {"header", "body", "remove"},
             Step(e, f, t), UNCHANGED dict
      PROVE  Held(e)' = Held(e) /\ KeptBy(e)' = KeptBy(e)
  <2>1. bin' = bin /\ flush[e].at = f /\ flush'[e].at = t
    BY <1>2 DEF Step, TypeOK, Flush
  <2>. QED  BY <1>1, <1>2, <2>1 DEF KeptBy, Content, Complete
<1>3. CASE MakeTmp(e) \/ WriteHeader(e) \/ WriteBody(e)
  <2>1. UNCHANGED dict
    BY <1>3 DEF MakeTmp, WriteHeader, WriteBody
  <2>2. MakeTmp(e) => Step(e, "mkdir", "header")
    BY DEF MakeTmp
  <2>3. /\ WriteHeader(e) => Step(e, "header", "body")
        /\ WriteBody(e) => Step(e, "body", "remove")
    BY FlushGoesWell
  <2>. QED  BY <1>0, <1>2, <1>3, <2>1, <2>2, <2>3
<1>4. CASE RemoveDict(e)
  <2>1. UNCHANGED tmp /\ bin' = bin /\ flush[e].at = "remove" /\ flush'[e].at = "rename"
    BY <1>4, StepResult DEF RemoveDict, Steps
  <2>2. Content(tmp) = Held(e)
    BY <1>0, <2>1 DEF DiskOf, WrittenOf, Content
  <2>. QED  BY <1>0, <1>1, <2>1, <2>2 DEF KeptBy, Content, Complete
<1>5. CASE Rename(e)
  <2>0. Step(e, "rename", "reopen") /\ dict' = tmp
    BY <1>5, FlushGoesWell
  <2>1. bin' = bin /\ flush[e].at = "rename" /\ flush'[e].at = "reopen"
    BY <2>0, StepResult DEF Steps
  <2>. QED  BY <1>0, <1>1, <2>0, <2>1 DEF KeptBy, Content, Complete
<1>6. CASE Reopen(e)
  <2>1. /\ flush'[e] = NoFlush /\ UNCHANGED dict /\ flush[e].at = "reopen"
        /\ bin'[e] = IF e \in alive THEN Opened(dict) ELSE Nil
    BY <1>0, <1>6 DEF Reopen, Finish, TypeOK
  <2>2. Content(dict) = bin[e].words /\ Complete(dict) /\ Content(dict) = dict.words
    BY <1>0, <2>1 DEF WrittenOf, DiskOf, Content
  <2>3. Held(e)' = bin[e].words
    BY <2>1, <2>2 DEF Held, Opened, OpenWith, Nil, JustMade, Content, Complete
  <2>. QED  BY <1>0, <2>1, <2>3 DEF KeptBy, NoFlush, Content, Complete
<1>. QED  BY <1>0, <1>3, <1>4, <1>5, <1>6 DEF FlushStep

\* A block teaches the dictionary one word, or makes it forget one.
LEMMA BlockFollows ==
  ASSUME NEW e \in Dicts, TypeOK, Shape, DiskOf(e), CleanOf(e), Without(Untroubled)', RunBlock(e)
  PROVE  /\ asked' = asked /\ KeptBy(e)' = KeptBy(e) /\ e \in alive'
         /\ LET before == OfQueue(queue[e])  after == OfQueue(queue'[e])
            IN  \/ Held(e)' = Held(e) /\ after = before
                \/ \E w \in before : /\ Held(e)' \in {Held(e) \cup {w}, Held(e) \ {w}}
                                      /\ after \in {before, before \ {w}}
<1>. USE DEF object, threads, disk
<1>0. queue[e] # <<>> /\ e \in alive /\ queue[e] \in Seq(Block) /\ ~RunDiscard(e) /\ bin[e] \in Binary
  <2>1. queue[e] # <<>> /\ e \in alive /\ queue[e] \in Seq(Block)
    BY DEF TypeOK, RunBlock, RunUpdate, RunUnlearn, RunReload, RunRead, RunDiscard, HeadIs
  <2>2. ~RunDiscard(e)
    BY <2>1, TailElements DEF CleanOf, RunDiscard, HeadIs
  <2>. QED  BY <2>1, <2>2 DEF TypeOK
<1>a. queue'[e] = Tail(queue[e]) /\ e \in alive'
  BY <1>0 DEF CleanOf, RunBlock, RunUpdate, RunUnlearn, RunReload, RunRead, TypeOK
<1>b. OfQueue(queue[e]) = OfQueue(queue'[e]) \cup {w \in Words : Head(queue[e]).word = w}
  BY <1>0, <1>a, OfQueueTail
<1>c. Head(queue[e]).word \notin Words => OfQueue(queue'[e]) = OfQueue(queue[e])
  BY <1>b
<1>d. Head(queue[e]).word \in Words =>
        /\ Head(queue[e]).word \in OfQueue(queue[e])
        /\ OfQueue(queue'[e]) \in {OfQueue(queue[e]), OfQueue(queue[e]) \ {Head(queue[e]).word}}
  BY <1>b
<1>1. CASE RunUpdate(e) \/ RunUnlearn(e)
  <2>1. UNCHANGED <<dict, tmp, flush, asked>> /\ bin[e].state = "open"
    BY <1>0, <1>1 DEF RunUpdate, RunUnlearn, HeadIs, CleanOf, DiskOf, Binary
  <2>2. Head(queue[e]).word \in Words
    BY <1>0, <1>1, BlockKinds DEF RunUpdate, RunUnlearn, HeadIs
  <2>3. /\ bin'[e].state = bin[e].state
        /\ bin'[e].words \in {bin[e].words \cup {Head(queue[e]).word},
                              bin[e].words \ {Head(queue[e]).word}}
    BY <1>0, <1>1, <2>1 DEF RunUpdate, RunUnlearn, TypeOK, Binary
  <2>4. Held(e)' \in {Held(e) \cup {Head(queue[e]).word}, Held(e) \ {Head(queue[e]).word}}
    BY <2>1, <2>3 DEF Held
  <2>. QED  BY <1>a, <1>d, <2>1, <2>2, <2>4 DEF KeptBy, Content, Complete
<1>2. CASE RunRead(e)
  <2>1. UNCHANGED <<dict, tmp, flush, bin, asked>> /\ Head(queue[e]).word \notin Words
    BY <1>0, <1>2, BlockKinds DEF RunRead, HeadIs, history
  <2>. QED  BY <1>a, <1>c, <2>1 DEF Held, KeptBy, Content, Complete
<1>3. CASE RunReload(e)
  <2>0. asked' = asked /\ UNCHANGED tmp /\ OfQueue(queue'[e]) = OfQueue(queue[e])
    BY <1>0, <1>3, <1>c, BlockKinds DEF RunReload, HeadIs
  <2>1. CASE bin[e].state # "nil"
    <3>1. UNCHANGED <<dict, flush, bin>>
      BY <1>3, <2>1 DEF RunReload, Reload, Without, Untroubled, Mishaps
    <3>. QED  BY <1>a, <2>0, <3>1 DEF Held, KeptBy, Content, Complete
  <2>2. CASE bin[e].state = "nil"
    <3>1. ~Flushing(e) /\ exists[e] = Complete(dict)
      BY <1>0, <2>2 DEF Shape, ShapeOf, CleanOf
    <3>2. flush' = flush
      BY <1>3, <3>1 DEF RunReload, Reload, Replace, Orphaned
    <3>3. bin'[e] = OpenWith(Content(dict)) /\ Content(dict)' = Content(dict)
      <4>1. CASE exists[e]
        BY <1>3, <2>2, <3>1, <4>1 DEF RunReload, Reload, Opened, Content, Complete, TypeOK
      <4>2. CASE ~exists[e]
        BY <1>3, <2>2, <3>1, <4>2
        DEF RunReload, Reload, Replace, NoDirectory, Content, Complete, TypeOK
      <4>. QED  BY <4>1, <4>2
    <3>4. Held(e)' = Held(e)
      BY <2>2, <3>3 DEF Held, OpenWith, JustMade
    <3>. QED  BY <1>a, <2>0, <3>2, <3>3, <3>4 DEF KeptBy, Content, Complete
  <2>. QED  BY <2>1, <2>2
<1>. QED  BY <1>0, <1>1, <1>2, <1>3 DEF RunBlock

\* A call of the user's changes what was taught, by one word or not at all.
LEMMA CallTeaches ==
  ASSUME NEW e \in Dicts, TypeOK, Call(e)
  PROVE  /\ Held(e)' = Held(e) /\ KeptBy(e)' = KeptBy(e)
         /\ LET before == OfQueue(queue[e])  after == OfQueue(queue'[e])
            IN  \/ asked' = asked /\ after = before
                \/ \E w \in Words : /\ asked' \in {asked \cup {w}, asked \ {w}}
                                     /\ after = before \cup {w}
<1>. USE DEF history
<1>1. UNCHANGED <<dict, tmp, bin, flush>>
  BY CallDoes
<1>2. Held(e)' = Held(e) /\ KeptBy(e)' = KeptBy(e)
  BY <1>1 DEF Held, KeptBy, Content, Complete
<1>3. ASSUME NEW b \in Block, Enqueue(e, b)
      PROVE  OfQueue(queue'[e]) = OfQueue(queue[e]) \cup {w \in Words : b.word = w}
  BY <1>3, OfQueueAppend DEF Enqueue, TypeOK
<1>4. ASSUME NEW w \in Words, LearnQueue(e, w) \/ UnlearnQueue(e, w)
      PROVE  /\ asked' \in {asked \cup {w}, asked \ {w}}
             /\ OfQueue(queue'[e]) = OfQueue(queue[e]) \cup {w}
  <2>1. PICK b \in Block : Enqueue(e, b) /\ b.word = w
    BY <1>4, BlockTypes, BlockKinds DEF LearnQueue, UnlearnQueue
  <2>2. OfQueue(queue'[e]) = OfQueue(queue[e]) \cup {w}
    BY <1>3, <2>1
  <2>. QED  BY <1>4, <2>2 DEF LearnQueue, UnlearnQueue
<1>5. CASE UnlearnReload(e) \/ LookupReload(e) \/ LookupCall(e)
  <2>1. PICK b \in Block : Enqueue(e, b) /\ b.word \notin Words
    BY <1>5, BlockTypes, BlockKinds, StoreAssumption DEF UnlearnReload, LookupReload, LookupCall
  <2>2. OfQueue(queue'[e]) = OfQueue(queue[e])
    BY <1>3, <2>1
  <2>. QED  BY <1>2, <1>5, <2>2 DEF UnlearnReload, LookupReload, LookupCall
<1>6. CASE Lookup(e) \/ \E w \in Words : Learn(e, w) \/ Unlearning(e, w)
  BY <1>2, <1>6 DEF Lookup, Learn, Unlearning
<1>. QED  BY <1>2, <1>4, <1>5, <1>6 DEF Call

\* Asking for a flush changes nothing yet, and what is let go unflushed is on
\* the disk.
LEMMA HandleQuiet ==
  ASSUME NEW e \in Dicts, TypeOK, Shape, DiskOf(e), WrittenOf(e), Handle(e)
  PROVE  asked' = asked /\ queue' = queue /\ Held(e)' = Held(e) /\ KeptBy(e)' = KeptBy(e)
<1>1. UNCHANGED <<dict, tmp, asked, queue>>
  BY HandleDoes
<1>2. CASE UNCHANGED <<alive, bin, flush>>
  BY <1>1, <1>2 DEF Held, KeptBy, Content, Complete
<1>3. CASE /\ ~Flushing(e) /\ UNCHANGED bin
           /\ \E gc, m \in BOOLEAN :
                NeedsFlush(e, gc) /\ flush' = [flush EXCEPT ![e] = FlushOf(e, gc, m)]
  <2>1. flush'[e].at = "mkdir" /\ flush[e].at = "idle"
    BY <1>3 DEF FlushOf, Flushing, TypeOK
  <2>. QED  BY <1>1, <1>3, <2>1 DEF Held, KeptBy, Content, Complete
<1>4. CASE /\ ~Flushing(e) /\ ~Retained(e) /\ UNCHANGED flush
           /\ \E gc \in BOOLEAN : ~NeedsFlush(e, gc)
           /\ bin' = [bin EXCEPT ![e] = Nil] /\ alive' = alive \ {e}
  <2>1. Held(e) = Content(dict)
    BY <1>4 DEF NeedsFlush, DiskOf, WrittenOf, Held, TypeOK, Binary
  <2>2. Held(e)' = Content(dict)
    BY <1>1, <1>4 DEF Held, Nil, JustMade, TypeOK, Content, Complete
  <2>. QED  BY <1>1, <1>4, <2>1, <2>2 DEF KeptBy, Content, Complete
<1>. QED  BY <1>2, <1>3, <1>4, HandleDoes

\* The end of the process, but for the moment when no directory is in its place.
LEMMA DeathRestarts ==
  ASSUME Death, Without({"cut"})'
  PROVE  asked' = Kept /\ Known' = Kept /\ Kept' = Kept /\ Waiting' = {}
<1>. USE DEF disk
<1>1. Kept = Content(dict)
  BY DEF Death, Without, Kept
<1>2. asked' = Content(dict) /\ Content(dict)' = Content(dict)
  BY DEF Death, Content, Complete
<1>3. Known' = Content(dict)
  <2>1. {d \in Dicts : bin'[d].state # "nil"} = {}
    BY DEF Death, Nil, JustMade
  <2>. QED  BY <1>2, <2>1 DEF Known
<1>4. Kept' = Content(dict)
  BY <1>2 DEF Death, NoFlush, Kept
<1>5. Waiting' = {}
  BY DEF Death, Waiting, Chores
<1>. QED  BY <1>1, <1>2, <1>3, <1>4, <1>5

\* Whatever went wrong, there are only words.
LEMMA SeenTypes ==
  ASSUME TypeOK'
  PROVE  /\ asked' \subseteq Words /\ Known' \subseteq Words /\ Kept' \subseteq Words
         /\ Waiting' \subseteq Words
<1>1. asked' \subseteq Words /\ dict' \in Directory /\ tmp' \in Directory /\ bin' \in [Dicts -> Binary]
  BY DEF TypeOK
<1>2. Content(dict)' \subseteq Words /\ Content(tmp)' \subseteq Words
  BY <1>1 DEF Content, Directory
<1>3. UNION {bin'[d].words : d \in {f \in Dicts : bin'[f].state # "nil"}} \subseteq Words
  BY <1>1 DEF Binary
<1>. QED  BY <1>1, <1>2, <1>3 DEF Known, Kept, Waiting

LEMMA StoreStep ==
  ASSUME TypeOK, TypeOK', Shape, Shape', Single, DiskInv, Clean, KnowInv, KnowInv', [Next]_vars
  PROVE  [Store!Next]_(Store!vars)
<1>. USE DEF object, threads, disk, history
<1>1. CASE troubles' # {}
  <2>1. Store!GoWrong
    BY <1>1, SeenTypes DEF Store!GoWrong
  <2>. QED  BY <2>1 DEF Store!Next
<1>2. CASE troubles' = {}
  <2>0. /\ troubles = {} /\ \A K : Without(K) /\ Without(K)'
        /\ \A d \in Dicts : WrittenOf(d) /\ DiskOf(d) /\ CleanOf(d) /\ (InUse(d)' => Knows(d)')
    BY <1>2, TroublesGrow DEF Without, KnowInv, DiskInv, Clean
  <2>1. ASSUME asked' = asked, Waiting' = Waiting, Known' = Known, Kept' = Kept
        PROVE  [Store!Next]_(Store!vars)
    BY <1>2, <2>0, <2>1 DEF Store!vars
  <2>2. ASSUME Death PROVE [Store!Next]_(Store!vars)
    <3>1. Store!Restart
      BY <2>0, <2>2, DeathRestarts DEF Store!Restart
    <3>. QED  BY <1>2, <2>0, <3>1 DEF Store!Next
  <2>3. CASE UNCHANGED vars
    BY <2>1, <2>3 DEF vars, Known, Kept, Waiting, Content, Complete
  <2>4. ASSUME NEW d \in Dicts, RunWeak(d), ~Death PROVE [Store!Next]_(Store!vars)
    <3>1. UNCHANGED <<dict, tmp, bin, flush, asked>>
      BY <2>4, WeakDoes
    <3>2. OfQueue(queue'[d]) = OfQueue(queue[d])
      <4>1. /\ ~Retained(d) /\ queue[d] \in Seq(Block) /\ queue'[d] = Tail(queue[d])
            /\ queue[d] # <<>>
        BY <2>4, WeakDoes DEF Shape, ShapeOf, TypeOK
      <4>2. OfQueue(queue[d]) = {}
        BY <4>1, OfQueueUnretained DEF Retained
      <4>. QED  BY <4>1, <4>2, OfQueueTail
    <3>3. ASSUME NEW e \in Dicts PROVE OfQueue(queue'[e]) = OfQueue(queue[e])
      <4>1. e # d => queue'[e] = queue[e]
        BY <2>4, WeakDoes
      <4>. QED  BY <3>2, <4>1
    <3>4. Waiting' = Waiting
      BY <3>3, WaitingStays
    <3>. QED  BY <2>1, <3>1, <3>4 DEF Known, Kept, Content, Complete
  <2>5. ASSUME NEW d \in Dicts, Create(d) PROVE [Store!Next]_(Store!vars)
    <3>1. OfQueue(queue[d]) = {} /\ OfQueue(queue'[d]) = {}
      <4>1. queue[d] = <<>> /\ queue'[d] = <<Plain("reload")>>
        BY <2>5 DEF Create, TypeOK
      <4>2. /\ <<>> \in Seq(Block) /\ <<Plain("reload")>> \in Seq(Block)
            /\ \A i \in DOMAIN <<Plain("reload")>> : <<Plain("reload")>>[i].kind = "reload"
        BY BlockTypes, BlockKinds
      <4>3. OfQueue(<<>>) = {}
        BY DEF OfQueue, Chores
      <4>4. OfQueue(<<Plain("reload")>>) = {}
        BY <4>2, OfQueueUnretained
      <4>. QED  BY <4>1, <4>3, <4>4
    <3>2. ASSUME NEW e \in Dicts PROVE OfQueue(queue'[e]) = OfQueue(queue[e])
      <4>1. e # d => queue'[e] = queue[e]
        BY <2>5 DEF Create, TypeOK
      <4>. QED  BY <3>1, <4>1
    <3>3. Waiting' = Waiting
      BY <3>2, WaitingStays
    <3>. QED  BY <2>1, <2>5, <3>3 DEF Create, Known, Kept, Content, Complete
  <2>6. ASSUME NEW e \in Dicts, InUse(e) PROVE [Store!Next]_(Store!vars)
    <3>1. \A d \in Dicts : InUse(d) => d = e
      BY <2>0, <2>6 DEF Single
    <3>2. \A d \in Dicts : InUse(d)' => d = e
      <4>1. ASSUME NEW d \in Dicts, Create(d) PROVE FALSE
        BY <2>0, <2>6, <4>1 DEF Create, Without
      <4>. QED  BY <3>1, <4>1, UseStays
    <3>3. /\ Known = Held(e) /\ Kept = KeptBy(e) /\ Waiting = OfQueue(queue[e])
          /\ Known' = Held(e)' /\ Kept' = KeptBy(e)' /\ Waiting' = OfQueue(queue'[e])
      BY <3>1, <3>2, SeenOfOne, SeenOfOneAfter
    <3>4. CASE FlushStep(e) \/ DiskFails(e)
      <4>1. asked' = asked /\ Waiting' = Waiting /\ Known' = Known /\ Kept' \in {Kept, Known}
        BY <2>0, <3>3, <3>4, StepKeeps
      <4>2. Kept' = Known => Store!Save
        BY <4>1 DEF Store!Save
      <4>. QED  BY <1>2, <2>0, <2>1, <4>1, <4>2 DEF Store!Next
    <3>5. CASE RunBlock(e)
      <4>1. /\ asked' = asked /\ Kept' = Kept /\ e \in alive'
            /\ \/ Known' = Known /\ Waiting' = Waiting
               \/ \E w \in Waiting : /\ Known' \in {Known \cup {w}, Known \ {w}}
                                      /\ Waiting' \in {Waiting, Waiting \ {w}}
        BY <2>0, <3>3, <3>5, BlockFollows
      <4>2. ASSUME NEW w \in Words, w \notin Waiting' PROVE w \in Known' <=> w \in asked
        <5>1. Knows(e)' /\ Chores(queue'[e], w) = {}
          BY <2>0, <3>3, <4>1, <4>2 DEF InUse, OfQueue
        <5>. QED  BY <3>3, <4>1, <5>1 DEF Knows, Will
      <4>3. ASSUME NEW w \in Waiting, Known' \in {Known \cup {w}, Known \ {w}},
                   Waiting' \in {Waiting, Waiting \ {w}}
            PROVE  w \in Words /\ Store!Follow(w)
        <5>1. w \in Words
          BY DEF Waiting
        <5>. QED  BY <4>1, <4>2, <4>3, <5>1 DEF Store!Follow
      <4>. QED  BY <1>2, <2>0, <2>1, <4>1, <4>3 DEF Store!Next
    <3>6. CASE Call(e)
      <4>1. /\ Known' = Known /\ Kept' = Kept
            /\ \/ asked' = asked /\ Waiting' = Waiting
               \/ \E w \in Words : /\ asked' \in {asked \cup {w}, asked \ {w}}
                                    /\ Waiting' = Waiting \cup {w}
        BY <3>3, <3>6, CallTeaches
      <4>2. ASSUME NEW w \in Words, asked' \in {asked \cup {w}, asked \ {w}},
                   Waiting' = Waiting \cup {w}
            PROVE  Store!Teach(w)
        BY <4>1, <4>2 DEF Store!Teach
      <4>. QED  BY <1>2, <2>0, <2>1, <4>1, <4>2 DEF Store!Next
    <3>7. CASE Handle(e)
      BY <2>0, <2>1, <3>3, <3>7, HandleQuiet
    <3>. QED  BY <2>0, <2>2, <2>3, <2>4, <2>6, <3>4, <3>5, <3>6, <3>7, StepOf
  <2>7. CASE \A d \in Dicts : ~InUse(d)
    BY <2>2, <2>3, <2>4, <2>5, <2>7, IdleStep
  <2>. QED  BY <2>6, <2>7
<1>. QED  BY <1>1, <1>2

\* The dictionary, its queue and its file are a WordStore, for any words and any
\* number of objects: until something goes wrong a word changes only while an
\* order about it waits and ends as it was taught, a flush replaces the file as a
\* whole, and a process starts from what was saved last.
THEOREM StoresWords == Spec => Implements
<1>1. Init => Store!Init
  <2>. SUFFICES ASSUME Init PROVE Store!Init
    OBVIOUS
  <2>1. \A d \in Dicts : bin[d].state = "nil" /\ flush[d].at = "idle" /\ queue[d] = <<>>
    BY DEF Init, Nil, JustMade, NoFlush
  <2>2. Content(dict) = {}
    BY DEF Init, NoDirectory, Content, Complete
  <2>3. Known = {} /\ Kept = {} /\ Waiting = {}
    BY <2>1, <2>2 DEF Known, Kept, Waiting, Chores
  <2>. QED  BY <2>3 DEF Init, Store!Init
<1>2. TypeOK /\ TypeOK' /\ Shape /\ Shape' /\ Single /\ DiskInv /\ Clean /\ KnowInv /\ KnowInv'
        /\ [Next]_vars => [Store!Next]_(Store!vars)
  BY StoreStep
<1>. QED  BY <1>1, <1>2, TypeCorrect, ShapeInvariant, OneObject, DiskInvariant, CleanInvariant,
             KnowInvariant, PTL DEF Spec, Implements, Store!Spec

\* No step of WordStore breaks the agreement of what is known with what was taught.
LEMMA StoreAgrees ==
  Store!KnownAsTaught /\ [Store!Next]_(Store!vars) => Store!KnownAsTaught'
<1>. SUFFICES ASSUME Store!KnownAsTaught, [Store!Next]_(Store!vars) PROVE Store!KnownAsTaught'
  OBVIOUS
<1>. USE DEF Store!KnownAsTaught
<1>1. CASE Store!Save \/ Store!Restart \/ Store!GoWrong
  BY <1>1 DEF Store!Save, Store!Restart, Store!GoWrong, Store!Next, Store!vars
<1>2. ASSUME NEW w \in Words, Store!Teach(w), troubles = {} PROVE Store!KnownAsTaught'
  BY <1>2 DEF Store!Teach
<1>3. ASSUME NEW w \in Words, Store!Follow(w), troubles = {} PROVE Store!KnownAsTaught'
  BY <1>3 DEF Store!Follow
<1>4. CASE UNCHANGED Store!vars
  BY <1>4 DEF Store!vars
<1>. QED  BY <1>1, <1>2, <1>3, <1>4 DEF Store!Next

\* Until something goes wrong a word that no block of the queue is about is in
\* the dictionary exactly if the user taught it and did not take it back.
THEOREM KnownAsItWasTaught == Spec => []Store!KnownAsTaught
<1>1. Store!Init => Store!KnownAsTaught
  BY DEF Store!Init, Store!KnownAsTaught
<1>2. Implements => []Store!KnownAsTaught
  BY <1>1, StoreAgrees, PTL DEF Implements, Store!Spec
<1>. QED  BY <1>2, StoresWords, PTL
=============================================================================
