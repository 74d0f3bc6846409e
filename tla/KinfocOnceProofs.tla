-------------------------- MODULE KinfocOnceProofs --------------------------
(***************************************************************************)
(* KinfocReport: a report is in one place at a time, and the server gets it *)
(* twice only in doubt; it moves on through memory, and never round; a file *)
(* is stuck in the filter set only by a failure.  All this for any number   *)
(* of reports, limits and deaths.                                           *)
(***************************************************************************)
EXTENDS KinfocReportProofs, FiniteSetTheorems, SequenceTheorems

-----------------------------------------------------------------------------
(* Where a report is.                                                      *)

\* Its places in the array, its own posts, the posts of its cache files, and
\* the removals of its cache files.  SavesOf and FilesOf are KinfocReport's.
BatchOf(r) == {i \in DOMAIN batch : batch[i] = r}
PostsOf(r) == {p \in posts : ~p.cached /\ r \in p.data}
CachedOf(r) == {p \in posts : p.cached /\ r \in p.data}
RemovesOf(r, force) ==
  {op \in Elems(queue[force]) : op.kind = "remove" /\ r \in op.data}

InMemory(r) ==
  \/ BatchOf(r) # {} \/ PostsOf(r) # {}
  \/ \E force \in BOOLEAN : SavesOf(r, force) # {}
InFiles(r) == \E force \in BOOLEAN : FilesOf(r, force) # {}

\* It is in one place.
Alone(r) ==
  /\ \A i, j \in BatchOf(r) : i = j
  /\ \A p, q \in PostsOf(r) : p = q
  /\ \A f, g \in BOOLEAN : \A i \in SavesOf(r, f), j \in SavesOf(r, g) : f = g /\ i = j
  /\ \A f, g \in BOOLEAN : \A d \in FilesOf(r, f), e \in FilesOf(r, g) : f = g /\ d = e
  /\ BatchOf(r) = {} \/ PostsOf(r) = {}
  /\ \A f \in BOOLEAN : SavesOf(r, f) = {} \/ (BatchOf(r) = {} /\ PostsOf(r) = {})
  /\ InFiles(r) => ~InMemory(r)

\* The cache file is its only place, and is marked as being reported.
OnlyInFile(r, force, data) ==
  /\ ~InMemory(r)
  /\ \A f \in BOOLEAN : \A d \in FilesOf(r, f) :
       f = force /\ d = data /\ data \in filterSet[force]

\* One post of a cache file is under way, or its removal is queued.
Reporting(r) ==
  /\ \A p \in CachedOf(r) :
       /\ OnlyInFile(r, p.force, p.data)
       /\ p.data \in filterSet[p.force]
       /\ \A q \in CachedOf(r) : q = p
       /\ \A force \in BOOLEAN : RemovesOf(r, force) = {}
  /\ \A force \in BOOLEAN : \A op \in RemovesOf(r, force) : OnlyInFile(r, force, op.data)

\* A report that was not made is nowhere.
OnlyMade(r) ==
  r \notin accepted =>
    /\ ~InMemory(r) /\ ~InFiles(r) /\ CachedOf(r) = {} /\ r \notin received
    /\ \A force \in BOOLEAN : RemovesOf(r, force) = {}

\* What the server has for sure is on no way to it again.
NotAgain(r) ==
  r \in received \ doubted =>
    /\ BatchOf(r) = {} /\ \A force \in BOOLEAN : SavesOf(r, force) = {}
    /\ \A p \in PostsOf(r) \cup CachedOf(r) : p.arrived
    /\ \A force \in BOOLEAN : FilesOf(r, force) \subseteq filterSet[force]

Followed(r) == Alone(r) /\ Reporting(r) /\ OnlyMade(r) /\ NotAgain(r)

\* A set whose elements are all the same counts at most once.
LEMMA AtMostOne ==
  ASSUME NEW S, \A x, y \in S : x = y
  PROVE  Cardinality(S) = 0 \/ (Cardinality(S) = 1 /\ S # {})
<1>1. CASE S = {}
  BY <1>1, FS_EmptySet
<1>2. CASE S # {}
  <2>1. PICK x : S = {x}
    BY <1>2
  <2> QED BY <1>2, <2>1, FS_Singleton
<1> QED BY <1>1, <1>2

\* A report that is alone is counted once.
LEMMA AloneCounts == (\A r \in Reports : Alone(r)) => OnePlace
<1> SUFFICES ASSUME NEW r \in Reports, Alone(r)
             PROVE  Cardinality(BatchOf(r)) + Cardinality(PostsOf(r))
                      + Cardinality(SavesOf(r, TRUE)) + Cardinality(SavesOf(r, FALSE))
                      + Cardinality(FilesOf(r, TRUE)) + Cardinality(FilesOf(r, FALSE)) <= 1
  BY DEF OnePlace, BatchOf, PostsOf
<1> DEFINE b == Cardinality(BatchOf(r))
           p == Cardinality(PostsOf(r))
           s == Cardinality(SavesOf(r, TRUE))
           t == Cardinality(SavesOf(r, FALSE))
           f == Cardinality(FilesOf(r, TRUE))
           g == Cardinality(FilesOf(r, FALSE))
<1>1. /\ (b = 0 \/ (b = 1 /\ BatchOf(r) # {}))
      /\ (p = 0 \/ (p = 1 /\ PostsOf(r) # {}))
  BY AtMostOne DEF Alone
<1>2. /\ (s = 0 \/ (s = 1 /\ SavesOf(r, TRUE) # {}))
      /\ (t = 0 \/ (t = 1 /\ SavesOf(r, FALSE) # {}))
  <2>1. /\ \A i, j \in SavesOf(r, TRUE) : i = j
        /\ \A i, j \in SavesOf(r, FALSE) : i = j
    BY DEF Alone
  <2> QED BY <2>1, AtMostOne
<1>3. /\ (f = 0 \/ (f = 1 /\ FilesOf(r, TRUE) # {}))
      /\ (g = 0 \/ (g = 1 /\ FilesOf(r, FALSE) # {}))
  <2>1. /\ \A d, e \in FilesOf(r, TRUE) : d = e
        /\ \A d, e \in FilesOf(r, FALSE) : d = e
    BY DEF Alone
  <2> QED BY <2>1, AtMostOne
<1>4. SavesOf(r, TRUE) = {} \/ SavesOf(r, FALSE) = {}
  BY DEF Alone
<1>5. FilesOf(r, TRUE) = {} \/ FilesOf(r, FALSE) = {}
  BY DEF Alone
<1>6. /\ BatchOf(r) = {} \/ PostsOf(r) = {}
      /\ SavesOf(r, TRUE) = {} \/ (BatchOf(r) = {} /\ PostsOf(r) = {})
      /\ SavesOf(r, FALSE) = {} \/ (BatchOf(r) = {} /\ PostsOf(r) = {})
  BY DEF Alone
<1>7. \/ FilesOf(r, TRUE) = {} /\ FilesOf(r, FALSE) = {}
      \/ /\ BatchOf(r) = {} /\ PostsOf(r) = {}
         /\ SavesOf(r, TRUE) = {} /\ SavesOf(r, FALSE) = {}
  BY DEF Alone, InFiles, InMemory
<1> HIDE DEF b, p, s, t, f, g
<1>8. b \in {0, 1} /\ p \in {0, 1} /\ s \in {0, 1} /\ t \in {0, 1} /\ f \in {0, 1} /\ g \in {0, 1}
  BY <1>1, <1>2, <1>3
<1>9. /\ b = 0 \/ p = 0
      /\ s = 0 \/ (b = 0 /\ p = 0)
      /\ t = 0 \/ (b = 0 /\ p = 0)
      /\ s = 0 \/ t = 0
  BY <1>1, <1>2, <1>4, <1>6, Zenon
<1>10. /\ f = 0 \/ g = 0
       /\ (f = 0 /\ g = 0) \/ (b = 0 /\ p = 0 /\ s = 0 /\ t = 0)
  BY <1>1, <1>2, <1>3, <1>5, <1>7, Zenon
<1>11. b + p + s + t + f + g <= 1
  BY <1>8, <1>9, <1>10
<1> QED BY <1>11 DEF b, p, s, t, f, g

-----------------------------------------------------------------------------
(* What a change of a queue does to the places of a report.                *)

\* An operation added at the end.
LEMMA AppendPlaces ==
  ASSUME TypeOK, NEW r \in Reports, NEW force \in BOOLEAN, NEW op \in Operation,
         queue' = [queue EXCEPT ![force] = Append(@, op)]
  PROVE  /\ \A f \in BOOLEAN : SavesOf(r, f)' = SavesOf(r, f) \cup
              IF f = force /\ op.kind = "save" /\ r \in op.data
              THEN {Len(queue[force]) + 1} ELSE {}
         /\ \A f \in BOOLEAN : RemovesOf(r, f)' = RemovesOf(r, f) \cup
              IF f = force /\ op.kind = "remove" /\ r \in op.data THEN {op} ELSE {}
<1>1. queue[force] \in Seq(Operation)
  BY DEF TypeOK
<1>2. /\ queue'[force] = Append(queue[force], op)
      /\ \A f \in BOOLEAN : f # force => queue'[f] = queue[f]
  BY DEF TypeOK
<1>3. /\ DOMAIN queue'[force] = DOMAIN queue[force] \cup {Len(queue[force]) + 1}
      /\ \A i \in DOMAIN queue[force] : queue'[force][i] = queue[force][i]
      /\ queue'[force][Len(queue[force]) + 1] = op
  BY <1>1, <1>2
<1>4. Elems(queue'[force]) = Elems(queue[force]) \cup {op}
  BY QueueAppend
<1> QED BY <1>2, <1>3, <1>4 DEF SavesOf, RemovesOf

\* A sequence without its first element.
LEMMA TailShifts ==
  ASSUME NEW S, NEW s \in Seq(S), s # <<>>
  PROVE  /\ \A i \in DOMAIN Tail(s) :
              i \in Nat \ {0} /\ i + 1 \in DOMAIN s /\ s[i + 1] = Tail(s)[i]
         /\ 1 \in DOMAIN s /\ s[1] = Head(s)
  OBVIOUS

\* The first operation taken out: the others move up.
LEMMA TailPlaces ==
  ASSUME TypeOK, NEW r \in Reports, NEW force \in BOOLEAN, queue[force] # <<>>,
         queue' = [queue EXCEPT ![force] = Tail(@)]
  PROVE  /\ \A f \in BOOLEAN : \A i \in SavesOf(r, f)' :
              /\ i \in Nat \ {0}
              /\ (IF f = force THEN i + 1 ELSE i) \in SavesOf(r, f)
         /\ Head(queue[force]).kind = "save" /\ r \in Head(queue[force]).data
              => 1 \in SavesOf(r, force)
         /\ \A f \in BOOLEAN : RemovesOf(r, f)' \subseteq RemovesOf(r, f)
         /\ Head(queue[force]).kind = "remove" /\ r \in Head(queue[force]).data
              => Head(queue[force]) \in RemovesOf(r, force)
<1>1. \A f \in BOOLEAN : queue[f] \in Seq(Operation)
  BY DEF TypeOK
<1>2. /\ queue'[force] = Tail(queue[force])
      /\ \A f \in BOOLEAN : f # force => queue'[f] = queue[f]
  BY DEF TypeOK
<1>3. /\ \A i \in DOMAIN queue'[force] :
           i \in Nat \ {0} /\ i + 1 \in DOMAIN queue[force] /\ queue[force][i + 1] = queue'[force][i]
      /\ 1 \in DOMAIN queue[force] /\ queue[force][1] = Head(queue[force])
  <2>1. queue[force] \in Seq(Operation)
    BY <1>1
  <2>2. /\ \A i \in DOMAIN Tail(queue[force]) :
             i \in Nat \ {0} /\ i + 1 \in DOMAIN queue[force]
               /\ queue[force][i + 1] = Tail(queue[force])[i]
        /\ 1 \in DOMAIN queue[force] /\ queue[force][1] = Head(queue[force])
    BY <2>1, TailShifts
  <2> QED BY <1>2, <2>2, Zenon
<1>4. \A f \in BOOLEAN : DOMAIN queue[f] \subseteq Nat \ {0}
  BY <1>1
<1>5. Elems(queue[force]) = {Head(queue[force])} \cup Elems(queue'[force])
  BY QueueTail
<1>6. \A f \in BOOLEAN : \A i \in SavesOf(r, f)' :
        i \in Nat \ {0} /\ (IF f = force THEN i + 1 ELSE i) \in SavesOf(r, f)
  <2> SUFFICES ASSUME NEW f \in BOOLEAN, NEW i \in SavesOf(r, f)'
               PROVE  i \in Nat \ {0} /\ (IF f = force THEN i + 1 ELSE i) \in SavesOf(r, f)
    OBVIOUS
  <2>1. i \in DOMAIN queue'[f] /\ queue'[f][i].kind = "save" /\ r \in queue'[f][i].data
    BY DEF SavesOf
  <2>2. CASE f = force
    BY <1>3, <2>1, <2>2 DEF SavesOf
  <2>3. CASE f # force
    BY <1>2, <1>4, <2>1, <2>3 DEF SavesOf
  <2> QED BY <2>2, <2>3
<1>7. Head(queue[force]).kind = "save" /\ r \in Head(queue[force]).data
        => 1 \in SavesOf(r, force)
  BY <1>3 DEF SavesOf
<1>8. /\ \A f \in BOOLEAN : RemovesOf(r, f)' \subseteq RemovesOf(r, f)
      /\ Head(queue[force]).kind = "remove" /\ r \in Head(queue[force]).data
           => Head(queue[force]) \in RemovesOf(r, force)
  BY <1>2, <1>5 DEF RemovesOf
<1> QED BY <1>6, <1>7, <1>8

\* Where the elements of a concatenation are.
LEMMA ConcatIndices ==
  ASSUME NEW S, NEW s \in Seq(S), NEW t \in Seq(S)
  PROVE  /\ \A i \in DOMAIN (s \o t) :
              \/ i \in DOMAIN s /\ (s \o t)[i] = s[i]
              \/ \E j \in DOMAIN t : i = j + Len(s) /\ (s \o t)[i] = t[j]
         /\ \A i \in DOMAIN s : i \in DOMAIN (s \o t) /\ (s \o t)[i] = s[i]
         /\ \A j \in DOMAIN t : /\ j + Len(s) \in DOMAIN (s \o t)
                                /\ (s \o t)[j + Len(s)] = t[j]
<1>1. \A i \in DOMAIN s : i \in DOMAIN (s \o t) /\ (s \o t)[i] = s[i]
  OBVIOUS
<1>2. \A j \in DOMAIN t : j + Len(s) \in DOMAIN (s \o t) /\ (s \o t)[j + Len(s)] = t[j]
  OBVIOUS
<1>3. \A i \in DOMAIN (s \o t) :
        i \in DOMAIN s \/ (i - Len(s) \in DOMAIN t /\ i = (i - Len(s)) + Len(s))
  OBVIOUS
<1> QED BY <1>1, <1>2, <1>3

\* A record that is once in the array is in one buffer.
LEMMA BufferAlone ==
  ASSUME NEW records \in Seq(Reports), NEW r \in Reports,
         \A i, j \in DOMAIN records : records[i] = r /\ records[j] = r => i = j
  PROVE  \A k, l \in DOMAIN Buffers(records) :
           r \in Buffers(records)[k] /\ r \in Buffers(records)[l] => k = l
<1> DEFINE n == (Len(records) + Capacity - 1) \div Capacity
           buffer(k) == {records[i] : i \in {j \in DOMAIN records : (j - 1) \div Capacity = k - 1}}
<1>1. Buffers(records) = [k \in 1..n |-> buffer(k)]
  BY DEF Buffers
<1>2. Capacity \in Nat \ {0} /\ Len(records) \in Nat /\ n \in Int
  BY ReportAssumption
<1> HIDE DEF n
<1>3. ASSUME NEW k \in 1..n, NEW l \in 1..n, r \in buffer(k), r \in buffer(l) PROVE k = l
  <2>1. PICK i \in DOMAIN records : records[i] = r /\ (i - 1) \div Capacity = k - 1
    BY <1>3
  <2>2. PICK j \in DOMAIN records : records[j] = r /\ (j - 1) \div Capacity = l - 1
    BY <1>3
  <2>3. i = j
    BY <2>1, <2>2
  <2> QED BY <1>2, <2>1, <2>2, <2>3
<1> HIDE DEF buffer
<1> QED BY <1>1, <1>3

\* A sequence cut in two is its two parts.
LEMMA CutJoins ==
  ASSUME NEW S, NEW s \in Seq(S), NEW k \in 0..Len(s)
  PROVE  SubSeq(s, 1, k) \o SubSeq(s, k + 1, Len(s)) = s
<1>1. Len(s) \in Nat /\ 1 \in 1..(Len(s) + 1) /\ k \in (1 - 1)..Len(s) /\ Len(s) \in k..Len(s)
  BY LenProperties
<1>2. SubSeq(s, 1, k) \o SubSeq(s, k + 1, Len(s)) = SubSeq(s, 1, Len(s))
  BY <1>1, ConcatAdjacentSubSeq
<1> QED BY <1>2, SubSeqFull

\* s is a stretch of t, from the element after the a-th.
Stretch(s, t, a) == \A i \in DOMAIN s : i + a \in DOMAIN t /\ t[i + a] = s[i]

\* A flush posts a stretch of its buffers and saves another one.
FlushCuts(records, sent, kept, a, b) ==
  /\ FlushSplits(records, sent, kept)
  /\ Stretch(sent, Buffers(records), a) /\ Stretch(kept, Buffers(records), b)
  /\ \A i \in DOMAIN sent, j \in DOMAIN kept : i + a # j + b

\* A flush cuts its buffers in two, whatever the network does meanwhile.
LEMMA FlushStretches ==
  ASSUME NEW records \in Seq(Reports), Flush(records)
  PROVE  \E sent \in Seq(Data), kept \in Seq(Data), a \in Nat, b \in Nat :
           FlushCuts(records, sent, kept, a, b)
<1> DEFINE buffers == Buffers(records)
           first(k) == SubSeq(buffers, 1, k)
           rest(k) == SubSeq(buffers, k + 1, Len(buffers))
           sent(k, n) == OnWifi(first(k), net) \o OnWifi(rest(k), n)
           kept(k, n) == OffWifi(first(k), net) \o OffWifi(rest(k), n)
<1>1. buffers \in Seq(Data)
  BY BufferedRecords
<1>2. PICK k \in 0..Len(buffers), n \in Net :
        /\ posts' = posts \cup {NewPost(data, FALSE, FALSE) : data \in Elems(sent(k, n))}
        /\ queue' = [queue EXCEPT ![FALSE] =
                       @ \o [i \in DOMAIN kept(k, n) |-> Save(kept(k, n)[i])]]
  BY DEF Flush, PostBatchData
<1> HIDE DEF buffers
<1>3. /\ first(k) \in Seq(Data) /\ rest(k) \in Seq(Data)
      /\ Elems(first(k)) \cup Elems(rest(k)) = Elems(buffers)
  BY <1>1, ElemsCut
<1>4. /\ Stretch(first(k), buffers, 0) /\ Stretch(rest(k), buffers, k)
      /\ \A i \in DOMAIN first(k) : i \in Nat /\ i <= k
      /\ \A i \in DOMAIN rest(k) : i \in Nat /\ i >= 1
  BY <1>1 DEF Stretch
<1>5. k \in Nat /\ Stretch(buffers, buffers, 0) /\ first(k) \o rest(k) = buffers
  <2>1. k \in Nat /\ Stretch(buffers, buffers, 0)
    BY <1>1 DEF Stretch
  <2>2. first(k) \o rest(k) = buffers
    BY <1>1, CutJoins
  <2> QED BY <2>1, <2>2
<1> HIDE DEF first, rest
<1>6. /\ <<>> \in Seq(Data) /\ Elems(<<>>) = {} /\ DOMAIN <<>> = {}
      /\ <<>> \o <<>> = <<>>
      /\ first(k) \o <<>> = first(k) /\ <<>> \o first(k) = first(k)
      /\ rest(k) \o <<>> = rest(k) /\ <<>> \o rest(k) = rest(k)
  BY <1>3 DEF Elems
<1>a. ASSUME NEW s \in Seq(Data), NEW t \in Seq(Data), NEW a \in Nat, NEW b \in Nat,
             sent(k, n) = s, kept(k, n) = t, Elems(s) \cup Elems(t) = Elems(buffers),
             Stretch(s, buffers, a), Stretch(t, buffers, b),
             \A i \in DOMAIN s, j \in DOMAIN t : i + a # j + b
      PROVE  \E u \in Seq(Data), v \in Seq(Data), c \in Nat, d \in Nat :
               FlushCuts(records, u, v, c, d)
  <2> HIDE DEF sent, kept
  <2>1. FlushCuts(records, s, t, a, b)
    BY <1>2, <1>a DEF FlushCuts, FlushSplits, buffers
  <2> QED BY <2>1
<1>7. CASE net = "wifi" /\ n = "wifi"
  <2>1. sent(k, n) = buffers /\ kept(k, n) = <<>>
    BY <1>5, <1>6, <1>7 DEF OnWifi, OffWifi
  <2>2. Stretch(<<>>, buffers, 0)
    BY <1>6 DEF Stretch
  <2> QED BY <1>1, <1>5, <1>6, <1>a, <2>1, <2>2
<1>8. CASE net = "wifi" /\ n # "wifi"
  <2>1. sent(k, n) = first(k) /\ kept(k, n) = rest(k)
    BY <1>6, <1>8 DEF OnWifi, OffWifi
  <2>2. \A i \in DOMAIN first(k), j \in DOMAIN rest(k) : i + 0 # j + k
    BY <1>4, <1>5
  <2> QED BY <1>3, <1>4, <1>5, <1>a, <2>1, <2>2, 0 \in Nat, Zenon
<1>9. CASE net # "wifi" /\ n = "wifi"
  <2>1. sent(k, n) = rest(k) /\ kept(k, n) = first(k)
    BY <1>6, <1>9 DEF OnWifi, OffWifi
  <2>2. \A i \in DOMAIN rest(k), j \in DOMAIN first(k) : i + k # j + 0
    BY <1>4, <1>5
  <2>3. Elems(rest(k)) \cup Elems(first(k)) = Elems(buffers)
    BY <1>3
  <2> QED BY <1>3, <1>4, <1>5, <1>a, <2>1, <2>2, <2>3, 0 \in Nat, Zenon
<1>10. CASE net # "wifi" /\ n # "wifi"
  <2>1. sent(k, n) = <<>> /\ kept(k, n) = buffers
    BY <1>5, <1>6, <1>10 DEF OnWifi, OffWifi
  <2>2. Stretch(<<>>, buffers, 0)
    BY <1>6 DEF Stretch
  <2> QED BY <1>1, <1>5, <1>6, <1>a, <2>1, <2>2
<1> QED BY <1>7, <1>8, <1>9, <1>10

\* Where a flush leaves a report that is at most once among its records.
LEMMA FlushPlaces ==
  ASSUME TypeOK, NEW records \in Seq(Reports), Flush(records), NEW r \in Reports,
         \A i, j \in DOMAIN records : records[i] = r /\ records[j] = r => i = j
  PROVE  /\ BatchOf(r)' = {} /\ CachedOf(r)' = CachedOf(r)
         /\ \A f \in BOOLEAN : RemovesOf(r, f)' = RemovesOf(r, f)
         /\ SavesOf(r, TRUE)' = SavesOf(r, TRUE)
         /\ r \notin Elems(records) =>
              PostsOf(r)' = PostsOf(r) /\ SavesOf(r, FALSE)' = SavesOf(r, FALSE)
         /\ PostsOf(r) = {} /\ SavesOf(r, FALSE) = {} =>
              /\ \A p, q \in PostsOf(r)' : p = q
              /\ \A i, j \in SavesOf(r, FALSE)' : i = j
              /\ PostsOf(r)' = {} \/ SavesOf(r, FALSE)' = {}
<1>1. PICK sent \in Seq(Data), kept \in Seq(Data), a \in Nat, b \in Nat :
             FlushCuts(records, sent, kept, a, b)
  BY FlushStretches
<1> DEFINE saves == [i \in DOMAIN kept |-> Save(kept[i])]
           buffers == Buffers(records)
<1>2. saves \in Seq(Operation) /\ queue[FALSE] \in Seq(Operation)
  BY SavesType DEF TypeOK
<1>3. /\ posts' = posts \cup {NewPost(data, FALSE, FALSE) : data \in Elems(sent)}
      /\ queue' = [queue EXCEPT ![FALSE] = @ \o saves]
  BY <1>1 DEF FlushCuts, FlushSplits
<1>4. /\ DOMAIN saves = DOMAIN kept
      /\ \A i \in DOMAIN saves : saves[i].kind = "save" /\ saves[i].data = kept[i]
  BY DEF Save
<1> HIDE DEF saves
<1>5. queue'[FALSE] = queue[FALSE] \o saves /\ queue'[TRUE] = queue[TRUE]
  BY <1>3 DEF TypeOK
\* Every buffer has only records, and the report is in one of them at most.
<1>6. \A k, l \in DOMAIN buffers : r \in buffers[k] /\ r \in buffers[l] => k = l
  BY BufferAlone
<1>7. \A data \in Elems(sent) \cup Elems(kept) : r \in data => r \in Elems(records)
  <2>1. \A data \in Elems(sent) \cup Elems(kept) : data \subseteq UNION Elems(buffers)
    BY <1>1 DEF FlushCuts, FlushSplits
  <2> QED BY <2>1, BufferedRecords
<1> HIDE DEF buffers
<1>8. \A i, j \in DOMAIN sent : r \in sent[i] /\ r \in sent[j] => i = j
  BY <1>1, <1>6 DEF FlushCuts, Stretch, buffers
<1>9. \A i, j \in DOMAIN kept : r \in kept[i] /\ r \in kept[j] => i = j
  BY <1>1, <1>6 DEF FlushCuts, Stretch, buffers
<1>10. \A i \in DOMAIN sent, j \in DOMAIN kept : ~(r \in sent[i] /\ r \in kept[j])
  BY <1>1, <1>6 DEF FlushCuts, Stretch, buffers
<1>11. BatchOf(r)' = {}
  BY FlushParts DEF BatchOf
<1>12. CachedOf(r)' = CachedOf(r)
  BY <1>3 DEF CachedOf, NewPost
<1>13. \A f \in BOOLEAN : RemovesOf(r, f)' = RemovesOf(r, f)
  <2>1. Elems(queue'[FALSE]) = Elems(queue[FALSE]) \cup Elems(saves)
    <3>1. Elems(queue[FALSE] \o saves) = Elems(queue[FALSE]) \cup Elems(saves)
      BY <1>2, ElemsConcat
    <3> QED BY <1>5, <3>1
  <2>2. \A op \in Elems(saves) : op.kind = "save"
    BY <1>4 DEF Elems
  <2> QED BY <1>5, <2>1, <2>2 DEF RemovesOf
<1>14. SavesOf(r, TRUE)' = SavesOf(r, TRUE)
  BY <1>5 DEF SavesOf
<1>15. PostsOf(r)' = PostsOf(r)
                       \cup {NewPost(data, FALSE, FALSE) : data \in {d \in Elems(sent) : r \in d}}
  BY <1>3 DEF PostsOf, NewPost
<1>16. SavesOf(r, FALSE)' = SavesOf(r, FALSE)
                              \cup {i + Len(queue[FALSE]) : i \in {j \in DOMAIN kept : r \in kept[j]}}
  <2> DEFINE old == queue[FALSE]
             new == queue'[FALSE]
  <2>1. old \in Seq(Operation) /\ new = old \o saves
    BY <1>2, <1>5
  <2> HIDE DEF old, new
  <2>2. /\ \A i \in DOMAIN new :
             \/ i \in DOMAIN old /\ new[i] = old[i]
             \/ \E j \in DOMAIN saves : i = j + Len(old) /\ new[i] = saves[j]
        /\ \A i \in DOMAIN old : i \in DOMAIN new /\ new[i] = old[i]
        /\ \A j \in DOMAIN saves : j + Len(old) \in DOMAIN new /\ new[j + Len(old)] = saves[j]
    BY <1>2, <2>1, ConcatIndices
  <2>3. /\ SavesOf(r, FALSE) = {i \in DOMAIN old : old[i].kind = "save" /\ r \in old[i].data}
        /\ SavesOf(r, FALSE)' = {i \in DOMAIN new : new[i].kind = "save" /\ r \in new[i].data}
    BY DEF SavesOf, old, new
  <2>4. \A i \in SavesOf(r, FALSE)' :
          i \in SavesOf(r, FALSE) \/ \E j \in DOMAIN kept : r \in kept[j] /\ i = j + Len(old)
    <3> TAKE i \in SavesOf(r, FALSE)'
    <3>1. i \in DOMAIN new /\ new[i].kind = "save" /\ r \in new[i].data
      BY <2>3
    <3>2. CASE i \in DOMAIN old /\ new[i] = old[i]
      BY <2>3, <3>1, <3>2
    <3>3. CASE \E j \in DOMAIN saves : i = j + Len(old) /\ new[i] = saves[j]
      <4>1. PICK j \in DOMAIN saves : i = j + Len(old) /\ new[i] = saves[j]
        BY <3>3
      <4>2. j \in DOMAIN kept /\ saves[j].data = kept[j]
        BY <1>4
      <4>3. r \in kept[j]
        BY <3>1, <4>1, <4>2
      <4> QED BY <4>1, <4>2, <4>3
    <3> QED BY <2>2, <3>1, <3>2, <3>3
  <2>5. SavesOf(r, FALSE) \subseteq SavesOf(r, FALSE)'
    BY <2>2, <2>3
  <2>6. \A j \in DOMAIN kept : r \in kept[j] => j + Len(old) \in SavesOf(r, FALSE)'
    <3> SUFFICES ASSUME NEW j \in DOMAIN kept, r \in kept[j]
                 PROVE  j + Len(old) \in SavesOf(r, FALSE)'
      OBVIOUS
    <3>1. j \in DOMAIN saves /\ saves[j].kind = "save" /\ saves[j].data = kept[j]
      BY <1>4
    <3>2. j + Len(old) \in DOMAIN new /\ new[j + Len(old)] = saves[j]
      BY <2>2, <3>1
    <3> QED BY <2>3, <3>1, <3>2
  <2>7. SavesOf(r, FALSE)' = SavesOf(r, FALSE)
                               \cup {i + Len(old) : i \in {j \in DOMAIN kept : r \in kept[j]}}
    BY <2>4, <2>5, <2>6
  <2> QED BY <2>7 DEF old
<1>17. r \notin Elems(records) =>
         PostsOf(r)' = PostsOf(r) /\ SavesOf(r, FALSE)' = SavesOf(r, FALSE)
  <2>1. r \notin Elems(records) =>
          {d \in Elems(sent) : r \in d} = {} /\ {j \in DOMAIN kept : r \in kept[j]} = {}
    BY <1>7 DEF Elems
  <2> QED BY <1>15, <1>16, <2>1
<1>18. PostsOf(r) = {} /\ SavesOf(r, FALSE) = {} =>
         /\ \A p, q \in PostsOf(r)' : p = q
         /\ \A i, j \in SavesOf(r, FALSE)' : i = j
         /\ PostsOf(r)' = {} \/ SavesOf(r, FALSE)' = {}
  <2> SUFFICES ASSUME PostsOf(r) = {}, SavesOf(r, FALSE) = {}
               PROVE  /\ \A p, q \in PostsOf(r)' : p = q
                      /\ \A i, j \in SavesOf(r, FALSE)' : i = j
                      /\ PostsOf(r)' = {} \/ SavesOf(r, FALSE)' = {}
    OBVIOUS
  <2>1. \A p \in PostsOf(r)' : \E i \in DOMAIN sent :
          r \in sent[i] /\ p = NewPost(sent[i], FALSE, FALSE)
    BY <1>15 DEF Elems
  <2>2. \A i \in SavesOf(r, FALSE)' : \E j \in DOMAIN kept :
          r \in kept[j] /\ i = j + Len(queue[FALSE])
    BY <1>16
  <2>3. \A p, q \in PostsOf(r)' : p = q
    BY <1>8, <2>1
  <2>4. \A i, j \in SavesOf(r, FALSE)' : i = j
    BY <1>9, <2>2
  <2>5. PostsOf(r)' = {} \/ SavesOf(r, FALSE)' = {}
    BY <1>10, <2>1, <2>2
  <2> QED BY <2>3, <2>4, <2>5
<1> QED BY <1>11, <1>12, <1>13, <1>14, <1>17, <1>18

-----------------------------------------------------------------------------
(* The two ways in which a report stays followed.                          *)

\* Its places stay, but for some that go: saves move up in their queue by
\* shift, the marks of its files stay, and what is known of it does.
LEMMA FollowedStays ==
  ASSUME NEW r \in Reports, Followed(r), NEW shift \in [BOOLEAN -> Nat],
         BatchOf(r)' \subseteq BatchOf(r), PostsOf(r)' \subseteq PostsOf(r),
         CachedOf(r)' \subseteq CachedOf(r), \A p \in CachedOf(r) : p.force \in BOOLEAN,
         \A f \in BOOLEAN : \A i \in SavesOf(r, f)' :
           i \in Nat /\ i + shift[f] \in SavesOf(r, f),
         \A f \in BOOLEAN :
           FilesOf(r, f)' \subseteq FilesOf(r, f) /\ RemovesOf(r, f)' \subseteq RemovesOf(r, f),
         \A f \in BOOLEAN : \A d \in FilesOf(r, f)' : d \in filterSet[f] => d \in filterSet'[f],
         \A p \in CachedOf(r)' : p.data \in filterSet[p.force] => p.data \in filterSet'[p.force],
         r \in accepted => r \in accepted', r \in received' => r \in received,
         r \in doubted => r \in doubted'
  PROVE  Followed(r)'
<1>1. \A f \in BOOLEAN : SavesOf(r, f)' # {} => SavesOf(r, f) # {}
  OBVIOUS
<1>2. InMemory(r)' => InMemory(r)
  BY <1>1 DEF InMemory
<1>3. InFiles(r)' => InFiles(r)
  BY DEF InFiles
<1>4. Alone(r)'
  <2>1. Alone(r) /\ \A f \in BOOLEAN : shift[f] \in Nat
    BY DEF Followed
  <2>2. \A i, j \in BatchOf(r)' : i = j
    BY <2>1 DEF Alone
  <2>3. \A p, q \in PostsOf(r)' : p = q
    BY <2>1 DEF Alone
  <2>4. \A f, g \in BOOLEAN : \A i \in SavesOf(r, f)', j \in SavesOf(r, g)' : f = g /\ i = j
    <3> SUFFICES ASSUME NEW f \in BOOLEAN, NEW g \in BOOLEAN,
                        NEW i \in SavesOf(r, f)', NEW j \in SavesOf(r, g)'
                 PROVE  f = g /\ i = j
      OBVIOUS
    <3>1. f = g /\ i + shift[f] = j + shift[g]
      BY <2>1 DEF Alone
    <3>2. i \in Nat /\ j \in Nat /\ shift[f] \in Nat
      BY <2>1
    <3> QED BY <3>1, <3>2
  <2>5. \A f, g \in BOOLEAN : \A d \in FilesOf(r, f)', e \in FilesOf(r, g)' : f = g /\ d = e
    BY <2>1 DEF Alone
  <2>6. BatchOf(r)' = {} \/ PostsOf(r)' = {}
    BY <2>1 DEF Alone
  <2>7. \A f \in BOOLEAN : SavesOf(r, f)' = {} \/ (BatchOf(r)' = {} /\ PostsOf(r)' = {})
    BY <1>1, <2>1 DEF Alone
  <2>8. InFiles(r)' => ~InMemory(r)'
    BY <1>2, <1>3, <2>1 DEF Alone
  <2> QED BY <2>2, <2>3, <2>4, <2>5, <2>6, <2>7, <2>8 DEF Alone
<1>a. ASSUME NEW force \in BOOLEAN, NEW data, OnlyInFile(r, force, data)
      PROVE  OnlyInFile(r, force, data)'
  <2>1. ~InMemory(r)'
    BY <1>2, <1>a DEF OnlyInFile
  <2>2. ASSUME NEW f \in BOOLEAN, NEW d \in FilesOf(r, f)'
        PROVE  f = force /\ d = data /\ data \in filterSet'[force]
    <3>1. f = force /\ d = data /\ data \in filterSet[force]
      BY <1>a, <2>2 DEF OnlyInFile
    <3> QED BY <2>2, <3>1
  <2> QED BY <2>1, <2>2 DEF OnlyInFile
<1>5. Reporting(r)'
  <2>1. Reporting(r)
    BY DEF Followed
  <2>2. ASSUME NEW p \in CachedOf(r)'
        PROVE  /\ OnlyInFile(r, p.force, p.data)'
               /\ p.data \in filterSet'[p.force]
               /\ \A q \in CachedOf(r)' : q = p
               /\ \A force \in BOOLEAN : RemovesOf(r, force)' = {}
    <3>1. p \in CachedOf(r) /\ p.force \in BOOLEAN
      BY <2>2
    <3>2. /\ OnlyInFile(r, p.force, p.data)
          /\ p.data \in filterSet[p.force]
          /\ \A q \in CachedOf(r) : q = p
          /\ \A force \in BOOLEAN : RemovesOf(r, force) = {}
      BY <2>1, <3>1 DEF Reporting
    <3>3. OnlyInFile(r, p.force, p.data)'
      BY <1>a, <3>1, <3>2
    <3> QED BY <2>2, <3>2, <3>3
  <2>3. ASSUME NEW force \in BOOLEAN, NEW op \in RemovesOf(r, force)'
        PROVE  OnlyInFile(r, force, op.data)'
    <3>1. OnlyInFile(r, force, op.data)
      BY <2>1, <2>3 DEF Reporting
    <3> QED BY <1>a, <3>1
  <2> QED BY <2>2, <2>3 DEF Reporting
<1>6. OnlyMade(r)'
  BY <1>2, <1>3 DEF Followed, OnlyMade
<1>7. NotAgain(r)'
  <2> SUFFICES ASSUME r \in received' \ doubted'
               PROVE  /\ BatchOf(r)' = {} /\ \A force \in BOOLEAN : SavesOf(r, force)' = {}
                      /\ \A p \in PostsOf(r)' \cup CachedOf(r)' : p.arrived
                      /\ \A force \in BOOLEAN : FilesOf(r, force)' \subseteq filterSet'[force]
    BY DEF NotAgain
  <2>1. /\ BatchOf(r) = {} /\ \A force \in BOOLEAN : SavesOf(r, force) = {}
        /\ \A p \in PostsOf(r) \cup CachedOf(r) : p.arrived
        /\ \A force \in BOOLEAN : FilesOf(r, force) \subseteq filterSet[force]
    BY DEF Followed, NotAgain
  <2>2. \A force \in BOOLEAN : SavesOf(r, force)' = {}
    BY <1>1, <2>1
  <2>3. \A force \in BOOLEAN : FilesOf(r, force)' \subseteq filterSet'[force]
    <3> SUFFICES ASSUME NEW f \in BOOLEAN, NEW d \in FilesOf(r, f)'
                 PROVE  d \in filterSet'[f]
      OBVIOUS
    <3>1. d \in filterSet[f]
      BY <2>1
    <3> QED BY <3>1
  <2> QED BY <2>1, <2>2, <2>3
<1> QED BY <1>4, <1>5, <1>6, <1>7 DEF Followed

\* It goes to one place, while no file of it is being reported, and the server
\* has it in doubt or not at all.
LEMMA FollowedAfresh ==
  ASSUME NEW r \in Reports, Alone(r)', CachedOf(r)' = {},
         \A f \in BOOLEAN : RemovesOf(r, f)' = {},
         r \in accepted', r \in received' => r \in doubted'
  PROVE  Followed(r)'
BY DEF Followed, Reporting, OnlyMade, NotAgain

\* What is in memory has no cache file on its way.
LEMMA MemoryApart ==
  ASSUME NEW r \in Reports, Followed(r), TypeOK, InMemory(r)
  PROVE  /\ ~InFiles(r) /\ CachedOf(r) = {} /\ r \in accepted
         /\ \A f \in BOOLEAN : RemovesOf(r, f) = {}
<1>1. ~InFiles(r) /\ r \in accepted
  BY DEF Followed, Alone, OnlyMade
<1>2. CachedOf(r) = {} /\ \A f \in BOOLEAN : RemovesOf(r, f) = {}
  BY DEF Followed, Reporting, OnlyInFile
<1> QED BY <1>1, <1>2

\* A step that leaves all places where they are.
LEMMA FollowedSame ==
  ASSUME TypeOK, NEW r \in Reports, Followed(r),
         UNCHANGED <<batch, posts, queue, files, filterSet, received, doubted>>,
         r \in accepted => r \in accepted'
  PROVE  Followed(r)'
<1>1. /\ InMemory(r)' = InMemory(r) /\ InFiles(r)' = InFiles(r)
      /\ BatchOf(r)' = BatchOf(r) /\ PostsOf(r)' = PostsOf(r) /\ CachedOf(r)' = CachedOf(r)
      /\ \A f \in BOOLEAN : /\ SavesOf(r, f)' = SavesOf(r, f) /\ FilesOf(r, f)' = FilesOf(r, f)
                            /\ RemovesOf(r, f)' = RemovesOf(r, f)
  BY DEF InMemory, InFiles, BatchOf, PostsOf, CachedOf, SavesOf, FilesOf, RemovesOf, Elems
<1>2. \A f, d : OnlyInFile(r, f, d)' = OnlyInFile(r, f, d)
  BY <1>1 DEF OnlyInFile
<1>3. Alone(r)' /\ Reporting(r)' /\ OnlyMade(r)' /\ NotAgain(r)'
  BY <1>1, <1>2 DEF Followed, Alone, Reporting, OnlyMade, NotAgain
<1> QED BY <1>3 DEF Followed

-----------------------------------------------------------------------------
(* Every step keeps every report followed.                                 *)

\* Shifts of the saves of each queue: none.
Still == [f \in BOOLEAN |-> 0]

\* No shift at all.
LEMMA StillShift ==
  ASSUME NEW r \in Reports, TypeOK
  PROVE  /\ Still \in [BOOLEAN -> Nat]
         /\ \A f \in BOOLEAN : \A i \in SavesOf(r, f) :
              i \in Nat /\ i + Still[f] \in SavesOf(r, f)
<1>1. \A f \in BOOLEAN : SavesOf(r, f) \subseteq Nat
  BY DEF SavesOf, TypeOK
<1>2. Still \in [BOOLEAN -> Nat] /\ \A f \in BOOLEAN : Still[f] = 0
  BY DEF Still
<1>3. ASSUME NEW f \in BOOLEAN, NEW i \in SavesOf(r, f)
      PROVE  i \in Nat /\ i + Still[f] \in SavesOf(r, f)
  <2>1. i \in Nat /\ i + 0 = i
    BY <1>1, <1>3
  <2> QED BY <1>2, <1>3, <2>1
<1> QED BY <1>2, <1>3

\* The posts of cache files name a folder.
LEMMA CachedFolder ==
  TypeOK => \A r \in Reports : \A p \in CachedOf(r) : p.force \in BOOLEAN
BY DEF TypeOK, Post, CachedOf

\* FollowedStays where no save moves.
LEMMA FollowedStill ==
  ASSUME TypeOK, NEW r \in Reports, Followed(r),
         BatchOf(r)' \subseteq BatchOf(r), PostsOf(r)' \subseteq PostsOf(r),
         CachedOf(r)' \subseteq CachedOf(r),
         \A f \in BOOLEAN : /\ SavesOf(r, f)' \subseteq SavesOf(r, f)
                            /\ FilesOf(r, f)' \subseteq FilesOf(r, f)
                            /\ RemovesOf(r, f)' \subseteq RemovesOf(r, f),
         filterSet' = filterSet,
         r \in accepted => r \in accepted', r \in received' => r \in received,
         r \in doubted => r \in doubted'
  PROVE  Followed(r)'
<1>1. \A p \in CachedOf(r) : p.force \in BOOLEAN
  BY CachedFolder
<1>2. Still \in [BOOLEAN -> Nat]
  BY StillShift
<1>3. \A f \in BOOLEAN : \A i \in SavesOf(r, f)' : i \in Nat /\ i + Still[f] \in SavesOf(r, f)
  BY StillShift
<1> QED BY <1>1, <1>2, <1>3, FollowedStays

\* A flush.
LEMMA FlushFollowed ==
  ASSUME TypeOK, NEW r \in Reports, Followed(r),
         NEW records \in Seq(Reports), Flush(records),
         \A i, j \in DOMAIN records : records[i] = r /\ records[j] = r => i = j,
         r \in Elems(records) =>
           /\ PostsOf(r) = {} /\ ~InFiles(r) /\ CachedOf(r) = {}
           /\ \A f \in BOOLEAN : SavesOf(r, f) = {} /\ RemovesOf(r, f) = {}
           /\ r \in accepted' /\ (r \in received => r \in doubted),
         UNCHANGED <<files, filterSet, received, doubted>>,
         r \in accepted => r \in accepted'
  PROVE  Followed(r)'
<1>0. /\ BatchOf(r)' = {} /\ CachedOf(r)' = CachedOf(r)
      /\ \A f \in BOOLEAN : RemovesOf(r, f)' = RemovesOf(r, f)
      /\ SavesOf(r, TRUE)' = SavesOf(r, TRUE)
      /\ r \notin Elems(records) =>
           PostsOf(r)' = PostsOf(r) /\ SavesOf(r, FALSE)' = SavesOf(r, FALSE)
      /\ PostsOf(r) = {} /\ SavesOf(r, FALSE) = {} =>
           /\ \A p, q \in PostsOf(r)' : p = q
           /\ \A i, j \in SavesOf(r, FALSE)' : i = j
           /\ PostsOf(r)' = {} \/ SavesOf(r, FALSE)' = {}
  BY FlushPlaces
<1>1. \A f \in BOOLEAN : FilesOf(r, f)' = FilesOf(r, f)
  BY DEF FilesOf
<1>2. CASE r \notin Elems(records)
  <2>1. \A f \in BOOLEAN : SavesOf(r, f)' = SavesOf(r, f)
    BY <1>0, <1>2
  <2> QED BY <1>0, <1>1, <1>2, <2>1, FollowedStill
<1>3. CASE r \in Elems(records)
  <2>1. /\ BatchOf(r)' = {} /\ SavesOf(r, TRUE)' = {}
        /\ \A p, q \in PostsOf(r)' : p = q
        /\ \A i, j \in SavesOf(r, FALSE)' : i = j
        /\ PostsOf(r)' = {} \/ SavesOf(r, FALSE)' = {}
    BY <1>0, <1>3
  <2>2. \A f \in BOOLEAN : FilesOf(r, f)' = {} /\ RemovesOf(r, f)' = {}
    BY <1>0, <1>1, <1>3 DEF InFiles
  <2>3. Alone(r)'
    BY <2>1, <2>2 DEF Alone, InFiles
  <2> QED BY <1>0, <1>3, <2>2, <2>3, FollowedAfresh
<1> QED BY <1>2, <1>3

\* A report that is made is nowhere before.
LEMMA MadeNowhere ==
  ASSUME NEW r \in Reports, Followed(r), r \notin accepted
  PROVE  /\ BatchOf(r) = {} /\ PostsOf(r) = {} /\ CachedOf(r) = {} /\ r \notin received
         /\ \A f \in BOOLEAN :
              SavesOf(r, f) = {} /\ FilesOf(r, f) = {} /\ RemovesOf(r, f) = {}
BY DEF Followed, OnlyMade, InMemory, InFiles

\* The array with one more record.
LEMMA BatchAppended ==
  ASSUME TypeOK, NEW r \in Reports, NEW s \in Reports
  PROVE  /\ Append(batch, s) \in Seq(Reports)
         /\ {i \in DOMAIN Append(batch, s) : Append(batch, s)[i] = r}
              = BatchOf(r) \cup IF r = s THEN {Len(batch) + 1} ELSE {}
         /\ r \in Elems(Append(batch, s)) => r = s \/ BatchOf(r) # {}
<1>1. batch \in Seq(Reports)
  BY DEF TypeOK
<1>2. /\ Append(batch, s) \in Seq(Reports)
      /\ DOMAIN Append(batch, s) = DOMAIN batch \cup {Len(batch) + 1}
      /\ \A i \in DOMAIN batch : Append(batch, s)[i] = batch[i]
      /\ Append(batch, s)[Len(batch) + 1] = s
  BY <1>1
<1>3. Elems(Append(batch, s)) = Elems(batch) \cup {s}
  BY <1>1, ElemsAppend
<1>4. r \in Elems(Append(batch, s)) => r = s \/ BatchOf(r) # {}
  BY <1>3 DEF Elems, BatchOf
<1> QED BY <1>2, <1>4 DEF BatchOf

\* A report is made for the batch.
LEMMA ReportFollowed ==
  ASSUME TypeOK, NEW r \in Reports, Followed(r), NEW s \in Reports, ReportData(s)
  PROVE  Followed(r)'
<1> DEFINE records == Append(batch, s)
<1>1. /\ s \notin accepted /\ accepted' = accepted \cup {s}
      /\ UNCHANGED <<files, filterSet, received, doubted>>
  BY DEF ReportData, history
<1>2. /\ records \in Seq(Reports)
      /\ {i \in DOMAIN records : records[i] = r}
           = BatchOf(r) \cup IF r = s THEN {Len(batch) + 1} ELSE {}
      /\ r \in Elems(records) => r = s \/ BatchOf(r) # {}
  BY BatchAppended
<1>3. \A i, j \in BatchOf(r) : i = j
  BY DEF Followed, Alone
<1>4. r = s => BatchOf(r) = {}
  BY <1>1, MadeNowhere
<1>5. \A i, j \in DOMAIN records : records[i] = r /\ records[j] = r => i = j
  BY <1>2, <1>3, <1>4
<1>6. CASE Flush(records)
  <2>1. r \in Elems(records) =>
           /\ PostsOf(r) = {} /\ ~InFiles(r) /\ CachedOf(r) = {}
           /\ \A f \in BOOLEAN : SavesOf(r, f) = {} /\ RemovesOf(r, f) = {}
           /\ r \in accepted' /\ (r \in received => r \in doubted)
    <3>1. CASE r = s
      BY <1>1, <3>1, MadeNowhere DEF InFiles
    <3>2. CASE BatchOf(r) # {}
      <4>1. InMemory(r)
        BY <3>2 DEF InMemory
      <4>2. PostsOf(r) = {} /\ \A f \in BOOLEAN : SavesOf(r, f) = {}
        BY <3>2 DEF Followed, Alone
      <4>3. r \in received => r \in doubted
        BY <3>2 DEF Followed, NotAgain
      <4> QED BY <1>1, <4>1, <4>2, <4>3, MemoryApart
    <3> QED BY <1>2, <3>1, <3>2
  <2> HIDE DEF records
  <2> QED BY <1>1, <1>2, <1>5, <1>6, <2>1, FlushFollowed
<1>7. CASE batch' = records /\ UNCHANGED <<posts, queue>>
  <2>1. /\ PostsOf(r)' = PostsOf(r) /\ CachedOf(r)' = CachedOf(r)
        /\ \A f \in BOOLEAN : /\ SavesOf(r, f)' = SavesOf(r, f) /\ FilesOf(r, f)' = FilesOf(r, f)
                              /\ RemovesOf(r, f)' = RemovesOf(r, f)
    BY <1>1, <1>7 DEF PostsOf, CachedOf, SavesOf, FilesOf, RemovesOf, Elems
  <2>2. BatchOf(r)' = BatchOf(r) \cup IF r = s THEN {Len(batch) + 1} ELSE {}
    BY <1>2, <1>7 DEF BatchOf
  <2>3. CASE r # s
    BY <1>1, <2>1, <2>2, <2>3, FollowedStill
  <2>4. CASE r = s
    <3>1. /\ BatchOf(r)' = {Len(batch) + 1} /\ PostsOf(r)' = {} /\ CachedOf(r)' = {}
          /\ r \in accepted' /\ r \notin received'
          /\ \A f \in BOOLEAN :
               SavesOf(r, f)' = {} /\ FilesOf(r, f)' = {} /\ RemovesOf(r, f)' = {}
      BY <1>1, <2>1, <2>2, <2>4, MadeNowhere
    <3>2. Alone(r)'
      BY <3>1 DEF Alone, InFiles
    <3> QED BY <3>1, <3>2, FollowedAfresh
  <2> QED BY <2>3, <2>4
<1> QED BY <1>6, <1>7 DEF ReportData

\* A report is made by force.
LEMMA ForceFollowed ==
  ASSUME TypeOK, NEW r \in Reports, Followed(r), NEW s \in Reports, ForceReportData(s)
  PROVE  Followed(r)'
<1>1. /\ s \notin accepted /\ accepted' = accepted \cup {s}
      /\ UNCHANGED <<batch, files, filterSet, received, doubted>>
  BY DEF ForceReportData, memory, history
<1>2. BatchOf(r)' = BatchOf(r) /\ \A f \in BOOLEAN : FilesOf(r, f)' = FilesOf(r, f)
  BY <1>1 DEF BatchOf, FilesOf
<1> DEFINE p == NewPost({s}, TRUE, FALSE)
<1>3. p.data = {s} /\ ~p.cached
  BY DEF NewPost
<1> HIDE DEF p
\* Either a post is added, or a save.
<1>4. CASE posts' = posts \cup {p} /\ queue' = queue
  <2>1. /\ PostsOf(r)' = PostsOf(r) \cup (IF r = s THEN {p} ELSE {})
        /\ CachedOf(r)' = CachedOf(r)
        /\ \A f \in BOOLEAN : SavesOf(r, f)' = SavesOf(r, f) /\ RemovesOf(r, f)' = RemovesOf(r, f)
    BY <1>3, <1>4 DEF PostsOf, CachedOf, SavesOf, RemovesOf, Elems
  <2>2. CASE r # s
    BY <1>1, <1>2, <2>1, <2>2, FollowedStill
  <2>3. CASE r = s
    <3>1. /\ BatchOf(r)' = {} /\ PostsOf(r)' = {p} /\ CachedOf(r)' = {}
          /\ r \in accepted' /\ r \notin received'
          /\ \A f \in BOOLEAN :
               SavesOf(r, f)' = {} /\ FilesOf(r, f)' = {} /\ RemovesOf(r, f)' = {}
      BY <1>1, <1>2, <2>1, <2>3, MadeNowhere
    <3>2. Alone(r)'
      BY <3>1 DEF Alone, InFiles
    <3> QED BY <3>1, <3>2, FollowedAfresh
  <2> QED BY <2>2, <2>3
<1>5. CASE posts' = posts /\ queue' = [queue EXCEPT ![TRUE] = Append(@, Save({s}))]
  <2>0. Save({s}) \in Operation /\ Save({s}).kind = "save" /\ Save({s}).data = {s}
    BY NewTypes DEF Data, Save
  <2>1. /\ \A f \in BOOLEAN : SavesOf(r, f)' = SavesOf(r, f) \cup
              IF f = TRUE /\ Save({s}).kind = "save" /\ r \in Save({s}).data
              THEN {Len(queue[TRUE]) + 1} ELSE {}
        /\ \A f \in BOOLEAN : RemovesOf(r, f)' = RemovesOf(r, f) \cup
              IF f = TRUE /\ Save({s}).kind = "remove" /\ r \in Save({s}).data
              THEN {Save({s})} ELSE {}
    BY <1>5, <2>0, AppendPlaces
  <2>2. /\ PostsOf(r)' = PostsOf(r) /\ CachedOf(r)' = CachedOf(r)
        /\ \A f \in BOOLEAN : RemovesOf(r, f)' = RemovesOf(r, f)
    BY <1>5, <2>0, <2>1 DEF PostsOf, CachedOf
  <2>3. CASE r # s
    <3>1. \A f \in BOOLEAN : SavesOf(r, f)' = SavesOf(r, f)
      BY <2>0, <2>1, <2>3
    <3> QED BY <1>1, <1>2, <2>2, <3>1, FollowedStill
  <2>4. CASE r = s
    <3>1. /\ BatchOf(r)' = {} /\ PostsOf(r)' = {} /\ CachedOf(r)' = {}
          /\ r \in accepted' /\ r \notin received'
          /\ \A f \in BOOLEAN : FilesOf(r, f)' = {} /\ RemovesOf(r, f)' = {}
          /\ \A f \in BOOLEAN : SavesOf(r, f) = {}
      BY <1>1, <1>2, <2>2, <2>4, MadeNowhere
    <3>2. SavesOf(r, TRUE)' = {Len(queue[TRUE]) + 1} /\ SavesOf(r, FALSE)' = {}
      BY <2>0, <2>1, <2>4, <3>1
    <3>3. Alone(r)'
      BY <3>1, <3>2 DEF Alone, InFiles
    <3> QED BY <3>1, <3>3, FollowedAfresh
  <2> QED BY <2>3, <2>4
<1> QED BY <1>4, <1>5 DEF ForceReportData, p

\* The delayed flush.
LEMMA TimeoutFollowed ==
  ASSUME TypeOK, NEW r \in Reports, Followed(r), FlushTimeout
  PROVE  Followed(r)'
<1>1. UNCHANGED <<files, filterSet, received, doubted, accepted>>
  BY DEF FlushTimeout, history
<1>2. CASE Flush(batch)
  <2>1. batch \in Seq(Reports) /\ (r \in Elems(batch) => BatchOf(r) # {})
    BY DEF TypeOK, Elems, BatchOf
  <2>2. \A i, j \in DOMAIN batch : batch[i] = r /\ batch[j] = r => i = j
    BY DEF Followed, Alone, BatchOf
  <2>3. r \in Elems(batch) =>
           /\ PostsOf(r) = {} /\ ~InFiles(r) /\ CachedOf(r) = {}
           /\ \A f \in BOOLEAN : SavesOf(r, f) = {} /\ RemovesOf(r, f) = {}
           /\ r \in accepted' /\ (r \in received => r \in doubted)
    <3> SUFFICES ASSUME BatchOf(r) # {}
                 PROVE  /\ PostsOf(r) = {} /\ ~InFiles(r) /\ CachedOf(r) = {}
                        /\ \A f \in BOOLEAN : SavesOf(r, f) = {} /\ RemovesOf(r, f) = {}
                        /\ r \in accepted' /\ (r \in received => r \in doubted)
      BY <2>1
    <3>1. InMemory(r)
      BY DEF InMemory
    <3>2. PostsOf(r) = {} /\ \A f \in BOOLEAN : SavesOf(r, f) = {}
      BY DEF Followed, Alone
    <3>3. r \in received => r \in doubted
      BY DEF Followed, NotAgain
    <3> QED BY <1>1, <3>1, <3>2, <3>3, MemoryApart
  <2> QED BY <1>1, <1>2, <2>1, <2>2, <2>3, FlushFollowed
<1>3. CASE UNCHANGED <<batch, posts, queue>>
  BY <1>1, <1>3, FollowedSame
<1> QED BY <1>2, <1>3 DEF FlushTimeout

\* The server receives a request.
LEMMA ArriveFollowed ==
  ASSUME TypeOK, NEW r \in Reports, Followed(r), NEW p \in posts, Arrive(p)
  PROVE  Followed(r)'
<1> DEFINE there == [p EXCEPT !.arrived = TRUE]
<1>1. /\ p \in Post /\ there.data = p.data /\ there.cached = p.cached
      /\ there.force = p.force /\ there.arrived
  BY DEF TypeOK, Post
<1>2. /\ posts' = (posts \ {p}) \cup {there} /\ received' = received \cup p.data
      /\ UNCHANGED <<batch, queue, files, filterSet, accepted, doubted>>
  BY DEF Arrive, memory, disk
<1> HIDE DEF there
<1>3. /\ BatchOf(r)' = BatchOf(r)
      /\ \A f \in BOOLEAN : /\ SavesOf(r, f)' = SavesOf(r, f) /\ FilesOf(r, f)' = FilesOf(r, f)
                            /\ RemovesOf(r, f)' = RemovesOf(r, f)
  BY <1>2 DEF BatchOf, SavesOf, FilesOf, RemovesOf
<1>4. CASE r \notin p.data
  <2>1. PostsOf(r)' = PostsOf(r) /\ CachedOf(r)' = CachedOf(r)
    BY <1>1, <1>2, <1>4 DEF PostsOf, CachedOf
  <2> QED BY <1>2, <1>3, <1>4, <2>1, FollowedStill
<1>5. CASE r \in p.data /\ ~p.cached
  <2>1. p \in PostsOf(r) /\ InMemory(r)
    BY <1>5 DEF PostsOf, InMemory
  <2>2. /\ PostsOf(r) = {p} /\ BatchOf(r) = {}
        /\ \A f \in BOOLEAN : SavesOf(r, f) = {}
    BY <2>1 DEF Followed, Alone
  <2>3. /\ CachedOf(r) = {} /\ r \in accepted
        /\ \A f \in BOOLEAN : RemovesOf(r, f) = {} /\ FilesOf(r, f) = {}
    BY <2>1, MemoryApart DEF InFiles
  <2>4. PostsOf(r)' = {there} /\ CachedOf(r)' = {}
    BY <1>1, <1>2, <1>5, <2>2, <2>3 DEF PostsOf, CachedOf
  <2>5. /\ BatchOf(r)' = {}
        /\ \A f \in BOOLEAN :
             SavesOf(r, f)' = {} /\ FilesOf(r, f)' = {} /\ RemovesOf(r, f)' = {}
    BY <1>3, <2>2, <2>3
  <2>6. Alone(r)'
    BY <2>4, <2>5 DEF Alone, InFiles
  <2>7. Reporting(r)' /\ OnlyMade(r)' /\ NotAgain(r)'
    BY <1>1, <1>2, <2>3, <2>4, <2>5 DEF Reporting, OnlyMade, NotAgain
  <2> QED BY <2>6, <2>7 DEF Followed
<1>6. CASE r \in p.data /\ p.cached
  <2>1. p \in CachedOf(r)
    BY <1>6 DEF CachedOf
  <2>2. /\ OnlyInFile(r, p.force, p.data) /\ p.data \in filterSet[p.force]
        /\ CachedOf(r) = {p} /\ \A f \in BOOLEAN : RemovesOf(r, f) = {}
    BY <2>1 DEF Followed, Reporting
  <2>3. /\ PostsOf(r) = {} /\ BatchOf(r) = {} /\ \A f \in BOOLEAN : SavesOf(r, f) = {}
        /\ \A f \in BOOLEAN : \A d \in FilesOf(r, f) : f = p.force /\ d = p.data
    BY <2>2 DEF OnlyInFile, InMemory
  <2>4. r \in accepted
    BY <2>1 DEF Followed, OnlyMade
  <2>5. PostsOf(r)' = {} /\ CachedOf(r)' = {there}
    BY <1>1, <1>2, <1>6, <2>2, <2>3 DEF PostsOf, CachedOf
  <2>6. /\ BatchOf(r)' = {}
        /\ \A f \in BOOLEAN : SavesOf(r, f)' = {} /\ RemovesOf(r, f)' = {}
        /\ \A f \in BOOLEAN : \A d \in FilesOf(r, f)' :
             f = p.force /\ d = p.data /\ d \in filterSet'[f]
    BY <1>2, <1>3, <2>2, <2>3
  <2>7. ~InMemory(r)'
    BY <2>5, <2>6 DEF InMemory
  <2>8. Alone(r)'
    BY <2>5, <2>6, <2>7 DEF Alone
  <2>9. OnlyInFile(r, there.force, there.data)'
    BY <1>1, <1>2, <2>2, <2>6, <2>7 DEF OnlyInFile
  <2>10. Reporting(r)'
    BY <1>1, <1>2, <2>2, <2>5, <2>6, <2>9 DEF Reporting
  <2>11. OnlyMade(r)' /\ NotAgain(r)'
    BY <1>1, <1>2, <2>4, <2>5, <2>6 DEF OnlyMade, NotAgain
  <2> QED BY <2>8, <2>10, <2>11 DEF Followed
<1> QED BY <1>4, <1>5, <1>6

\* A post less.
LEMMA PostLess ==
  ASSUME TypeOK, NEW r \in Reports, NEW p \in posts, posts' = posts \ {p}
  PROVE  /\ PostsOf(r)' = PostsOf(r) \ {p} /\ CachedOf(r)' = CachedOf(r) \ {p}
         /\ p \in Post /\ p.data \in Data /\ p.force \in BOOLEAN
BY DEF PostsOf, CachedOf, TypeOK, Post

\* A success.
LEMMA SuccessFollowed ==
  ASSUME TypeOK, NEW r \in Reports, Followed(r), NEW p \in posts, OnSuccess(p)
  PROVE  Followed(r)'
<1>1. /\ posts' = posts \ {p} /\ queue' = AfterSuccess(p)
      /\ UNCHANGED <<batch, files, filterSet, accepted, received, doubted>>
  BY DEF OnSuccess, memory, history
<1>2. /\ PostsOf(r)' = PostsOf(r) \ {p} /\ CachedOf(r)' = CachedOf(r) \ {p}
      /\ p \in Post /\ p.data \in Data /\ p.force \in BOOLEAN
  BY <1>1, PostLess
<1>3. BatchOf(r)' = BatchOf(r) /\ \A f \in BOOLEAN : FilesOf(r, f)' = FilesOf(r, f)
  BY <1>1 DEF BatchOf, FilesOf
<1>4. CASE ~p.cached
  <2>1. Check \in Operation /\ Check.kind = "check"
    BY CheckType
  <2>2. ASSUME NEW f \in BOOLEAN
        PROVE  SavesOf(r, f)' = SavesOf(r, f) /\ RemovesOf(r, f)' = RemovesOf(r, f)
    <3>1. queue'[f] = queue[f] \/ queue'[f] = Append(queue[f], Check)
      BY <1>1, <1>4 DEF AfterSuccess
    <3>2. CASE queue'[f] = queue[f]
      BY <3>2 DEF SavesOf, RemovesOf
    <3>3. CASE queue'[f] = Append(queue[f], Check)
      <4>1. queue[f] \in Seq(Operation)
        BY DEF TypeOK
      <4>2. Elems(queue'[f]) = Elems(queue[f]) \cup {Check}
        BY <2>1, <3>3, <4>1, ElemsAppend
      <4>3. /\ DOMAIN queue'[f] = DOMAIN queue[f] \cup {Len(queue[f]) + 1}
            /\ \A i \in DOMAIN queue[f] : queue'[f][i] = queue[f][i]
            /\ queue'[f][Len(queue[f]) + 1] = Check
        BY <3>3, <4>1
      <4> QED BY <2>1, <4>2, <4>3 DEF SavesOf, RemovesOf
    <3> QED BY <3>1, <3>2, <3>3
  <2> QED BY <1>1, <1>2, <1>3, <2>2, FollowedStill
<1>5. CASE p.cached
  <2>1. /\ Remove(p.data) \in Operation /\ Remove(p.data).kind = "remove"
        /\ Remove(p.data).data = p.data
    BY <1>2, NewTypes DEF Remove
  <2>2. queue' = [queue EXCEPT ![p.force] = Append(@, Remove(p.data))]
    BY <1>1, <1>5 DEF AfterSuccess
  <2>3. /\ \A f \in BOOLEAN : SavesOf(r, f)' = SavesOf(r, f)
        /\ \A f \in BOOLEAN : RemovesOf(r, f)' = RemovesOf(r, f) \cup
              IF f = p.force /\ r \in p.data THEN {Remove(p.data)} ELSE {}
    BY <1>2, <2>1, <2>2, AppendPlaces
  <2>4. CASE r \notin p.data
    <3>1. \A f \in BOOLEAN : RemovesOf(r, f)' = RemovesOf(r, f)
      BY <2>3, <2>4
    <3> QED BY <1>1, <1>2, <1>3, <2>3, <3>1, FollowedStill
  <2>5. CASE r \in p.data
    <3>1. p \in CachedOf(r) /\ p \notin PostsOf(r)
      BY <1>5, <2>5 DEF CachedOf, PostsOf
    <3>2. /\ OnlyInFile(r, p.force, p.data) /\ CachedOf(r) = {p}
          /\ \A f \in BOOLEAN : RemovesOf(r, f) = {}
      BY <3>1 DEF Followed, Reporting
    <3>3. /\ CachedOf(r)' = {} /\ PostsOf(r)' = PostsOf(r)
          /\ \A f \in BOOLEAN : \A op \in RemovesOf(r, f)' : f = p.force /\ op.data = p.data
      BY <1>2, <2>1, <2>3, <3>1, <3>2
    <3>4. InMemory(r)' = InMemory(r) /\ InFiles(r)' = InFiles(r)
      BY <1>3, <2>3, <3>3 DEF InMemory, InFiles
    <3>5. Alone(r)'
      BY <1>3, <2>3, <3>3, <3>4 DEF Followed, Alone
    <3>6. OnlyInFile(r, p.force, p.data)'
      BY <1>1, <1>3, <3>2, <3>4 DEF OnlyInFile
    <3>7. Reporting(r)'
      BY <3>3, <3>6 DEF Reporting
    <3>8. OnlyMade(r)' /\ NotAgain(r)'
      BY <1>1, <1>3, <2>3, <3>1, <3>3 DEF Followed, OnlyMade, NotAgain
    <3> QED BY <3>5, <3>7, <3>8 DEF Followed
  <2> QED BY <2>4, <2>5
<1> QED BY <1>4, <1>5

\* A failure.
LEMMA FailFollowed ==
  ASSUME TypeOK, NEW r \in Reports, Followed(r), NEW p \in posts, OnFail(p)
  PROVE  Followed(r)'
<1>1. /\ posts' = posts \ {p} /\ queue' = AfterFail(p)
      /\ doubted' = IF p.arrived THEN doubted \cup p.data ELSE doubted
      /\ UNCHANGED <<batch, files, filterSet, accepted, received>>
  BY DEF OnFail, memory
<1>2. /\ PostsOf(r)' = PostsOf(r) \ {p} /\ CachedOf(r)' = CachedOf(r) \ {p}
      /\ p \in Post /\ p.data \in Data /\ p.force \in BOOLEAN
  BY <1>1, PostLess
<1>3. BatchOf(r)' = BatchOf(r) /\ \A f \in BOOLEAN : FilesOf(r, f)' = FilesOf(r, f)
  BY <1>1 DEF BatchOf, FilesOf
<1>4. CASE p.cached
  <2>1. queue' = queue
    BY <1>1, <1>4 DEF AfterFail
  <2>2. \A f \in BOOLEAN : SavesOf(r, f)' = SavesOf(r, f) /\ RemovesOf(r, f)' = RemovesOf(r, f)
    BY <2>1 DEF SavesOf, RemovesOf
  <2> QED BY <1>1, <1>2, <1>3, <2>2, FollowedStill
<1>5. CASE ~p.cached
  <2>1. /\ Save(p.data) \in Operation /\ Save(p.data).kind = "save"
        /\ Save(p.data).data = p.data
    BY <1>2, NewTypes DEF Save
  <2>2. queue' = [queue EXCEPT ![p.force] = Append(@, Save(p.data))]
    BY <1>1, <1>5 DEF AfterFail
  <2>3. /\ \A f \in BOOLEAN : RemovesOf(r, f)' = RemovesOf(r, f)
        /\ \A f \in BOOLEAN : SavesOf(r, f)' = SavesOf(r, f) \cup
              IF f = p.force /\ r \in p.data THEN {Len(queue[p.force]) + 1} ELSE {}
    <3> DEFINE op == Save(p.data)
    <3> HIDE DEF op
    <3>1. op \in Operation /\ op.kind = "save" /\ op.data = p.data
      BY <2>1 DEF op
    <3>2. /\ \A f \in BOOLEAN : SavesOf(r, f)' = SavesOf(r, f) \cup
                IF f = p.force /\ op.kind = "save" /\ r \in op.data
                THEN {Len(queue[p.force]) + 1} ELSE {}
          /\ \A f \in BOOLEAN : RemovesOf(r, f)' = RemovesOf(r, f) \cup
                IF f = p.force /\ op.kind = "remove" /\ r \in op.data THEN {op} ELSE {}
      BY <1>2, <2>2, <3>1, AppendPlaces DEF op
    <3> QED BY <3>1, <3>2
  <2>4. CASE r \notin p.data
    <3>1. \A f \in BOOLEAN : SavesOf(r, f)' = SavesOf(r, f)
      BY <2>3, <2>4
    <3> QED BY <1>1, <1>2, <1>3, <2>3, <3>1, FollowedStill
  <2>5. CASE r \in p.data
    <3>1. p \in PostsOf(r) /\ InMemory(r)
      BY <1>5, <2>5 DEF PostsOf, InMemory
    <3>2. /\ PostsOf(r) = {p} /\ BatchOf(r) = {}
          /\ \A f \in BOOLEAN : SavesOf(r, f) = {}
      BY <3>1 DEF Followed, Alone
    <3>3. /\ CachedOf(r) = {} /\ r \in accepted
          /\ \A f \in BOOLEAN : RemovesOf(r, f) = {} /\ FilesOf(r, f) = {}
      BY <3>1, MemoryApart DEF InFiles
    <3>4. \A f \in BOOLEAN :
            SavesOf(r, f)' = IF f = p.force THEN {Len(queue[p.force]) + 1} ELSE {}
      BY <2>3, <2>5, <3>2
    <3>5. /\ PostsOf(r)' = {} /\ CachedOf(r)' = {} /\ BatchOf(r)' = {}
          /\ \A f \in BOOLEAN : RemovesOf(r, f)' = {} /\ FilesOf(r, f)' = {}
      BY <1>2, <1>3, <2>3, <3>2, <3>3
    <3>6. Alone(r)'
      BY <3>4, <3>5 DEF Alone, InFiles
    <3>7. r \in received => r \in doubted'
      BY <1>1, <2>5, <3>1 DEF Followed, NotAgain
    <3> QED BY <1>1, <3>3, <3>5, <3>6, <3>7, FollowedAfresh
  <2> QED BY <2>4, <2>5
<1> QED BY <1>4, <1>5

\* By one, in the queue whose first operation is taken out.
Moved(force) == [f \in BOOLEAN |-> IF f = force THEN 1 ELSE 0]

\* The saves of the queue move up by one.
LEMMA TailShift ==
  ASSUME TypeOK, NEW r \in Reports, NEW force \in BOOLEAN, queue[force] # <<>>,
         queue' = [queue EXCEPT ![force] = Tail(@)]
  PROVE  /\ Moved(force) \in [BOOLEAN -> Nat]
         /\ \A f \in BOOLEAN : \A i \in SavesOf(r, f)' :
              i \in Nat /\ i + Moved(force)[f] \in SavesOf(r, f)
<1>1. Moved(force) \in [BOOLEAN -> Nat]
      /\ \A f \in BOOLEAN : Moved(force)[f] = IF f = force THEN 1 ELSE 0
  BY DEF Moved
<1>2. ASSUME NEW f \in BOOLEAN, NEW i \in SavesOf(r, f)'
      PROVE  i \in Nat /\ i + Moved(force)[f] \in SavesOf(r, f)
  <2>1. i \in Nat \ {0} /\ (IF f = force THEN i + 1 ELSE i) \in SavesOf(r, f)
    BY <1>2, TailPlaces
  <2>2. i + Moved(force)[f] = IF f = force THEN i + 1 ELSE i
    BY <1>1, <2>1
  <2> QED BY <2>1, <2>2
<1> QED BY <1>1, <1>2

\* FollowedStays where an operation is taken out of a queue.
LEMMA FollowedTail ==
  ASSUME TypeOK, NEW r \in Reports, Followed(r), NEW force \in BOOLEAN,
         queue[force] # <<>>, queue' = [queue EXCEPT ![force] = Tail(@)],
         batch' = batch, CachedOf(r)' \subseteq CachedOf(r), PostsOf(r)' \subseteq PostsOf(r),
         \A f \in BOOLEAN : FilesOf(r, f)' \subseteq FilesOf(r, f),
         \A f \in BOOLEAN : \A d \in FilesOf(r, f)' : d \in filterSet[f] => d \in filterSet'[f],
         \A p \in CachedOf(r)' : p.data \in filterSet[p.force] => p.data \in filterSet'[p.force],
         UNCHANGED <<accepted, received, doubted>>
  PROVE  Followed(r)'
<1>1. \A p \in CachedOf(r) : p.force \in BOOLEAN
  BY CachedFolder
<1>2. /\ Moved(force) \in [BOOLEAN -> Nat]
      /\ \A f \in BOOLEAN : \A i \in SavesOf(r, f)' :
           i \in Nat /\ i + Moved(force)[f] \in SavesOf(r, f)
  BY TailShift
<1>3. \A f \in BOOLEAN : RemovesOf(r, f)' \subseteq RemovesOf(r, f)
  BY TailPlaces
<1>4. BatchOf(r)' = BatchOf(r)
  BY DEF BatchOf
<1> QED BY <1>1, <1>2, <1>3, <1>4, FollowedStays

\* A save is run.
LEMMA SaveFollowed ==
  ASSUME TypeOK, NEW r \in Reports, Followed(r), NEW force \in BOOLEAN, RunSave(force)
  PROVE  Followed(r)'
<1> DEFINE data == Head(queue[force]).data
<1>1. /\ queue[force] # <<>> /\ queue' = [queue EXCEPT ![force] = Tail(@)]
      /\ Head(queue[force]).kind = "save"
      /\ files' = [files EXCEPT ![force] = @ \cup {data}] \/ files' = files
      /\ UNCHANGED <<batch, posts, filterSet, accepted, received, doubted>>
  BY DEF RunSave, memory
<1>2. /\ BatchOf(r)' = BatchOf(r) /\ PostsOf(r)' = PostsOf(r) /\ CachedOf(r)' = CachedOf(r)
  BY <1>1 DEF BatchOf, PostsOf, CachedOf
<1>3. CASE \A f \in BOOLEAN : FilesOf(r, f)' = FilesOf(r, f)
  BY <1>1, <1>2, <1>3, FollowedTail
<1>4. CASE files' = files \/ r \notin data
  <2>1. \A f \in BOOLEAN : FilesOf(r, f)' = FilesOf(r, f)
    <3>1. CASE files' = files
      BY <3>1 DEF FilesOf
    <3>2. CASE files' = [files EXCEPT ![force] = @ \cup {data}] /\ r \notin data
      <4> HIDE DEF data
      <4>1. \A f \in BOOLEAN : files'[f] = files[f] \cup (IF f = force THEN {data} ELSE {})
        BY <3>2 DEF TypeOK
      <4> QED BY <3>2, <4>1 DEF FilesOf
    <3> QED BY <1>1, <1>4, <3>1, <3>2
  <2> QED BY <1>3, <2>1
<1>5. CASE files' = [files EXCEPT ![force] = @ \cup {data}] /\ r \in data
  <2>1. 1 \in SavesOf(r, force) /\ InMemory(r)
    <3>1. 1 \in SavesOf(r, force)
      BY <1>1, <1>5, TailPlaces
    <3> QED BY <3>1 DEF InMemory
  <2>2. /\ PostsOf(r) = {} /\ BatchOf(r) = {}
        /\ \A f \in BOOLEAN : \A i \in SavesOf(r, f) : f = force /\ i = 1
    BY <2>1 DEF Followed, Alone
  <2>3. /\ CachedOf(r) = {} /\ r \in accepted
        /\ \A f \in BOOLEAN : RemovesOf(r, f) = {} /\ FilesOf(r, f) = {}
    BY <2>1, MemoryApart DEF InFiles
  <2>4. \A f \in BOOLEAN : SavesOf(r, f)' = {}
    <3> SUFFICES ASSUME NEW f \in BOOLEAN, NEW i \in SavesOf(r, f)' PROVE FALSE
      OBVIOUS
    <3>1. i \in Nat \ {0} /\ (IF f = force THEN i + 1 ELSE i) \in SavesOf(r, f)
      BY <1>1, TailPlaces
    <3>2. f = force /\ i + 1 = 1
      BY <2>2, <3>1
    <3> QED BY <3>1, <3>2
  <2>5. \A f \in BOOLEAN : RemovesOf(r, f)' = {}
    <3>1. \A f \in BOOLEAN : RemovesOf(r, f)' \subseteq RemovesOf(r, f)
      BY <1>1, TailPlaces
    <3> QED BY <2>3, <3>1
  <2> HIDE DEF data
  <2>6. \A f \in BOOLEAN : \A d \in FilesOf(r, f)' : f = force /\ d = data
    <3>1. \A f \in BOOLEAN : files'[f] = files[f] \cup (IF f = force THEN {data} ELSE {})
      BY <1>5 DEF TypeOK
    <3> QED BY <2>3, <3>1 DEF FilesOf
  <2>7. ~InMemory(r)'
    BY <1>2, <2>2, <2>4 DEF InMemory
  <2>8. Alone(r)'
    BY <1>2, <2>2, <2>4, <2>6, <2>7 DEF Alone
  <2>9. r \in received => r \in doubted
    BY <2>1 DEF Followed, NotAgain
  <2> QED BY <1>1, <1>2, <2>3, <2>5, <2>8, <2>9, FollowedAfresh
<1> QED BY <1>1, <1>4, <1>5

\* A check is run.
LEMMA CheckFollowed ==
  ASSUME TypeOK, NEW r \in Reports, Followed(r), NEW force \in BOOLEAN, RunCheck(force)
  PROVE  Followed(r)'
<1>1. /\ queue[force] # <<>> /\ queue' = [queue EXCEPT ![force] = Tail(@)]
      /\ UNCHANGED <<batch, accepted, received, doubted>>
  BY DEF RunCheck, memory
<1>2. CASE UNCHANGED <<files, filterSet, posts>>
  <2>1. /\ PostsOf(r)' = PostsOf(r) /\ CachedOf(r)' = CachedOf(r)
        /\ \A f \in BOOLEAN : FilesOf(r, f)' = FilesOf(r, f)
    BY <1>2 DEF PostsOf, CachedOf, FilesOf
  <2> QED BY <1>1, <1>2, <2>1, FollowedTail
<1>3. CASE \E old \in SUBSET files[force] : \E sent \in SUBSET (Unfiltered(force) \ old) :
             /\ files' = [files EXCEPT ![force] = @ \ old]
             /\ filterSet' = [filterSet EXCEPT ![force] = @ \cup sent]
             /\ posts' = posts \cup {NewPost(data, force, TRUE) : data \in sent}
  <2>0. PICK old \in SUBSET files[force] : \E sent \in SUBSET (Unfiltered(force) \ old) :
             /\ files' = [files EXCEPT ![force] = @ \ old]
             /\ filterSet' = [filterSet EXCEPT ![force] = @ \cup sent]
             /\ posts' = posts \cup {NewPost(data, force, TRUE) : data \in sent}
    BY <1>3
  <2>1. PICK sent \in SUBSET (Unfiltered(force) \ old) :
             /\ files' = [files EXCEPT ![force] = @ \ old]
             /\ filterSet' = [filterSet EXCEPT ![force] = @ \cup sent]
             /\ posts' = posts \cup {NewPost(data, force, TRUE) : data \in sent}
    BY <2>0
  <2>2. /\ \A f \in BOOLEAN : files'[f] \subseteq files[f] /\ filterSet[f] \subseteq filterSet'[f]
        /\ sent \subseteq filterSet'[force]
        /\ \A d \in sent : d \in files[force] /\ d \notin filterSet[force]
    BY <2>1 DEF TypeOK, Unfiltered
  <2>3. \A d : /\ NewPost(d, force, TRUE).data = d /\ NewPost(d, force, TRUE).cached
               /\ NewPost(d, force, TRUE).force = force
               /\ NewPost(d, force, TRUE).arrived = FALSE
    BY DEF NewPost
  <2>4. /\ PostsOf(r)' = PostsOf(r)
        /\ CachedOf(r)' = CachedOf(r)
                            \cup {NewPost(d, force, TRUE) : d \in {e \in sent : r \in e}}
    <3>1. PostsOf(r)' = PostsOf(r)
      BY <2>1, <2>3 DEF PostsOf
    <3>2. CachedOf(r) \subseteq CachedOf(r)'
      BY <2>1 DEF CachedOf
    <3>3. \A d \in sent : r \in d => NewPost(d, force, TRUE) \in CachedOf(r)'
      BY <2>1, <2>3 DEF CachedOf
    <3>4. \A p \in CachedOf(r)' :
            p \in CachedOf(r) \/ \E d \in sent : r \in d /\ p = NewPost(d, force, TRUE)
      <4> TAKE p \in CachedOf(r)'
      <4>1. p \in posts' /\ p.cached /\ r \in p.data
        BY DEF CachedOf
      <4>2. CASE p \in posts
        BY <4>1, <4>2 DEF CachedOf
      <4>3. CASE p \notin posts
        <5>1. PICK d \in sent : p = NewPost(d, force, TRUE)
          BY <2>1, <4>1, <4>3
        <5>2. r \in d
          BY <2>3, <4>1, <5>1
        <5> QED BY <5>1, <5>2
      <4> QED BY <4>2, <4>3
    <3> QED BY <3>1, <3>2, <3>3, <3>4
  <2>5. \A f \in BOOLEAN : FilesOf(r, f)' \subseteq FilesOf(r, f)
    BY <2>2 DEF FilesOf
  <2>6. CASE \A e \in sent : r \notin e
    <3>1. CachedOf(r)' = CachedOf(r)
      BY <2>4, <2>6
    <3>2. \A p \in CachedOf(r)' : p.force \in BOOLEAN
      BY <3>1, CachedFolder
    <3>3. \A f \in BOOLEAN : \A d \in FilesOf(r, f)' : d \in filterSet[f] => d \in filterSet'[f]
      BY <2>2
    <3>4. \A p \in CachedOf(r)' : p.data \in filterSet[p.force] => p.data \in filterSet'[p.force]
      BY <2>2, <3>2
    <3> QED BY <1>1, <2>4, <2>5, <3>1, <3>3, <3>4, FollowedTail
  <2>7. CASE \E e \in sent : r \in e
    <3>1. PICK data \in sent : r \in data
      BY <2>7
    <3>2. data \in FilesOf(r, force) /\ data \notin filterSet[force]
      BY <2>2, <3>1 DEF FilesOf
    <3>3. \A f \in BOOLEAN : \A d \in FilesOf(r, f) : f = force /\ d = data
      BY <3>2 DEF Followed, Alone
    <3>4. InFiles(r) /\ ~InMemory(r)
      BY <3>2 DEF Followed, Alone, InFiles
    <3>5. \A f, d : OnlyInFile(r, f, d) => data \in filterSet[force]
      BY <3>2 DEF OnlyInFile
    <3>6. CachedOf(r) = {} /\ \A f \in BOOLEAN : RemovesOf(r, f) = {}
      BY <3>2, <3>5 DEF Followed, Reporting
    <3>7. r \in accepted /\ ~(r \in received \ doubted)
      BY <3>2, <3>4 DEF Followed, OnlyMade, NotAgain
    <3>8. /\ BatchOf(r)' = {} /\ PostsOf(r)' = {}
          /\ \A f \in BOOLEAN : SavesOf(r, f)' = {} /\ RemovesOf(r, f)' = {}
      <4>1. /\ BatchOf(r) = {} /\ PostsOf(r) = {}
            /\ \A f \in BOOLEAN : SavesOf(r, f) = {}
        BY <3>4 DEF InMemory
      <4>2. BatchOf(r)' = BatchOf(r)
        BY <1>1 DEF BatchOf
      <4>3. \A f \in BOOLEAN : SavesOf(r, f)' = {}
        BY <1>1, <4>1, TailPlaces
      <4>4. \A f \in BOOLEAN : RemovesOf(r, f)' \subseteq RemovesOf(r, f)
        BY <1>1, TailPlaces
      <4> QED BY <2>4, <3>6, <4>1, <4>2, <4>3, <4>4
    <3>9. ~InMemory(r)'
      BY <3>8 DEF InMemory
    <3>10. \A f \in BOOLEAN : \A d \in FilesOf(r, f)' : f = force /\ d = data
      BY <2>5, <3>3
    <3>11. Alone(r)'
      BY <3>8, <3>9, <3>10 DEF Alone
    <3>12. \A p \in CachedOf(r)' : p = NewPost(data, force, TRUE)
      <4>1. \A d \in sent : r \in d => d = data
        BY <2>2, <3>3 DEF FilesOf
      <4> QED BY <2>4, <3>6, <4>1
    <3>13. data \in filterSet'[force] /\ OnlyInFile(r, force, data)'
      BY <2>2, <3>1, <3>9, <3>10 DEF OnlyInFile
    <3>14. Reporting(r)'
      BY <2>3, <3>8, <3>12, <3>13 DEF Reporting
    <3>15. OnlyMade(r)' /\ NotAgain(r)'
      BY <1>1, <3>7 DEF OnlyMade, NotAgain
    <3> QED BY <3>11, <3>14, <3>15 DEF Followed
  <2> QED BY <2>6, <2>7
<1> QED BY <1>2, <1>3 DEF RunCheck

\* A removal is run.
LEMMA RemoveFollowed ==
  ASSUME TypeOK, NEW r \in Reports, Followed(r), NEW force \in BOOLEAN, RunRemove(force)
  PROVE  Followed(r)'
<1> DEFINE op == Head(queue[force])
           data == op.data
<1>1. /\ queue[force] # <<>> /\ queue' = [queue EXCEPT ![force] = Tail(@)]
      /\ op.kind = "remove"
      /\ files' = [files EXCEPT ![force] = @ \ {data}]
      /\ filterSet' = [filterSet EXCEPT ![force] = @ \ {data}]
      /\ UNCHANGED <<batch, posts, accepted, received, doubted>>
  BY DEF RunRemove, memory, history
<1>2. r \in data => op \in RemovesOf(r, force)
  BY <1>1, TailPlaces
<1> HIDE DEF op
<1>3. /\ \A f \in BOOLEAN : files'[f] = files[f] \ (IF f = force THEN {data} ELSE {})
      /\ \A f \in BOOLEAN : filterSet'[f] = filterSet[f] \ (IF f = force THEN {data} ELSE {})
  BY <1>1 DEF TypeOK
<1>4. PostsOf(r)' = PostsOf(r) /\ CachedOf(r)' = CachedOf(r)
  BY <1>1 DEF PostsOf, CachedOf
<1>5. \A f \in BOOLEAN : FilesOf(r, f)' \subseteq FilesOf(r, f)
  BY <1>3 DEF FilesOf
<1>6. \A f \in BOOLEAN : \A d \in FilesOf(r, f)' : d \in filterSet[f] => d \in filterSet'[f]
  BY <1>3 DEF FilesOf
<1>7. \A p \in CachedOf(r)' : p.data \in filterSet[p.force] => p.data \in filterSet'[p.force]
  <2> SUFFICES ASSUME NEW p \in CachedOf(r), p.data \in filterSet[p.force]
               PROVE  p.data \in filterSet'[p.force]
    BY <1>4
  <2>1. r \in p.data /\ RemovesOf(r, force) = {}
    BY DEF CachedOf, Followed, Reporting
  <2>2. p.data # data
    BY <1>2, <2>1
  <2>3. p.force \in BOOLEAN
    BY CachedFolder
  <2> QED BY <1>3, <2>2, <2>3
<1> QED BY <1>1, <1>4, <1>5, <1>6, <1>7, FollowedTail

\* The process dies.
LEMMA KillFollowed ==
  ASSUME TypeOK, NEW r \in Reports, Followed(r), Kill
  PROVE  Followed(r)'
<1>1. /\ batch' = <<>> /\ posts' = {} /\ \A f \in BOOLEAN : queue'[f] = <<>>
      /\ received \subseteq doubted'
      /\ UNCHANGED <<files, accepted, received>>
  BY DEF Kill
<1>2. /\ BatchOf(r)' = {} /\ PostsOf(r)' = {} /\ CachedOf(r)' = {}
      /\ \A f \in BOOLEAN : SavesOf(r, f)' = {} /\ RemovesOf(r, f)' = {}
  <2>1. \A f \in BOOLEAN : Elems(queue[f])' = {}
    BY <1>1 DEF Elems
  <2> QED BY <1>1, <2>1 DEF BatchOf, PostsOf, CachedOf, SavesOf, RemovesOf
<1>3. InFiles(r)' = InFiles(r) /\ \A f \in BOOLEAN : FilesOf(r, f)' = FilesOf(r, f)
  BY <1>1 DEF InFiles, FilesOf
<1>4. ~InMemory(r)'
  BY <1>2 DEF InMemory
<1>5. Alone(r)'
  BY <1>2, <1>3, <1>4 DEF Followed, Alone
<1>6. Reporting(r)' /\ OnlyMade(r)' /\ NotAgain(r)'
  BY <1>1, <1>2, <1>3, <1>4 DEF Followed, Reporting, OnlyMade, NotAgain
<1> QED BY <1>5, <1>6 DEF Followed

\* Every step.
LEMMA NextFollowed ==
  ASSUME TypeOK, NEW r \in Reports, Followed(r), [Next]_vars
  PROVE  Followed(r)'
<1>1. CASE RunOnMainThread
  BY <1>1, FollowedSame DEF RunOnMainThread, disk, history
<1>2. ASSUME NEW n \in Net, NetChange(n) PROVE Followed(r)'
  BY <1>2, FollowedSame DEF NetChange, memory, disk, history
<1>3. CASE UNCHANGED vars
  BY <1>3, FollowedSame DEF vars, memory, disk, history
<1> QED BY <1>1, <1>2, <1>3, ReportFollowed, ForceFollowed, TimeoutFollowed, ArriveFollowed,
           SuccessFollowed, FailFollowed, SaveFollowed, CheckFollowed, RemoveFollowed,
           KillFollowed DEF Next

\* The strengthened invariant.
EachFollowed == \A r \in Reports : Followed(r)

\* It always holds, with the types.
LEMMA AlwaysFollowed == Spec => [](TypeOK /\ EachFollowed)
<1>1. Init => EachFollowed
  <2> SUFFICES ASSUME Init, NEW r \in Reports PROVE Followed(r)
    BY DEF EachFollowed
  <2>1. /\ BatchOf(r) = {} /\ PostsOf(r) = {} /\ CachedOf(r) = {} /\ r \notin received
        /\ \A f \in BOOLEAN : SavesOf(r, f) = {} /\ FilesOf(r, f) = {} /\ RemovesOf(r, f) = {}
    <3>1. \A f \in BOOLEAN : Elems(queue[f]) = {}
      BY DEF Init, Elems
    <3> QED BY <3>1 DEF Init, BatchOf, PostsOf, CachedOf, SavesOf, FilesOf, RemovesOf
  <2>2. ~InMemory(r) /\ ~InFiles(r)
    BY <2>1 DEF InMemory, InFiles
  <2> QED BY <2>1, <2>2 DEF Followed, Alone, Reporting, OnlyMade, NotAgain
<1>2. TypeOK /\ EachFollowed /\ [Next]_vars => EachFollowed'
  BY NextFollowed DEF EachFollowed
<1> QED BY <1>1, <1>2, InitType, NextType, PTL DEF Spec

-----------------------------------------------------------------------------
(* The theorems.                                                           *)

\* A report is in one place at a time, through batches, flushes, failures, saves,
\* checks, removals and deaths: no handler leaves a copy where it took one.
THEOREM InOnePlace == Spec => []OnePlace
<1>1. EachFollowed => OnePlace
  BY AloneCounts DEF EachFollowed, Followed
<1> QED BY <1>1, AlwaysFollowed, PTL

\* The server receives a report twice only where a failed answer or the death of
\* the process left its success in doubt.
THEOREM TwiceOnlyInDoubt == Spec => []DoubledOnlyInDoubt
<1>1. Init => DoubledOnlyInDoubt
  BY DEF Init, DoubledOnlyInDoubt
<1>2. TypeOK /\ EachFollowed /\ DoubledOnlyInDoubt /\ [Next]_vars => DoubledOnlyInDoubt'
  <2> SUFFICES ASSUME TypeOK, EachFollowed, DoubledOnlyInDoubt, [Next]_vars
               PROVE  DoubledOnlyInDoubt'
    OBVIOUS
  <2>1. ASSUME NEW p \in posts, Arrive(p) PROVE DoubledOnlyInDoubt'
    <3>1. p.data \subseteq Reports /\ p.cached \in BOOLEAN /\ ~p.arrived
      BY <2>1 DEF TypeOK, Post, Data, Arrive
    <3>2. ASSUME NEW r \in p.data PROVE ~(r \in received \ doubted)
      <4>1. r \in Reports /\ p \in PostsOf(r) \cup CachedOf(r)
        BY <3>1 DEF PostsOf, CachedOf
      <4> QED BY <3>1, <4>1 DEF EachFollowed, Followed, NotAgain
    <3>3. doubled' = doubled \cup ((p.data \cap received) \ doubted)
      BY <2>1 DEF Arrive
    <3> QED BY <3>2, <3>3 DEF DoubledOnlyInDoubt
  <2>2. ASSUME doubled' = doubled PROVE DoubledOnlyInDoubt'
    BY <2>2 DEF DoubledOnlyInDoubt
  <2>3. doubled' = doubled \/ \E p \in posts : Arrive(p)
    BY DEF Next, vars, memory, disk, history, ReportData, ForceReportData, RunOnMainThread,
           FlushTimeout, OnSuccess, OnFail, NetChange, RunSave, RunCheck, RunRemove, Kill
  <2> QED BY <2>1, <2>2, <2>3
<1> QED BY <1>1, <1>2, AlwaysFollowed, PTL DEF Spec

-----------------------------------------------------------------------------
(* The way a report takes through memory: from the array to a post or to a  *)
(* save, from a failed post to a save, up its queue, and out.               *)

\* A step never takes it back: once out of memory it stays out, a report that is
\* posted is in the array no more, one that is to be saved is neither in the
\* array nor posted again, and its save only moves up in its queue.
MovesOn ==
  [][\A r \in Reports :
       /\ r \in accepted /\ ~InMemory(r) => ~InMemory(r)'
       /\ PostsOf(r) # {} => BatchOf(r)' = {}
       /\ \A f \in BOOLEAN : SavesOf(r, f) # {} => BatchOf(r)' = {} /\ PostsOf(r)' = {}
       /\ \A f \in BOOLEAN : \A i \in SavesOf(r, f), j \in SavesOf(r, f)' : j <= i]_vars

\* What a step does to the places of one report.
Onward(r) ==
  /\ BatchOf(r)' # {} => BatchOf(r) # {} \/ r \notin accepted
  /\ PostsOf(r)' # {} => PostsOf(r) # {} \/ BatchOf(r) # {} \/ r \notin accepted
  /\ \A f \in BOOLEAN : \A j \in SavesOf(r, f)' :
       /\ InMemory(r) \/ r \notin accepted
       /\ \A i \in SavesOf(r, f) : j <= i

\* A save that is alone is not behind itself.
LEMMA SaveItself ==
  ASSUME TypeOK, NEW r \in Reports, Followed(r), NEW f \in BOOLEAN,
         NEW i \in SavesOf(r, f), NEW j \in SavesOf(r, f)
  PROVE  j <= i /\ InMemory(r)
<1>1. i = j /\ InMemory(r)
  BY DEF Followed, Alone, InMemory
<1>2. i \in Nat
  BY DEF SavesOf, TypeOK
<1> QED BY <1>1, <1>2

\* A step that leaves the queues, or adds no save of the report to them.
LEMMA OnwardStill ==
  ASSUME TypeOK, NEW r \in Reports, Followed(r),
         BatchOf(r)' # {} => BatchOf(r) # {} \/ r \notin accepted,
         PostsOf(r)' # {} => PostsOf(r) # {} \/ BatchOf(r) # {} \/ r \notin accepted,
         \A f \in BOOLEAN : SavesOf(r, f)' \subseteq SavesOf(r, f)
  PROVE  Onward(r)
BY SaveItself DEF Onward

\* A step that takes an operation from a queue.
LEMMA OnwardTail ==
  ASSUME TypeOK, NEW r \in Reports, Followed(r), NEW force \in BOOLEAN, queue[force] # <<>>,
         queue' = [queue EXCEPT ![force] = Tail(@)],
         BatchOf(r)' = BatchOf(r), PostsOf(r)' = PostsOf(r)
  PROVE  Onward(r)
<1> SUFFICES ASSUME NEW f \in BOOLEAN, NEW j \in SavesOf(r, f)'
             PROVE  InMemory(r) /\ \A i \in SavesOf(r, f) : j <= i
  BY DEF Onward
<1>1. j \in Nat /\ (IF f = force THEN j + 1 ELSE j) \in SavesOf(r, f)
  BY TailPlaces
<1>2. PICK k \in SavesOf(r, f) : k = j \/ k = j + 1
  BY <1>1
<1>3. \A i \in SavesOf(r, f) : i = k
  BY DEF Followed, Alone
<1>4. j <= k /\ InMemory(r)
  BY <1>1, <1>2, SaveItself
<1> QED BY <1>3, <1>4

\* A step that adds a save of a report without one.
LEMMA OnwardSave ==
  ASSUME NEW r \in Reports,
         BatchOf(r)' # {} => BatchOf(r) # {} \/ r \notin accepted,
         PostsOf(r)' # {} => PostsOf(r) # {} \/ BatchOf(r) # {} \/ r \notin accepted,
         InMemory(r) \/ r \notin accepted,
         \A f \in BOOLEAN : SavesOf(r, f) = {}
  PROVE  Onward(r)
BY DEF Onward

\* A flush.
LEMMA FlushOnward ==
  ASSUME TypeOK, NEW r \in Reports, Followed(r),
         NEW records \in Seq(Reports), Flush(records),
         \A i, j \in DOMAIN records : records[i] = r /\ records[j] = r => i = j,
         r \in Elems(records) => BatchOf(r) # {} \/ r \notin accepted
  PROVE  Onward(r)
<1>1. /\ BatchOf(r)' = {} /\ SavesOf(r, TRUE)' = SavesOf(r, TRUE)
      /\ r \notin Elems(records) =>
           PostsOf(r)' = PostsOf(r) /\ SavesOf(r, FALSE)' = SavesOf(r, FALSE)
  BY FlushPlaces
<1>2. CASE r \notin Elems(records)
  BY <1>1, <1>2, OnwardStill
<1>3. CASE r \in Elems(records)
  <2>1. \A f \in BOOLEAN : SavesOf(r, f) = {}
    BY <1>3 DEF Followed, Alone, OnlyMade, InMemory
  <2>2. InMemory(r) \/ r \notin accepted
    BY <1>3 DEF InMemory
  <2> QED BY <1>1, <1>3, <2>1, <2>2, OnwardSave
<1> QED BY <1>2, <1>3

\* A report is made for the batch.
LEMMA ReportOnward ==
  ASSUME TypeOK, NEW r \in Reports, Followed(r), NEW s \in Reports, ReportData(s)
  PROVE  Onward(r)
<1> DEFINE records == Append(batch, s)
<1>1. s \notin accepted
  BY DEF ReportData
<1>2. /\ records \in Seq(Reports)
      /\ {i \in DOMAIN records : records[i] = r}
           = BatchOf(r) \cup IF r = s THEN {Len(batch) + 1} ELSE {}
      /\ r \in Elems(records) => r = s \/ BatchOf(r) # {}
  BY BatchAppended
<1>3. r = s => BatchOf(r) = {}
  BY <1>1, MadeNowhere
<1> HIDE DEF records
<1>4. CASE Flush(records)
  <2>1. \A i, j \in DOMAIN records : records[i] = r /\ records[j] = r => i = j
    <3>1. \A i, j \in BatchOf(r) : i = j
      BY DEF Followed, Alone
    <3> QED BY <1>2, <1>3, <3>1
  <2> QED BY <1>1, <1>2, <1>4, <2>1, FlushOnward
<1>5. CASE batch' = records /\ UNCHANGED <<posts, queue>>
  <2>1. BatchOf(r)' # {} => BatchOf(r) # {} \/ r \notin accepted
    BY <1>1, <1>2, <1>5 DEF BatchOf
  <2>2. PostsOf(r)' = PostsOf(r) /\ \A f \in BOOLEAN : SavesOf(r, f)' = SavesOf(r, f)
    BY <1>5 DEF PostsOf, SavesOf
  <2> QED BY <2>1, <2>2, OnwardStill
<1> QED BY <1>4, <1>5 DEF ReportData, records

\* A report is made that is posted at once.
LEMMA ForceOnward ==
  ASSUME TypeOK, NEW r \in Reports, Followed(r), NEW s \in Forced \ accepted,
         ForceReportData(s)
  PROVE  Onward(r)
<1>1. BatchOf(r)' = BatchOf(r)
  BY DEF ForceReportData, memory, BatchOf
<1>2. CASE posts' = posts \cup {NewPost({s}, TRUE, FALSE)} /\ queue' = queue
  <2>1. PostsOf(r)' # {} => PostsOf(r) # {} \/ r = s
    BY <1>2 DEF PostsOf, NewPost
  <2>2. \A f \in BOOLEAN : SavesOf(r, f)' = SavesOf(r, f)
    BY <1>2 DEF SavesOf
  <2> QED BY <1>1, <2>1, <2>2, OnwardStill
<1>3. CASE posts' = posts /\ queue' = [queue EXCEPT ![TRUE] = Append(@, Save({s}))]
  <2>1. {s} \in Data
    BY ReportAssumption DEF Data
  <2>2. Save({s}) \in Operation /\ Save({s}).data = {s}
    BY <2>1, NewTypes DEF Save
  <2>3. PostsOf(r)' = PostsOf(r)
    BY <1>3 DEF PostsOf
  <2>4. CASE r # s
    <3>1. \A f \in BOOLEAN : SavesOf(r, f)' = SavesOf(r, f) \cup
            IF f = TRUE /\ Save({s}).kind = "save" /\ r \in Save({s}).data
            THEN {Len(queue[TRUE]) + 1} ELSE {}
      BY <1>3, <2>2, AppendPlaces
    <3>2. \A f \in BOOLEAN : SavesOf(r, f)' = SavesOf(r, f)
      BY <2>2, <2>4, <3>1
    <3> QED BY <1>1, <2>3, <3>2, OnwardStill
  <2>5. CASE r = s
    <3>1. \A f \in BOOLEAN : SavesOf(r, f) = {}
      BY <2>5, MadeNowhere
    <3> QED BY <1>1, <2>3, <2>5, <3>1, OnwardSave
  <2> QED BY <2>4, <2>5
<1> QED BY <1>2, <1>3 DEF ForceReportData

\* The delayed flush.
LEMMA TimeoutOnward ==
  ASSUME TypeOK, NEW r \in Reports, Followed(r), FlushTimeout
  PROVE  Onward(r)
<1>1. CASE Flush(batch)
  <2>1. batch \in Seq(Reports) /\ (r \in Elems(batch) => BatchOf(r) # {})
    BY DEF TypeOK, Elems, BatchOf
  <2>2. \A i, j \in DOMAIN batch : batch[i] = r /\ batch[j] = r => i = j
    BY DEF Followed, Alone, BatchOf
  <2> QED BY <1>1, <2>1, <2>2, FlushOnward
<1>2. CASE UNCHANGED <<batch, posts, queue>>
  <2>1. /\ BatchOf(r)' = BatchOf(r) /\ PostsOf(r)' = PostsOf(r)
        /\ \A f \in BOOLEAN : SavesOf(r, f)' = SavesOf(r, f)
    BY <1>2 DEF BatchOf, PostsOf, SavesOf
  <2> QED BY <2>1, OnwardStill
<1> QED BY <1>1, <1>2 DEF FlushTimeout

\* An operation that is no save is added to a queue.
LEMMA NoSaveAppended ==
  ASSUME TypeOK, NEW r \in Reports, NEW force \in BOOLEAN, NEW op \in Operation,
         op.kind # "save", queue' = [queue EXCEPT ![force] = Append(@, op)]
  PROVE  \A f \in BOOLEAN : SavesOf(r, f)' = SavesOf(r, f)
<1>1. \A f \in BOOLEAN : SavesOf(r, f)' = SavesOf(r, f) \cup
        IF f = force /\ op.kind = "save" /\ r \in op.data
        THEN {Len(queue[force]) + 1} ELSE {}
  BY AppendPlaces
<1> QED BY <1>1

\* A success.
LEMMA SuccessOnward ==
  ASSUME TypeOK, NEW r \in Reports, Followed(r), NEW p \in posts, OnSuccess(p)
  PROVE  Onward(r)
<1>1. /\ BatchOf(r)' = BatchOf(r) /\ PostsOf(r)' \subseteq PostsOf(r)
      /\ p.force \in BOOLEAN /\ p.data \in Data
  BY PostLess DEF OnSuccess, memory, BatchOf
<1>2. \A f \in BOOLEAN : SavesOf(r, f)' = SavesOf(r, f)
  <2>1. CASE p.cached
    <3>1. queue' = [queue EXCEPT ![p.force] = Append(@, Remove(p.data))]
      BY <2>1 DEF OnSuccess, AfterSuccess
    <3>2. Remove(p.data) \in Operation /\ Remove(p.data).kind # "save"
      BY <1>1, NewTypes DEF Remove
    <3> QED BY <1>1, <3>1, <3>2, NoSaveAppended
  <2>2. CASE ~p.cached
    <3> TAKE f \in BOOLEAN
    <3>1. queue'[f] = queue[f] \/ queue'[f] = Append(queue[f], Check)
      BY <2>2 DEF OnSuccess, AfterSuccess
    <3>2. queue[f] \in Seq(Operation) /\ Check \in Operation /\ Check.kind = "check"
      BY CheckType DEF TypeOK
    <3>3. CASE queue'[f] = Append(queue[f], Check)
      <4>1. /\ DOMAIN queue'[f] = DOMAIN queue[f] \cup {Len(queue[f]) + 1}
            /\ \A i \in DOMAIN queue[f] : queue'[f][i] = queue[f][i]
            /\ queue'[f][Len(queue[f]) + 1] = Check
        BY <3>2, <3>3
      <4> QED BY <3>2, <4>1 DEF SavesOf
    <3>4. CASE queue'[f] = queue[f]
      BY <3>4 DEF SavesOf
    <3> QED BY <3>1, <3>3, <3>4
  <2> QED BY <2>1, <2>2
<1> QED BY <1>1, <1>2, OnwardStill

\* A failure.
LEMMA FailOnward ==
  ASSUME TypeOK, NEW r \in Reports, Followed(r), NEW p \in posts, OnFail(p)
  PROVE  Onward(r)
<1>1. /\ BatchOf(r)' = BatchOf(r) /\ PostsOf(r)' \subseteq PostsOf(r)
      /\ p.force \in BOOLEAN /\ p.data \in Data
  BY PostLess DEF OnFail, memory, BatchOf
<1>2. CASE p.cached
  <2>1. \A f \in BOOLEAN : SavesOf(r, f)' = SavesOf(r, f)
    BY <1>2 DEF OnFail, AfterFail, SavesOf
  <2> QED BY <1>1, <2>1, OnwardStill
<1>3. CASE ~p.cached
  <2>1. /\ queue' = [queue EXCEPT ![p.force] = Append(@, Save(p.data))]
        /\ Save(p.data) \in Operation /\ Save(p.data).data = p.data
    BY <1>1, <1>3, NewTypes DEF OnFail, AfterFail, Save
  <2>2. CASE r \notin p.data
    <3>1. \A f \in BOOLEAN : SavesOf(r, f)' = SavesOf(r, f) \cup
            IF f = p.force /\ Save(p.data).kind = "save" /\ r \in Save(p.data).data
            THEN {Len(queue[p.force]) + 1} ELSE {}
      BY <1>1, <2>1, AppendPlaces
    <3>2. \A f \in BOOLEAN : SavesOf(r, f)' = SavesOf(r, f)
      BY <2>1, <2>2, <3>1
    <3> QED BY <1>1, <3>2, OnwardStill
  <2>3. CASE r \in p.data
    <3>1. PostsOf(r) # {} /\ InMemory(r)
      BY <1>3, <2>3 DEF PostsOf, InMemory
    <3>2. \A f \in BOOLEAN : SavesOf(r, f) = {}
      BY <3>1 DEF Followed, Alone
    <3> QED BY <1>1, <3>1, <3>2, OnwardSave
  <2> QED BY <2>2, <2>3
<1> QED BY <1>2, <1>3

\* The server receives a request.
LEMMA ArriveOnward ==
  ASSUME TypeOK, NEW r \in Reports, Followed(r), NEW p \in posts, Arrive(p)
  PROVE  Onward(r)
<1> DEFINE there == [p EXCEPT !.arrived = TRUE]
<1>1. p \in Post /\ there.data = p.data /\ there.cached = p.cached
  BY DEF TypeOK, Post
<1>2. posts' = (posts \ {p}) \cup {there} /\ UNCHANGED <<batch, queue>>
  BY DEF Arrive, memory, disk
<1> HIDE DEF there
<1>3. /\ BatchOf(r)' = BatchOf(r)
      /\ \A f \in BOOLEAN : SavesOf(r, f)' = SavesOf(r, f)
  BY <1>2 DEF BatchOf, SavesOf
<1>4. PostsOf(r)' # {} => PostsOf(r) # {}
  BY <1>1, <1>2 DEF PostsOf
<1> QED BY <1>3, <1>4, OnwardStill

\* An operation is run.
LEMMA OperationOnward ==
  ASSUME TypeOK, NEW r \in Reports, Followed(r), NEW force \in BOOLEAN,
         RunSave(force) \/ RunCheck(force) \/ RunRemove(force)
  PROVE  Onward(r)
<1>1. queue[force] # <<>> /\ queue' = [queue EXCEPT ![force] = Tail(@)]
  BY DEF RunSave, RunCheck, RunRemove
<1>2. BatchOf(r)' = BatchOf(r)
  BY DEF RunSave, RunCheck, RunRemove, memory, BatchOf
<1>3. PostsOf(r)' = PostsOf(r)
  <2>1. CASE posts' = posts
    BY <2>1 DEF PostsOf
  <2>2. CASE \E sent : posts' = posts \cup {NewPost(data, force, TRUE) : data \in sent}
    BY <2>2 DEF PostsOf, NewPost
  <2> QED BY <2>1, <2>2 DEF RunSave, RunCheck, RunRemove
<1> QED BY <1>1, <1>2, <1>3, OnwardTail

\* Every step moves every report on.
LEMMA NextOnward ==
  ASSUME TypeOK, NEW r \in Reports, Followed(r), [Next]_vars
  PROVE  Onward(r)
<1>1. CASE UNCHANGED <<batch, posts, queue>>
  <2>1. /\ BatchOf(r)' = BatchOf(r) /\ PostsOf(r)' = PostsOf(r)
        /\ \A f \in BOOLEAN : SavesOf(r, f)' = SavesOf(r, f)
    BY <1>1 DEF BatchOf, PostsOf, SavesOf
  <2> QED BY <2>1, OnwardStill
<1>2. CASE RunOnMainThread
  BY <1>1, <1>2 DEF RunOnMainThread, disk
<1>3. ASSUME NEW n \in Net, NetChange(n) PROVE Onward(r)
  BY <1>1, <1>3 DEF NetChange, memory, disk
<1>4. CASE Kill
  <2>1. /\ BatchOf(r)' = {} /\ PostsOf(r)' = {}
        /\ \A f \in BOOLEAN : SavesOf(r, f)' = {}
    BY <1>4 DEF Kill, BatchOf, PostsOf, SavesOf
  <2> QED BY <2>1, OnwardStill
<1>5. ASSUME NEW s \in Reports, ForceReportData(s) PROVE Onward(r)
  <2>1. s \in Forced \ accepted
    BY <1>5 DEF ForceReportData
  <2> QED BY <1>5, <2>1, ForceOnward
<1>6. CASE UNCHANGED vars
  BY <1>1, <1>6 DEF vars, memory, disk
<1> QED BY <1>2, <1>3, <1>4, <1>5, <1>6, ReportOnward, TimeoutOnward, ArriveOnward,
           SuccessOnward, FailOnward, OperationOnward DEF Next

\* A report only moves on, through the array, its posts and its saves, and what
\* has left memory never comes back to it: no path through failures, checks and
\* flushes can keep one in memory by sending it round.
THEOREM ReportsMoveOn == Spec => MovesOn
<1> DEFINE Moves(r) ==
      /\ r \in accepted /\ ~InMemory(r) => ~InMemory(r)'
      /\ PostsOf(r) # {} => BatchOf(r)' = {}
      /\ \A f \in BOOLEAN : SavesOf(r, f) # {} => BatchOf(r)' = {} /\ PostsOf(r)' = {}
      /\ \A f \in BOOLEAN : \A i \in SavesOf(r, f), j \in SavesOf(r, f)' : j <= i
<1>1. ASSUME TypeOK, EachFollowed, [Next]_vars, NEW r \in Reports PROVE Moves(r)
  <2>1. Followed(r) /\ Onward(r)
    BY <1>1, NextOnward DEF EachFollowed
  <2>2. r \in accepted /\ ~InMemory(r) => ~InMemory(r)'
    BY <2>1 DEF Onward, InMemory
  <2>3. InMemory(r) => r \in accepted
    BY <2>1 DEF Followed, OnlyMade
  <2>4. PostsOf(r) # {} => BatchOf(r)' = {}
    BY <2>1, <2>3 DEF Onward, Followed, Alone, InMemory
  <2>5. \A f \in BOOLEAN : SavesOf(r, f) # {} => BatchOf(r)' = {} /\ PostsOf(r)' = {}
    BY <2>1, <2>3 DEF Onward, Followed, Alone, InMemory
  <2>6. \A f \in BOOLEAN : \A i \in SavesOf(r, f), j \in SavesOf(r, f)' : j <= i
    BY <2>1 DEF Onward
  <2> QED BY <2>2, <2>4, <2>5, <2>6
<1>2. TypeOK /\ EachFollowed /\ [Next]_vars => [\A r \in Reports : Moves(r)]_vars
  BY <1>1
<1> QED BY <1>2, AlwaysFollowed, PTL DEF Spec, MovesOn

-----------------------------------------------------------------------------
(* The files left out of every check.  A comment (kinfoc_cachefile_mgr.m:175) *)
(* says that a file in the set is being reported; TLC refutes it in           *)
(* FilteredIsReporting.  What is true instead, exactly: a file gets stuck in  *)
(* the set when its own post fails, and only then, and stays until the        *)
(* process dies.                                                              *)

BeingReported(force, data) ==
  \/ \E p \in posts : p.cached /\ p.force = force /\ p.data = data
  \/ Remove(data) \in Elems(queue[force])
Stuck(force, data) == data \in filterSet[force] /\ ~BeingReported(force, data)

\* The post of a cache file fails.
PostFails(force, data) ==
  \E p \in posts : OnFail(p) /\ p.cached /\ p.force = force /\ p.data = data

\* A file is stuck after a step if it was, or if its post has just failed, and
\* the process lives.
StuckByFailure ==
  [][\A force \in BOOLEAN, data \in Data :
       Stuck(force, data)' <=> ~Kill /\ (Stuck(force, data) \/ PostFails(force, data))]_vars

\* Removals are told apart by their files, and from other operations.
LEMMA RemovalsDiffer ==
  ASSUME NEW data, NEW op \in Operation, op.kind = "remove"
  PROVE  /\ op = Remove(data) <=> op.data = data
         /\ Remove(data).kind = "remove" /\ Remove(data).data = data
<1>1. op = [kind |-> "remove", data |-> op.data]
  BY DEF Operation, Check
<1> QED BY <1>1 DEF Remove

\* The posts and the queues change, but not for this file.
LEMMA StillReported ==
  ASSUME NEW force \in BOOLEAN, NEW data, filterSet' = filterSet,
         (\E p \in posts' : p.cached /\ p.force = force /\ p.data = data)
           <=> (\E p \in posts : p.cached /\ p.force = force /\ p.data = data),
         Remove(data) \in Elems(queue'[force]) <=> Remove(data) \in Elems(queue[force])
  PROVE  Stuck(force, data)' <=> Stuck(force, data)
BY DEF Stuck, BeingReported

\* An operation is added that is no removal.
LEMMA RemovalsAppend ==
  ASSUME TypeOK, NEW force \in BOOLEAN, NEW op \in Operation, op.kind # "remove",
         queue' = [queue EXCEPT ![force] = Append(@, op)]
  PROVE  \A f \in BOOLEAN : \A data :
           Remove(data) \in Elems(queue'[f]) <=> Remove(data) \in Elems(queue[f])
<1>1. /\ Elems(queue'[force]) = Elems(queue[force]) \cup {op}
      /\ \A f \in BOOLEAN \ {force} : queue'[f] = queue[f]
  BY QueueAppend
<1>2. \A data : Remove(data) # op
  BY DEF Remove
<1> QED BY <1>1, <1>2

\* An operation is run that is no removal of the file.
LEMMA RemovalsTail ==
  ASSUME TypeOK, NEW force \in BOOLEAN, queue[force] # <<>>,
         queue' = [queue EXCEPT ![force] = Tail(@)]
  PROVE  \A f \in BOOLEAN : \A data : f # force \/ Head(queue[force]) # Remove(data) =>
           (Remove(data) \in Elems(queue'[f]) <=> Remove(data) \in Elems(queue[f]))
<1>1. /\ Elems(queue[force]) = {Head(queue[force])} \cup Elems(queue'[force])
      /\ \A f \in BOOLEAN \ {force} : queue'[f] = queue[f]
  BY QueueTail
<1> QED BY <1>1

\* A flush posts nothing from the files and queues no removal.
LEMMA StuckFlush ==
  ASSUME TypeOK, NEW force \in BOOLEAN, NEW data \in Data,
         NEW records \in Seq(Reports), Flush(records), filterSet' = filterSet
  PROVE  Stuck(force, data)' <=> Stuck(force, data)
<1>1. PICK sent \in Seq(Data), kept \in Seq(Data) : FlushSplits(records, sent, kept)
  BY FlushParts
<1> DEFINE saves == [i \in DOMAIN kept |-> Save(kept[i])]
<1>2. saves \in Seq(Operation) /\ queue[FALSE] \in Seq(Operation)
  BY SavesType DEF TypeOK
<1>3. \A op \in Elems(saves) : op # Remove(data)
  BY DEF Elems, Save, Remove
<1>4. queue' = [queue EXCEPT ![FALSE] = @ \o saves]
  BY <1>1 DEF FlushSplits
<1> HIDE DEF saves
<1>5. Elems(queue'[FALSE]) = Elems(queue[FALSE]) \cup Elems(saves)
  <2>1. queue'[FALSE] = queue[FALSE] \o saves
    BY <1>4 DEF TypeOK
  <2> QED BY <1>2, <2>1, ElemsConcat
<1>6. queue'[TRUE] = queue[TRUE]
  BY <1>4 DEF TypeOK
<1>7. Remove(data) \in Elems(queue'[force]) <=> Remove(data) \in Elems(queue[force])
  BY <1>3, <1>5, <1>6
<1>8. (\E p \in posts' : p.cached /\ p.force = force /\ p.data = data)
        <=> (\E p \in posts : p.cached /\ p.force = force /\ p.data = data)
  BY <1>1 DEF FlushSplits, NewPost
<1> QED BY <1>7, <1>8, StillReported

\* A file whose post fails is stuck: it had no other post and no removal.
LEMMA FailureSticks ==
  ASSUME TypeOK, EachFollowed, NEW force \in BOOLEAN, NEW data \in Data,
         PostFails(force, data)
  PROVE  Stuck(force, data)' /\ ~Kill
<1>1. PICK p \in posts : OnFail(p) /\ p.cached /\ p.force = force /\ p.data = data
  BY DEF PostFails
<1>2. posts' = posts \ {p} /\ queue' = queue /\ filterSet' = filterSet /\ kills' = kills
  BY <1>1 DEF OnFail, AfterFail
<1>3. PICK r \in Reports : r \in data
  BY DEF Data
<1>4. p \in CachedOf(r) /\ Reporting(r)
  BY <1>1, <1>3 DEF CachedOf, EachFollowed, Followed
<1>5. /\ data \in filterSet[force] /\ \A q \in CachedOf(r) : q = p
      /\ RemovesOf(r, force) = {}
  BY <1>1, <1>4 DEF Reporting
<1>6. ~\E q \in posts' : q.cached /\ q.force = force /\ q.data = data
  BY <1>2, <1>3, <1>5 DEF CachedOf
<1>7. Remove(data) \notin Elems(queue[force])
  BY <1>3, <1>5 DEF RemovesOf, Remove
<1>8. ~Kill
  BY <1>2 DEF Kill, TypeOK
<1> QED BY <1>2, <1>5, <1>6, <1>7, <1>8 DEF Stuck, BeingReported

\* A check posts no file of the set, and what it posts it marks.
LEMMA StuckCheck ==
  ASSUME TypeOK, NEW force \in BOOLEAN, NEW data \in Data, NEW f \in BOOLEAN, RunCheck(f)
  PROVE  Stuck(force, data)' <=> Stuck(force, data)
<1>1. queue[f] # <<>> /\ Head(queue[f]).kind = "check" /\ queue' = [queue EXCEPT ![f] = Tail(@)]
  BY DEF RunCheck
<1>2. Remove(data) \in Elems(queue'[force]) <=> Remove(data) \in Elems(queue[force])
  <2>1. Head(queue[f]) # Remove(data)
    BY <1>1 DEF Remove
  <2> QED BY <1>1, <2>1, RemovalsTail
<1>3. CASE UNCHANGED <<filterSet, posts>>
  BY <1>2, <1>3, StillReported
<1>4. CASE \E sent \in SUBSET Unfiltered(f) :
             /\ filterSet' = [filterSet EXCEPT ![f] = @ \cup sent]
             /\ posts' = posts \cup {NewPost(d, f, TRUE) : d \in sent}
  <2>1. PICK sent \in SUBSET Unfiltered(f) :
             /\ filterSet' = [filterSet EXCEPT ![f] = @ \cup sent]
             /\ posts' = posts \cup {NewPost(d, f, TRUE) : d \in sent}
    BY <1>4
  <2>2. \A d : /\ NewPost(d, f, TRUE).data = d /\ NewPost(d, f, TRUE).cached
               /\ NewPost(d, f, TRUE).force = f
    BY DEF NewPost
  <2>3. CASE f = force /\ data \in sent
    <3>1. data \notin filterSet[force]
      BY <2>1, <2>3 DEF Unfiltered
    <3>2. NewPost(data, f, TRUE) \in posts'
      BY <2>1, <2>3
    <3>3. BeingReported(force, data)'
      BY <2>2, <2>3, <3>2 DEF BeingReported
    <3> QED BY <3>1, <3>3 DEF Stuck
  <2>4. CASE ~(f = force /\ data \in sent)
    <3>1. data \in filterSet'[force] <=> data \in filterSet[force]
      BY <2>1, <2>4 DEF TypeOK
    <3>2. (\E p \in posts' : p.cached /\ p.force = force /\ p.data = data)
            <=> (\E p \in posts : p.cached /\ p.force = force /\ p.data = data)
      <4>1. ASSUME NEW p \in posts', p.cached, p.force = force, p.data = data
            PROVE  p \in posts
        <5>1. ASSUME NEW d \in sent, p = NewPost(d, f, TRUE) PROVE FALSE
          BY <2>2, <2>4, <4>1, <5>1
        <5> QED BY <2>1, <5>1
      <4> QED BY <2>1, <4>1
    <3> QED BY <1>2, <3>1, <3>2 DEF Stuck, BeingReported
  <2> QED BY <2>3, <2>4
<1>5. UNCHANGED <<filterSet, posts>>
      \/ \E sent \in SUBSET Unfiltered(f) :
             /\ filterSet' = [filterSet EXCEPT ![f] = @ \cup sent]
             /\ posts' = posts \cup {NewPost(d, f, TRUE) : d \in sent}
  BY DEF RunCheck
<1> QED BY <1>3, <1>4, <1>5

\* A removal takes its own file out of the set.
LEMMA StuckRemove ==
  ASSUME TypeOK, NEW force \in BOOLEAN, NEW data \in Data, NEW f \in BOOLEAN, RunRemove(f)
  PROVE  Stuck(force, data)' <=> Stuck(force, data)
<1>1. /\ queue[f] # <<>> /\ Head(queue[f]).kind = "remove"
      /\ queue' = [queue EXCEPT ![f] = Tail(@)]
      /\ filterSet' = [filterSet EXCEPT ![f] = @ \ {Head(queue[f]).data}]
      /\ posts' = posts
  BY DEF RunRemove
<1>2. /\ Head(queue[f]) \in Operation
      /\ Head(queue[f]) = Remove(data) <=> Head(queue[f]).data = data
  BY <1>1, QueueTail, RemovalsDiffer
<1>3. CASE f = force /\ Head(queue[f]) = Remove(data)
  <2>1. Remove(data) \in Elems(queue[force])
    BY <1>1, <1>3, QueueTail
  <2>2. data \notin filterSet'[force]
    BY <1>1, <1>2, <1>3 DEF TypeOK
  <2> QED BY <2>1, <2>2 DEF Stuck, BeingReported
<1>4. CASE ~(f = force /\ Head(queue[f]) = Remove(data))
  <2>1. Remove(data) \in Elems(queue'[force]) <=> Remove(data) \in Elems(queue[force])
    BY <1>1, <1>4, RemovalsTail
  <2>2. data \in filterSet'[force] <=> data \in filterSet[force]
    BY <1>1, <1>2, <1>4 DEF TypeOK
  <2> QED BY <1>1, <2>1, <2>2 DEF Stuck, BeingReported
<1> QED BY <1>3, <1>4

\* A success queues the removal of its file.
LEMMA StuckSuccess ==
  ASSUME TypeOK, NEW force \in BOOLEAN, NEW data \in Data, NEW p \in posts, OnSuccess(p)
  PROVE  Stuck(force, data)' <=> Stuck(force, data)
<1>1. /\ posts' = posts \ {p} /\ filterSet' = filterSet /\ queue' = AfterSuccess(p)
      /\ p.force \in BOOLEAN /\ p.data \in Data /\ p \in Post
  BY DEF OnSuccess, TypeOK, Post
<1>2. CASE p.cached
  <2>1. /\ queue' = [queue EXCEPT ![p.force] = Append(@, Remove(p.data))]
        /\ Remove(p.data) \in Operation
    BY <1>1, <1>2, NewTypes DEF AfterSuccess
  <2>2. /\ Elems(queue'[p.force]) = Elems(queue[p.force]) \cup {Remove(p.data)}
        /\ \A other \in BOOLEAN \ {p.force} : queue'[other] = queue[other]
    BY <1>1, <2>1, QueueAppend
  <2>3. Remove(p.data) = Remove(data) <=> p.data = data
    BY DEF Remove
  <2>4. CASE p.force = force /\ p.data = data
    <3>1. BeingReported(force, data) /\ BeingReported(force, data)'
      BY <1>2, <2>2, <2>4 DEF BeingReported
    <3> QED BY <3>1 DEF Stuck
  <2>5. CASE ~(p.force = force /\ p.data = data)
    <3>1. Remove(data) \in Elems(queue'[force]) <=> Remove(data) \in Elems(queue[force])
      BY <2>2, <2>3, <2>5
    <3>2. (\E q \in posts' : q.cached /\ q.force = force /\ q.data = data)
            <=> (\E q \in posts : q.cached /\ q.force = force /\ q.data = data)
      BY <1>1, <2>5
    <3> QED BY <1>1, <3>1, <3>2, StillReported
  <2> QED BY <2>4, <2>5
<1>3. CASE ~p.cached
  <2>1. Remove(data) \in Elems(queue'[force]) <=> Remove(data) \in Elems(queue[force])
    <3>1. queue'[force] = queue[force] \/ queue'[force] = Append(queue[force], Check)
      BY <1>1, <1>3 DEF AfterSuccess
    <3>2. queue[force] \in Seq(Operation) /\ Check \in Operation /\ Check # Remove(data)
      BY CheckType DEF TypeOK, Remove
    <3>3. Elems(Append(queue[force], Check)) = Elems(queue[force]) \cup {Check}
      BY <3>2, ElemsAppend
    <3> QED BY <3>1, <3>2, <3>3
  <2>2. (\E q \in posts' : q.cached /\ q.force = force /\ q.data = data)
          <=> (\E q \in posts : q.cached /\ q.force = force /\ q.data = data)
    BY <1>1, <1>3
  <2> QED BY <1>1, <2>1, <2>2, StillReported
<1> QED BY <1>2, <1>3

\* A failure leaves every file but its own where it was.
LEMMA StuckFail ==
  ASSUME TypeOK, NEW force \in BOOLEAN, NEW data \in Data, NEW p \in posts, OnFail(p),
         ~PostFails(force, data)
  PROVE  Stuck(force, data)' <=> Stuck(force, data)
<1>1. /\ posts' = posts \ {p} /\ filterSet' = filterSet /\ queue' = AfterFail(p)
      /\ p.force \in BOOLEAN /\ p.data \in Data /\ p \in Post
  BY DEF OnFail, TypeOK, Post
<1>2. ~(p.cached /\ p.force = force /\ p.data = data)
  BY DEF PostFails
<1>3. (\E q \in posts' : q.cached /\ q.force = force /\ q.data = data)
        <=> (\E q \in posts : q.cached /\ q.force = force /\ q.data = data)
  BY <1>1, <1>2
<1>4. Remove(data) \in Elems(queue'[force]) <=> Remove(data) \in Elems(queue[force])
  <2>1. CASE p.cached
    BY <1>1, <2>1 DEF AfterFail
  <2>2. CASE ~p.cached
    <3>1. /\ queue' = [queue EXCEPT ![p.force] = Append(@, Save(p.data))]
          /\ Save(p.data) \in Operation /\ Save(p.data).kind # "remove"
      BY <1>1, <2>2, NewTypes DEF AfterFail, Save
    <3> QED BY <1>1, <3>1, RemovalsAppend
  <2> QED BY <2>1, <2>2
<1> QED BY <1>1, <1>3, <1>4, StillReported

\* Every other step leaves what is stuck, and adds nothing to it.
LEMMA StuckElsewhere ==
  ASSUME TypeOK, [Next]_vars, ~Kill, NEW force \in BOOLEAN, NEW data \in Data,
         ~PostFails(force, data)
  PROVE  Stuck(force, data)' <=> Stuck(force, data)
<1>1. CASE UNCHANGED <<filterSet, posts, queue>>
  BY <1>1, StillReported
<1>2. ASSUME NEW r \in Reports, ReportData(r) PROVE Stuck(force, data)' <=> Stuck(force, data)
  <2>1. Append(batch, r) \in Seq(Reports)
    BY DEF TypeOK
  <2> QED BY <1>1, <1>2, <2>1, StuckFlush DEF ReportData
<1>3. ASSUME NEW r \in Reports, ForceReportData(r)
      PROVE  Stuck(force, data)' <=> Stuck(force, data)
  <2>1. filterSet' = filterSet
    BY <1>3 DEF ForceReportData
  <2>2. CASE posts' = posts \cup {NewPost({r}, TRUE, FALSE)} /\ queue' = queue
    BY <2>1, <2>2, StillReported DEF NewPost
  <2>3. CASE posts' = posts /\ queue' = [queue EXCEPT ![TRUE] = Append(@, Save({r}))]
    <3>1. Save({r}) \in Operation /\ Save({r}).kind # "remove"
      BY NewTypes DEF Data, Save
    <3>2. Remove(data) \in Elems(queue'[force]) <=> Remove(data) \in Elems(queue[force])
      BY <2>3, <3>1, RemovalsAppend
    <3> QED BY <2>1, <2>3, <3>2, StillReported
  <2> QED BY <1>3, <2>2, <2>3 DEF ForceReportData
<1>4. CASE RunOnMainThread
  BY <1>1, <1>4 DEF RunOnMainThread, disk
<1>5. CASE FlushTimeout
  <2>1. batch \in Seq(Reports)
    BY DEF TypeOK
  <2> QED BY <1>1, <1>5, <2>1, StuckFlush DEF FlushTimeout
<1>6. ASSUME NEW p \in posts, Arrive(p) PROVE Stuck(force, data)' <=> Stuck(force, data)
  <2> DEFINE there == [p EXCEPT !.arrived = TRUE]
  <2>1. /\ p \in Post /\ there.data = p.data /\ there.cached = p.cached
        /\ there.force = p.force
    BY DEF TypeOK, Post
  <2>2. /\ posts' = (posts \ {p}) \cup {there}
        /\ queue' = queue /\ filterSet' = filterSet
    BY <1>6 DEF Arrive, disk
  <2> HIDE DEF there
  <2>3. (\E q \in posts' : q.cached /\ q.force = force /\ q.data = data)
          <=> (\E q \in posts : q.cached /\ q.force = force /\ q.data = data)
    BY <2>1, <2>2
  <2> QED BY <2>2, <2>3, StillReported
<1>7. ASSUME NEW n \in Net, NetChange(n) PROVE Stuck(force, data)' <=> Stuck(force, data)
  BY <1>1, <1>7 DEF NetChange, disk
<1>8. ASSUME NEW f \in BOOLEAN, RunSave(f) PROVE Stuck(force, data)' <=> Stuck(force, data)
  <2>1. /\ queue[f] # <<>> /\ Head(queue[f]).kind = "save"
        /\ queue' = [queue EXCEPT ![f] = Tail(@)]
        /\ posts' = posts /\ filterSet' = filterSet
    BY <1>8 DEF RunSave
  <2>2. Head(queue[f]) # Remove(data)
    BY <2>1 DEF Remove
  <2>3. Remove(data) \in Elems(queue'[force]) <=> Remove(data) \in Elems(queue[force])
    BY <2>1, <2>2, RemovalsTail
  <2> QED BY <2>1, <2>3, StillReported
<1>9. CASE UNCHANGED vars
  BY <1>1, <1>9 DEF vars, disk
<1> QED BY <1>2, <1>3, <1>4, <1>5, <1>6, <1>7, <1>8, <1>9, StuckSuccess, StuckFail,
           StuckCheck, StuckRemove DEF Next

\* The set of files being reported holds a file whose post has failed until the
\* process dies, and no other file that is not being reported: no interleaving of
\* checks, answers and removals leaves one behind without a failure.
THEOREM StuckFilesHaveFailed == Spec => StuckByFailure
<1> DEFINE Claim(force, data) ==
      Stuck(force, data)' <=> ~Kill /\ (Stuck(force, data) \/ PostFails(force, data))
<1>1. ASSUME TypeOK, EachFollowed, [Next]_vars, NEW force \in BOOLEAN, NEW data \in Data
      PROVE  Claim(force, data)
  <2>1. CASE Kill
    <3>1. ~Stuck(force, data)'
      BY <2>1 DEF Kill, Stuck
    <3> QED BY <2>1, <3>1
  <2>2. CASE PostFails(force, data)
    BY <1>1, <2>2, FailureSticks
  <2>3. CASE ~Kill /\ ~PostFails(force, data)
    BY <1>1, <2>3, StuckElsewhere
  <2> QED BY <2>1, <2>2, <2>3
<1>2. TypeOK /\ EachFollowed /\ [Next]_vars
        => [\A force \in BOOLEAN, data \in Data : Claim(force, data)]_vars
  BY <1>1
<1> QED BY <1>2, AlwaysFollowed, PTL DEF Spec, StuckByFailure

\* No post of a cache file fails.
NoFailure == ~\E p \in posts : p.cached /\ OnFail(p)

\* What the comment says is so until a post of a cache file fails.
THEOREM CommentHoldsWithoutFailure ==
  Spec /\ [][NoFailure]_vars => []FilteredIsReporting
<1>1. FilteredIsReporting <=>
        \A force \in BOOLEAN : \A data \in filterSet[force] : BeingReported(force, data)
  BY DEF FilteredIsReporting, BeingReported, Elems
<1>2. Init => FilteredIsReporting
  BY DEF Init, FilteredIsReporting
<1>3. ASSUME TypeOK, TypeOK', FilteredIsReporting, [Next]_vars, [NoFailure]_vars
      PROVE  FilteredIsReporting'
  <2> SUFFICES ASSUME NEW force \in BOOLEAN, NEW data \in filterSet'[force],
                      ~BeingReported(force, data)'
               PROVE  FALSE
    BY DEF FilteredIsReporting, BeingReported, Elems
  <2>1. data \in Data /\ Stuck(force, data)'
    BY <1>3 DEF TypeOK, Stuck
  <2>2. ~Stuck(force, data)
    BY <1>1, <1>3 DEF Stuck
  <2>3. CASE Kill
    BY <2>1, <2>3 DEF Kill, Stuck
  <2>4. CASE ~Kill /\ ~PostFails(force, data)
    BY <1>3, <2>1, <2>2, <2>4, StuckElsewhere
  <2>5. CASE PostFails(force, data)
    <3>1. UNCHANGED vars
      BY <1>3, <2>5 DEF PostFails, NoFailure
    <3>2. posts' # posts
      BY <2>5 DEF PostFails, OnFail
    <3> QED BY <3>1, <3>2 DEF vars
  <2> QED BY <2>3, <2>4, <2>5
<1> QED BY <1>2, <1>3, AlwaysFollowed, TypeCorrect, PTL DEF Spec
=============================================================================
