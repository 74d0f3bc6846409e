------------------------- MODULE KinfocReportProofs -------------------------
(***************************************************************************)
(* KinfocReport: its types, the timer of a batch, and that it implements    *)
(* ReportDelivery, for any number of reports, any limits and any deaths.    *)
(***************************************************************************)
EXTENDS KinfocReport, TLAPS

-----------------------------------------------------------------------------
(* Sequences.                                                              *)

\* What a queue holds after an operation is added at its end.
LEMMA ElemsAppend ==
  ASSUME NEW S, NEW s \in Seq(S), NEW e \in S
  PROVE  Elems(Append(s, e)) = Elems(s) \cup {e}
<1>1. Elems(Append(s, e)) \subseteq Elems(s) \cup {e}
  BY DEF Elems
<1>2. \A i \in DOMAIN s : i \in DOMAIN Append(s, e) /\ Append(s, e)[i] = s[i]
  OBVIOUS
<1>3. Len(s) + 1 \in DOMAIN Append(s, e) /\ Append(s, e)[Len(s) + 1] = e
  OBVIOUS
<1> QED BY <1>1, <1>2, <1>3 DEF Elems

\* What a queue holds before its first operation is taken out.
LEMMA ElemsTail ==
  ASSUME NEW S, NEW s \in Seq(S), s # <<>>
  PROVE  /\ Head(s) \in S /\ Tail(s) \in Seq(S)
         /\ Elems(s) = {Head(s)} \cup Elems(Tail(s))
<1>1. Head(s) \in S /\ Tail(s) \in Seq(S) /\ Len(s) > 0
  OBVIOUS
<1>2. \A i \in DOMAIN s : i = 1 \/ (i - 1 \in DOMAIN Tail(s) /\ Tail(s)[i - 1] = s[i])
  OBVIOUS
<1>3. \A i \in DOMAIN Tail(s) : i + 1 \in DOMAIN s /\ s[i + 1] = Tail(s)[i]
  OBVIOUS
<1>4. 1 \in DOMAIN s /\ s[1] = Head(s)
  OBVIOUS
<1>5. Elems(s) \subseteq {Head(s)} \cup Elems(Tail(s))
  BY <1>2, <1>4 DEF Elems
<1>6. {Head(s)} \cup Elems(Tail(s)) \subseteq Elems(s)
  BY <1>3, <1>4 DEF Elems
<1> QED BY <1>1, <1>5, <1>6

\* What a queue holds after several operations are added.
LEMMA ElemsConcat ==
  ASSUME NEW S, NEW s \in Seq(S), NEW t \in Seq(S)
  PROVE  Elems(s \o t) = Elems(s) \cup Elems(t)
<1>1. Elems(s \o t) \subseteq Elems(s) \cup Elems(t)
  <2> SUFFICES ASSUME NEW i \in DOMAIN (s \o t)
               PROVE  (s \o t)[i] \in Elems(s) \cup Elems(t)
    BY DEF Elems
  <2>1. CASE i <= Len(s)
    <3>1. i \in DOMAIN s /\ (s \o t)[i] = s[i]
      BY <2>1
    <3> QED BY <3>1 DEF Elems
  <2>2. CASE i > Len(s)
    <3>1. i - Len(s) \in DOMAIN t /\ (s \o t)[i] = t[i - Len(s)]
      BY <2>2
    <3> QED BY <3>1 DEF Elems
  <2> QED BY <2>1, <2>2
<1>2. \A i \in DOMAIN s : i \in DOMAIN (s \o t) /\ (s \o t)[i] = s[i]
  OBVIOUS
<1>3. \A i \in DOMAIN t : i + Len(s) \in DOMAIN (s \o t) /\ (s \o t)[i + Len(s)] = t[i]
  OBVIOUS
<1>4. Elems(s) \subseteq Elems(s \o t)
  BY <1>2 DEF Elems
<1>5. Elems(t) \subseteq Elems(s \o t)
  BY <1>3 DEF Elems
<1> QED BY <1>1, <1>4, <1>5

\* Division of natural numbers, as the buffers use it.
LEMMA DivisionRounds ==
  ASSUME NEW m \in Nat, NEW c \in Nat \ {0}
  PROVE  c * (m \div c) <= m
  OBVIOUS
\* A multiple divides without a rest.
LEMMA DivisionExact ==
  ASSUME NEW m \in Nat, NEW c \in Nat \ {0}
  PROVE  (c * m) \div c = m
  OBVIOUS

\* Every record of the array is in one of the buffers, nothing else is, and no
\* buffer is empty.
LEMMA BufferedRecords ==
  ASSUME NEW records \in Seq(Reports)
  PROVE  /\ Buffers(records) \in Seq(Data)
         /\ UNION Elems(Buffers(records)) = Elems(records)
<1> DEFINE n == (Len(records) + Capacity - 1) \div Capacity
           buffer(k) == {records[i] : i \in {j \in DOMAIN records : (j - 1) \div Capacity = k - 1}}
<1>1. Capacity \in Nat \ {0} /\ Len(records) \in Nat
  BY ReportAssumption
<1>2. n \in Nat
  BY <1>1
<1>3. Buffers(records) = [k \in 1..n |-> buffer(k)]
  BY DEF Buffers
<1>4. \A k : buffer(k) \subseteq Elems(records) /\ Elems(records) \subseteq Reports
  BY DEF Elems
<1>a. ASSUME NEW k \in 1..n PROVE buffer(k) # {}
  <2> DEFINE i == Capacity * (k - 1) + 1
  <2>1. Capacity * n <= Len(records) + Capacity - 1
    BY <1>1, DivisionRounds
  <2>2. Capacity * k <= Capacity * n
    BY <1>1, <1>2
  <2>3. i \in DOMAIN records
    BY <1>1, <1>2, <2>1, <2>2
  <2>4. (i - 1) \div Capacity = k - 1
    BY <1>1, <1>2, DivisionExact
  <2> QED BY <2>3, <2>4
<1>5. Buffers(records) \in Seq(Data)
  <2>1. \A k \in 1..n : buffer(k) \in Data
    BY <1>4, <1>a DEF Data
  <2> QED BY <1>2, <1>3, <2>1
<1>6. ASSUME NEW i \in DOMAIN records
      PROVE  (i - 1) \div Capacity + 1 \in 1..n
  <2>1. i \in Int /\ i >= 1 /\ i <= Len(records)
    OBVIOUS
  <2> QED BY <1>1, <2>1
<1>7. Elems(records) \subseteq UNION Elems(Buffers(records))
  <2> SUFFICES ASSUME NEW i \in DOMAIN records
               PROVE  \E k \in 1..n : records[i] \in buffer(k)
    <3>1. \A k \in 1..n : buffer(k) \in Elems(Buffers(records))
      BY <1>3 DEF Elems
    <3>2. \A r \in Elems(records) : \E i \in DOMAIN records : r = records[i]
      BY DEF Elems
    <3> QED BY <3>1, <3>2
  <2>1. (i - 1) \div Capacity \in Int
    BY <1>1
  <2>2. records[i] \in buffer((i - 1) \div Capacity + 1)
    BY <2>1
  <2> QED BY <1>6, <2>2
<1>8. UNION Elems(Buffers(records)) \subseteq Elems(records)
  BY <1>3, <1>4 DEF Elems
<1> QED BY <1>5, <1>7, <1>8

-----------------------------------------------------------------------------
(* Types.                                                                  *)

\* What posts and operations are made of.
LEMMA NewTypes ==
  ASSUME NEW data \in Data, NEW force \in BOOLEAN, NEW cached \in BOOLEAN
  PROVE  /\ NewPost(data, force, cached) \in Post
         /\ Save(data) \in Operation /\ Remove(data) \in Operation
  BY DEF NewPost, Save, Remove, Post, Operation

\* A check belongs to the operations.
LEMMA CheckType == Check \in Operation /\ Check.kind = "check"
  BY DEF Check, Operation

\* What an operation carries.
LEMMA OperationData ==
  ASSUME NEW op \in Operation
  PROVE  op.data \subseteq Reports /\ (op.kind # "check" => op.data \in Data)
  BY DEF Operation, Data, Check

\* Sequences concatenate.
LEMMA ConcatType ==
  ASSUME NEW S, NEW s \in Seq(S), NEW t \in Seq(S)
  PROVE  s \o t \in Seq(S)
  OBVIOUS

\* The operations that save the buffers of a batch.
LEMMA SavesType ==
  ASSUME NEW buffers \in Seq(Data)
  PROVE  [k \in DOMAIN buffers |-> Save(buffers[k])] \in Seq(Operation)
<1>1. \A k \in DOMAIN buffers : Save(buffers[k]) \in Operation
  BY NewTypes, \A k \in DOMAIN buffers : buffers[k] \in Data
<1>2. DOMAIN buffers = 1..Len(buffers) /\ Len(buffers) \in Nat
  OBVIOUS
<1> QED BY <1>1, <1>2

\* A sequence cut in two keeps its elements.
LEMMA ElemsCut ==
  ASSUME NEW S, NEW s \in Seq(S), NEW k \in 0..Len(s)
  PROVE  /\ SubSeq(s, 1, k) \in Seq(S) /\ SubSeq(s, k + 1, Len(s)) \in Seq(S)
         /\ Elems(SubSeq(s, 1, k)) \cup Elems(SubSeq(s, k + 1, Len(s))) = Elems(s)
<1> DEFINE first == SubSeq(s, 1, k)
           rest == SubSeq(s, k + 1, Len(s))
<1>1. first \in Seq(S) /\ rest \in Seq(S)
  OBVIOUS
<1>2. \A i \in DOMAIN first : i \in DOMAIN s /\ s[i] = first[i]
  OBVIOUS
<1>3. \A i \in DOMAIN rest : i + k \in DOMAIN s /\ s[i + k] = rest[i]
  OBVIOUS
<1>4. \A i \in DOMAIN s : (i \in DOMAIN first /\ first[i] = s[i])
                         \/ (i - k \in DOMAIN rest /\ rest[i - k] = s[i])
  <2> SUFFICES ASSUME NEW i \in DOMAIN s
               PROVE  (i \in DOMAIN first /\ first[i] = s[i])
                        \/ (i - k \in DOMAIN rest /\ rest[i - k] = s[i])
    OBVIOUS
  <2>1. CASE i <= k
    BY <2>1
  <2>2. CASE i > k
    BY <2>2
  <2> QED BY <2>1, <2>2
<1> HIDE DEF first, rest
<1>5. Elems(first) \cup Elems(rest) \subseteq Elems(s)
  BY <1>2, <1>3 DEF Elems
<1>6. Elems(s) \subseteq Elems(first) \cup Elems(rest)
  BY <1>4 DEF Elems
<1> QED BY <1>1, <1>5, <1>6 DEF first, rest

\* A flush posts some of its buffers and saves the others.
FlushSplits(records, sent, kept) ==
  /\ Elems(sent) \cup Elems(kept) = Elems(Buffers(records))
  /\ posts' = posts \cup {NewPost(data, FALSE, FALSE) : data \in Elems(sent)}
  /\ queue' = [queue EXCEPT ![FALSE] = @ \o [i \in DOMAIN kept |-> Save(kept[i])]]

\* What a flush does, whatever the network does meanwhile.
LEMMA FlushParts ==
  ASSUME NEW records \in Seq(Reports), Flush(records)
  PROVE  /\ batch' = <<>> /\ net' \in Net
         /\ \E sent \in Seq(Data), kept \in Seq(Data) : FlushSplits(records, sent, kept)
<1> DEFINE buffers == Buffers(records)
           first(k) == SubSeq(buffers, 1, k)
           rest(k) == SubSeq(buffers, k + 1, Len(buffers))
           sent(k, n) == OnWifi(first(k), net) \o OnWifi(rest(k), n)
           kept(k, n) == OffWifi(first(k), net) \o OffWifi(rest(k), n)
<1>1. buffers \in Seq(Data)
  BY BufferedRecords
<1>2. PICK k \in 0..Len(buffers), n \in Net :
        /\ posts' = posts \cup {NewPost(data, FALSE, FALSE) : data \in Elems(sent(k, n))}
        /\ queue' = [queue EXCEPT ![FALSE] =
                       @ \o [i \in DOMAIN kept(k, n) |-> Save(kept(k, n)[i])]]
        /\ net' = n
  BY DEF Flush, PostBatchData
<1> HIDE DEF buffers
<1>3. /\ first(k) \in Seq(Data) /\ rest(k) \in Seq(Data)
      /\ Elems(first(k)) \cup Elems(rest(k)) = Elems(buffers)
  BY <1>1, ElemsCut
<1> HIDE DEF first, rest
<1>4. <<>> \in Seq(Data) /\ Elems(<<>>) = {}
  BY DEF Elems
<1>5. /\ OnWifi(first(k), net) \in Seq(Data) /\ OnWifi(rest(k), n) \in Seq(Data)
      /\ OffWifi(first(k), net) \in Seq(Data) /\ OffWifi(rest(k), n) \in Seq(Data)
  BY <1>3, <1>4 DEF OnWifi, OffWifi
<1>6. /\ Elems(OnWifi(first(k), net)) \cup Elems(OffWifi(first(k), net)) = Elems(first(k))
      /\ Elems(OnWifi(rest(k), n)) \cup Elems(OffWifi(rest(k), n)) = Elems(rest(k))
  BY <1>4 DEF OnWifi, OffWifi
<1>7. /\ Elems(sent(k, n)) = Elems(OnWifi(first(k), net)) \cup Elems(OnWifi(rest(k), n))
      /\ Elems(kept(k, n)) = Elems(OffWifi(first(k), net)) \cup Elems(OffWifi(rest(k), n))
  BY <1>5, ElemsConcat
<1>8. sent(k, n) \in Seq(Data) /\ kept(k, n) \in Seq(Data)
  BY <1>5, ConcatType
<1>9. Elems(sent(k, n)) \cup Elems(kept(k, n)) = Elems(buffers)
  BY <1>3, <1>6, <1>7
<1> HIDE DEF sent, kept
<1>10. FlushSplits(records, sent(k, n), kept(k, n))
  BY <1>2, <1>9 DEF FlushSplits, buffers
<1> QED BY <1>2, <1>8, <1>10 DEF Flush

\* A flush keeps the ranges.
LEMMA FlushTypes ==
  ASSUME TypeOK, NEW records \in Seq(Reports), Flush(records)
  PROVE  /\ batch' \in Seq(Reports) /\ posts' \subseteq Post /\ net' \in Net
         /\ queue' \in [BOOLEAN -> Seq(Operation)]
<1>1. PICK sent \in Seq(Data), kept \in Seq(Data) : FlushSplits(records, sent, kept)
  BY FlushParts
<1>2. batch' \in Seq(Reports) /\ net' \in Net
  <2>1. batch' = <<>> /\ net' \in Net
    BY FlushParts
  <2> QED BY <2>1
<1> DEFINE saves == [i \in DOMAIN kept |-> Save(kept[i])]
<1>3. saves \in Seq(Operation)
  BY SavesType
<1>4. \A data \in Elems(sent) : NewPost(data, FALSE, FALSE) \in Post
  <2>1. \A data \in Elems(sent) : data \in Data
    BY DEF Elems
  <2> QED BY <2>1, NewTypes
<1>5. posts' \subseteq Post
  BY <1>1, <1>4 DEF FlushSplits, TypeOK
<1>6. queue' = [queue EXCEPT ![FALSE] = @ \o saves] /\ queue[FALSE] \in Seq(Operation)
  BY <1>1 DEF FlushSplits, TypeOK
<1> HIDE DEF saves
<1>7. queue[FALSE] \o saves \in Seq(Operation)
  BY <1>3, <1>6, ConcatType
<1>8. queue' \in [BOOLEAN -> Seq(Operation)]
  BY <1>6, <1>7 DEF TypeOK
<1> QED BY <1>2, <1>5, <1>8

\* An operation added to a folder's queue, and the first one taken off.
LEMMA QueueTypes ==
  ASSUME TypeOK, NEW force \in BOOLEAN
  PROVE  /\ \A op \in Operation :
              [queue EXCEPT ![force] = Append(@, op)] \in [BOOLEAN -> Seq(Operation)]
         /\ queue[force] # <<>> =>
              /\ Head(queue[force]) \in Operation
              /\ [queue EXCEPT ![force] = Tail(@)] \in [BOOLEAN -> Seq(Operation)]
  BY DEF TypeOK

\* The empty array and the empty queue.
LEMMA EmptyTypes == <<>> \in Seq(Operation) /\ <<>> \in Seq(Reports)
  OBVIOUS

\* The ranges hold at the start.
LEMMA InitType == Init => TypeOK
<1> SUFFICES ASSUME Init PROVE TypeOK
  OBVIOUS
<1>1. queue \in [BOOLEAN -> Seq(Operation)] /\ batch \in Seq(Reports)
  BY EmptyTypes DEF Init
<1> QED BY <1>1 DEF Init, TypeOK

\* Only reports are held.
LEMMA HeldType == TypeOK => Held \subseteq Reports
<1> SUFFICES ASSUME TypeOK PROVE Held \subseteq Reports
  OBVIOUS
<1>1. Batched \subseteq Reports
  BY DEF TypeOK, Batched, Elems
<1>2. OnDisk \subseteq Reports
  BY DEF TypeOK, Data, OnDisk
<1>3. Saving \subseteq Reports /\ InFlight(FALSE) \subseteq Reports /\ InFlight(TRUE) \subseteq Reports
  BY DEF Saving, SavedBy, InFlight
<1> QED BY <1>1, <1>2, <1>3 DEF Held, Volatile

\* Every step keeps every variable in its range.
LEMMA NextType == TypeOK /\ [Next]_vars => TypeOK'
<1> SUFFICES ASSUME TypeOK, [Next]_vars PROVE TypeOK'
  OBVIOUS
<1> USE DEF memory, disk, history
<1>1. ASSUME NEW r \in Reports, ReportData(r) PROVE TypeOK'
  <2>1. Append(batch, r) \in Seq(Reports)
    BY DEF TypeOK
  <2>2. CASE Len(batch) + 1 >= BatchLimit
    <3>1. Flush(Append(batch, r)) /\ arming' = arming
      BY <1>1, <2>2 DEF ReportData
    <3>2. /\ batch' \in Seq(Reports) /\ posts' \subseteq Post /\ net' \in Net
          /\ queue' \in [BOOLEAN -> Seq(Operation)]
      BY <2>1, <3>1, FlushTypes
    <3> QED BY <1>1, <3>1, <3>2 DEF TypeOK, ReportData
  <2>3. CASE ~(Len(batch) + 1 >= BatchLimit)
    BY <1>1, <2>1, <2>3 DEF TypeOK, ReportData
  <2> QED BY <2>2, <2>3
<1>2. ASSUME NEW r \in Reports, ForceReportData(r) PROVE TypeOK'
  <2>1. {r} \in Data
    BY DEF Data
  <2>2. NewPost({r}, TRUE, FALSE) \in Post /\ Save({r}) \in Operation
    BY <2>1, NewTypes
  <2>3. posts' \subseteq Post /\ queue' \in [BOOLEAN -> Seq(Operation)]
    BY <1>2, <2>2, QueueTypes DEF ForceReportData, TypeOK
  <2> QED BY <1>2, <2>3 DEF TypeOK, ForceReportData
<1>3. CASE RunOnMainThread
  BY <1>3 DEF TypeOK, RunOnMainThread
<1>4. CASE FlushTimeout
  <2>1. CASE batch # <<>>
    <3>1. /\ batch' \in Seq(Reports) /\ posts' \subseteq Post /\ net' \in Net
          /\ queue' \in [BOOLEAN -> Seq(Operation)]
      BY <1>4, <2>1, FlushTypes DEF FlushTimeout, TypeOK
    <3> QED BY <1>4, <3>1 DEF TypeOK, FlushTimeout
  <2>2. CASE batch = <<>>
    BY <1>4, <2>2 DEF TypeOK, FlushTimeout
  <2> QED BY <2>1, <2>2
<1>5. ASSUME NEW p \in posts, Arrive(p) PROVE TypeOK'
  <2>1. p \in Post /\ p.data \subseteq Reports
    BY DEF TypeOK, Post, Data
  <2>2. [p EXCEPT !.arrived = TRUE] \in Post
    BY <2>1 DEF Post
  <2> QED BY <1>5, <2>1, <2>2 DEF TypeOK, Arrive
<1>6. ASSUME NEW p \in posts, OnSuccess(p) PROVE TypeOK'
  <2>1. p \in Post /\ p.data \in Data /\ p.force \in BOOLEAN /\ p.cached \in BOOLEAN
    BY DEF TypeOK, Post
  <2>2. Remove(p.data) \in Operation /\ Check \in Operation
    BY <2>1, NewTypes, CheckType
  <2>3. AfterSuccess(p) \in [BOOLEAN -> Seq(Operation)]
    <3>1. CASE p.cached
      BY <2>1, <2>2, <3>1, QueueTypes DEF AfterSuccess
    <3>2. CASE ~p.cached
      <4>1. \A force \in BOOLEAN : /\ queue[force] \in Seq(Operation)
                                   /\ Append(queue[force], Check) \in Seq(Operation)
        BY <2>2 DEF TypeOK
      <4> QED BY <3>2, <4>1 DEF AfterSuccess
    <3> QED BY <3>1, <3>2
  <2> QED BY <1>6, <2>3 DEF TypeOK, OnSuccess
<1>7. ASSUME NEW p \in posts, OnFail(p) PROVE TypeOK'
  <2>1. p \in Post /\ p.data \in Data /\ p.force \in BOOLEAN /\ p.data \subseteq Reports
    BY DEF TypeOK, Post, Data
  <2>2. AfterFail(p) \in [BOOLEAN -> Seq(Operation)]
    BY <2>1, NewTypes, QueueTypes DEF AfterFail, TypeOK
  <2> QED BY <1>7, <2>1, <2>2 DEF TypeOK, OnFail
<1>8. ASSUME NEW n \in Net, NetChange(n) PROVE TypeOK'
  BY <1>8 DEF TypeOK, NetChange
<1>9. ASSUME NEW force \in BOOLEAN, RunSave(force) PROVE TypeOK'
  <2>1. /\ Head(queue[force]) \in Operation
        /\ queue' \in [BOOLEAN -> Seq(Operation)]
    BY <1>9, QueueTypes DEF RunSave
  <2>2. Head(queue[force]).data \in Data /\ Head(queue[force]).data \subseteq Reports
    BY <1>9, <2>1, OperationData DEF RunSave
  <2> QED BY <1>9, <2>1, <2>2 DEF TypeOK, RunSave
<1>10. ASSUME NEW force \in BOOLEAN, RunCheck(force) PROVE TypeOK'
  <2>1. queue' \in [BOOLEAN -> Seq(Operation)]
    BY <1>10, QueueTypes DEF RunCheck
  <2>2. CASE ~CanReport(force, net)
    BY <1>10, <2>1, <2>2 DEF TypeOK, RunCheck
  <2>3. CASE CanReport(force, net)
    <3>1. PICK old \in SUBSET files[force], sent \in SUBSET files[force], n \in Net :
            /\ net' = n
            /\ files' = [files EXCEPT ![force] = @ \ old]
            /\ filterSet' = [filterSet EXCEPT ![force] = @ \cup sent]
            /\ posts' = posts \cup {NewPost(data, force, TRUE) : data \in sent}
            /\ abandoned' = abandoned \cup UNION old
      BY <1>10, <2>3 DEF RunCheck, Unfiltered
    <3>2. files[force] \subseteq Data /\ sent \subseteq Data /\ UNION old \subseteq Reports
      BY DEF TypeOK, Data
    <3>3. posts' \subseteq Post
      BY <3>1, <3>2, NewTypes DEF TypeOK
    <3>4. /\ files' \in [BOOLEAN -> SUBSET Data]
          /\ filterSet' \in [BOOLEAN -> SUBSET Data]
      BY <3>1, <3>2 DEF TypeOK
    <3> QED BY <1>10, <2>1, <3>1, <3>2, <3>3, <3>4 DEF TypeOK, RunCheck
  <2> QED BY <2>2, <2>3
<1>11. ASSUME NEW force \in BOOLEAN, RunRemove(force) PROVE TypeOK'
  <2>1. queue' \in [BOOLEAN -> Seq(Operation)]
    BY <1>11, QueueTypes DEF RunRemove
  <2> QED BY <1>11, <2>1 DEF TypeOK, RunRemove
<1>12. CASE Kill
  <2>1. Held \subseteq Reports
    BY HeldType
  <2>2. queue' \in [BOOLEAN -> Seq(Operation)] /\ batch' \in Seq(Reports)
    BY <1>12, EmptyTypes DEF Kill
  <2>3. filterSet' \in [BOOLEAN -> SUBSET Data]
    BY <1>12 DEF Kill
  <2>4. /\ arming' \in BOOLEAN /\ armed' \in BOOLEAN /\ posts' \subseteq Post
        /\ files' \in [BOOLEAN -> SUBSET Data] /\ net' \in Net /\ kills' \in Nat
    <3>1. arming' \in BOOLEAN /\ armed' \in BOOLEAN /\ posts' \subseteq Post
      BY <1>12, Zenon DEF Kill
    <3>2. files' = files /\ net' = net /\ kills' = kills + 1
      BY <1>12 DEF Kill
    <3> QED BY <3>1, <3>2 DEF TypeOK
  <2>5. /\ accepted' \subseteq Reports /\ received' \subseteq Reports
        /\ abandoned' \subseteq Reports
        /\ doubted' \subseteq Reports /\ doubled' \subseteq Reports
    BY <1>12, <2>1 DEF TypeOK, Kill
  <2> QED BY <2>2, <2>3, <2>4, <2>5 DEF TypeOK
<1>13. CASE UNCHANGED vars
  BY <1>13 DEF TypeOK, vars
<1> QED BY <1>1, <1>2, <1>3, <1>4, <1>5, <1>6, <1>7, <1>8, <1>9, <1>10, <1>11, <1>12,
           <1>13 DEF Next

\* Type correctness.
THEOREM TypeCorrect == Spec => []TypeOK
<1> QED BY InitType, NextType, PTL DEF Spec

-----------------------------------------------------------------------------
(* The timer of a batch.                                                    *)

\* A flush empties the array.
LEMMA FlushEmpties == ASSUME NEW records, Flush(records) PROVE batch' = <<>>
  BY DEF Flush

\* No step leaves records without a call that flushes them.
LEMMA NextBatchTimed == BatchTimed /\ [Next]_vars => BatchTimed'
<1> SUFFICES ASSUME BatchTimed, [Next]_vars PROVE BatchTimed'
  OBVIOUS
<1> USE DEF BatchTimed, memory
<1>1. ASSUME NEW r \in Reports, ReportData(r) PROVE BatchTimed'
  BY <1>1, FlushEmpties DEF ReportData
<1>2. ASSUME NEW r \in Reports, ForceReportData(r) PROVE BatchTimed'
  BY <1>2 DEF ForceReportData
<1>3. CASE RunOnMainThread
  BY <1>3 DEF RunOnMainThread
<1>4. CASE FlushTimeout
  BY <1>4, FlushEmpties DEF FlushTimeout
<1>5. ASSUME NEW p \in posts, Arrive(p) \/ OnSuccess(p) \/ OnFail(p) PROVE BatchTimed'
  BY <1>5 DEF Arrive, OnSuccess, OnFail
<1>6. ASSUME NEW n \in Net, NetChange(n) PROVE BatchTimed'
  BY <1>6 DEF NetChange
<1>7. ASSUME NEW force \in BOOLEAN, RunSave(force) \/ RunCheck(force) \/ RunRemove(force)
      PROVE  BatchTimed'
  BY <1>7 DEF RunSave, RunCheck, RunRemove
<1>8. CASE Kill
  BY <1>8 DEF Kill
<1>9. CASE UNCHANGED vars
  BY <1>9 DEF vars
<1> QED BY <1>1, <1>2, <1>3, <1>4, <1>5, <1>6, <1>7, <1>8, <1>9 DEF Next

\* A report in the array always has a call on its way that flushes it.
THEOREM BatchIsTimed == Spec => []BatchTimed
<1>1. Init => BatchTimed
  BY DEF Init, BatchTimed
<1> QED BY <1>1, NextBatchTimed, PTL DEF Spec

-----------------------------------------------------------------------------
(* Why a copy may be let go: the three facts the refinement rests on.       *)

\* An answer comes only for a request the server has.
ArrivedReceived == \A p \in posts : p.arrived => p.data \subseteq received

\* A removal is queued only for a file the server has.
RemovedReceived ==
  \A force \in BOOLEAN : \A op \in Elems(queue[force]) :
    op.kind = "remove" => op.data \subseteq received

\* A cache file outlives its posts, unless its reports need it no longer.
CachedBacked ==
  \A p \in posts : p.cached =>
    p.data \in files[p.force] \/ p.data \subseteq received \cup abandoned

Backed == TypeOK /\ ArrivedReceived /\ RemovedReceived /\ CachedBacked

\* The posts and the operations a flush adds: nothing cached, no removal.
LEMMA FlushAdds ==
  ASSUME TypeOK, NEW records \in Seq(Reports), Flush(records)
  PROVE  /\ \A p \in posts' : p \in posts \/ (~p.arrived /\ ~p.cached)
         /\ \A force \in BOOLEAN : \A op \in Elems(queue'[force]) :
              op \in Elems(queue[force]) \/ op.kind = "save"
<1>1. PICK sent \in Seq(Data), kept \in Seq(Data) : FlushSplits(records, sent, kept)
  BY FlushParts
<1> DEFINE saves == [i \in DOMAIN kept |-> Save(kept[i])]
<1>2. saves \in Seq(Operation) /\ queue[FALSE] \in Seq(Operation)
  BY SavesType DEF TypeOK
<1>3. \A op \in Elems(saves) : op.kind = "save"
  BY DEF Elems, Save
<1>4. queue' = [queue EXCEPT ![FALSE] = @ \o saves]
  BY <1>1 DEF FlushSplits
<1> HIDE DEF saves
<1>5. Elems(queue'[FALSE]) = Elems(queue[FALSE]) \cup Elems(saves)
  <2>1. queue'[FALSE] = queue[FALSE] \o saves
    BY <1>4 DEF TypeOK
  <2> QED BY <1>2, <2>1, ElemsConcat
<1>6. queue'[TRUE] = queue[TRUE]
  BY <1>4 DEF TypeOK
<1>7. \A p \in posts' : p \in posts \/ (~p.arrived /\ ~p.cached)
  BY <1>1 DEF FlushSplits, NewPost
<1> QED BY <1>3, <1>5, <1>6, <1>7

\* What a folder's queue holds when an operation is added or taken off.
LEMMA QueueAppend ==
  ASSUME TypeOK, NEW force \in BOOLEAN, NEW op \in Operation,
         queue' = [queue EXCEPT ![force] = Append(@, op)]
  PROVE  /\ Elems(queue'[force]) = Elems(queue[force]) \cup {op}
         /\ \A other \in BOOLEAN \ {force} : queue'[other] = queue[other]
         /\ \A any \in BOOLEAN : \A o \in Elems(queue'[any]) :
              o \in Elems(queue[any]) \/ o = op
<1>1. Elems(queue'[force]) = Elems(queue[force]) \cup {op}
  BY ElemsAppend DEF TypeOK
<1>2. \A other \in BOOLEAN \ {force} : queue'[other] = queue[other]
  BY DEF TypeOK
<1> QED BY <1>1, <1>2

\* What it holds when its first operation is taken off.
LEMMA QueueTail ==
  ASSUME TypeOK, NEW force \in BOOLEAN, queue[force] # <<>>,
         queue' = [queue EXCEPT ![force] = Tail(@)]
  PROVE  /\ Elems(queue[force]) = {Head(queue[force])} \cup Elems(queue'[force])
         /\ \A other \in BOOLEAN \ {force} : queue'[other] = queue[other]
         /\ Head(queue[force]) \in Operation
<1>1. queue[force] \in Seq(Operation) /\ queue'[force] = Tail(queue[force])
  BY DEF TypeOK
<1>2. \A other \in BOOLEAN \ {force} : queue'[other] = queue[other]
  BY DEF TypeOK
<1> QED BY <1>1, <1>2, ElemsTail

\* What the server has, and what was given up, stays so.
LEMMA ReceivedGrows ==
  [Next]_vars => received \subseteq received' /\ abandoned \subseteq abandoned'
  BY DEF Next, vars, memory, disk, history, ReportData, ForceReportData, RunOnMainThread,
         FlushTimeout, Arrive, OnSuccess, OnFail, NetChange, RunSave, RunCheck, RunRemove,
         Kill

\* The first of the three facts is kept by every step.
LEMMA NextArrived == TypeOK /\ ArrivedReceived /\ [Next]_vars => ArrivedReceived'
<1> SUFFICES ASSUME TypeOK, ArrivedReceived, [Next]_vars PROVE ArrivedReceived'
  OBVIOUS
<1>0. received \subseteq received'
  BY ReceivedGrows
\* Enough that every arrived post was one already, or has just arrived.
<1>a. ASSUME \A p \in posts' : p.arrived => p \in posts \/ p.data \subseteq received'
      PROVE  ArrivedReceived'
  BY <1>0, <1>a DEF ArrivedReceived
<1> USE DEF memory, disk, history
<1>1. ASSUME NEW r \in Reports, ReportData(r) PROVE ArrivedReceived'
  <2>1. Append(batch, r) \in Seq(Reports)
    BY DEF TypeOK
  <2>2. posts' = posts \/ Flush(Append(batch, r))
    BY <1>1 DEF ReportData
  <2> QED BY <1>a, <2>1, <2>2, FlushAdds
<1>2. ASSUME NEW r \in Reports, ForceReportData(r) PROVE ArrivedReceived'
  <2>1. posts' = posts \/ posts' = posts \cup {NewPost({r}, TRUE, FALSE)}
    BY <1>2 DEF ForceReportData
  <2>2. ~NewPost({r}, TRUE, FALSE).arrived
    BY DEF NewPost
  <2> QED BY <1>a, <2>1, <2>2
<1>3. CASE FlushTimeout
  <2>1. posts' = posts \/ Flush(batch)
    BY <1>3 DEF FlushTimeout
  <2> QED BY <1>a, <2>1, FlushAdds DEF TypeOK
<1>4. ASSUME NEW p \in posts, Arrive(p) PROVE ArrivedReceived'
  <2>1. p \in Post
    BY DEF TypeOK
  <2>2. [p EXCEPT !.arrived = TRUE].data = p.data
    BY <2>1 DEF Post
  <2> QED BY <1>4, <1>a, <2>2 DEF Arrive
<1>5. ASSUME NEW p \in posts, OnSuccess(p) \/ OnFail(p) PROVE ArrivedReceived'
  BY <1>5, <1>a DEF OnSuccess, OnFail
<1>6. ASSUME NEW force \in BOOLEAN, RunCheck(force) PROVE ArrivedReceived'
  <2>1. \A p \in posts' : p \in posts \/ ~p.arrived
    BY <1>6 DEF RunCheck, NewPost
  <2> QED BY <1>a, <2>1
<1>7. CASE Kill
  BY <1>7, <1>a DEF Kill
<1>8. ASSUME posts' = posts PROVE ArrivedReceived'
  BY <1>8, <1>a
<1>9. \/ posts' = posts \/ Kill \/ FlushTimeout
      \/ \E r \in Reports : ReportData(r) \/ ForceReportData(r)
      \/ \E p \in posts : Arrive(p) \/ OnSuccess(p) \/ OnFail(p)
      \/ \E force \in BOOLEAN : RunCheck(force)
  BY DEF Next, vars, RunOnMainThread, NetChange, RunSave, RunRemove
<1> QED BY <1>1, <1>2, <1>3, <1>4, <1>5, <1>6, <1>7, <1>8, <1>9

\* The second one.
LEMMA NextRemoved ==
  TypeOK /\ ArrivedReceived /\ RemovedReceived /\ [Next]_vars => RemovedReceived'
<1> SUFFICES ASSUME TypeOK, ArrivedReceived, RemovedReceived, [Next]_vars
             PROVE  RemovedReceived'
  OBVIOUS
<1>0. received \subseteq received'
  BY ReceivedGrows
\* Enough that every removal was queued already, or is of something received.
<1>a. ASSUME \A force \in BOOLEAN : \A op \in Elems(queue'[force]) :
               op.kind = "remove" => op \in Elems(queue[force]) \/ op.data \subseteq received
      PROVE  RemovedReceived'
  BY <1>0, <1>a DEF RemovedReceived
<1> USE DEF memory, disk, history
<1>1. ASSUME NEW r \in Reports, ReportData(r) PROVE RemovedReceived'
  <2>1. Append(batch, r) \in Seq(Reports)
    BY DEF TypeOK
  <2>2. queue' = queue \/ Flush(Append(batch, r))
    BY <1>1 DEF ReportData
  <2> QED BY <1>a, <2>1, <2>2, FlushAdds
<1>2. ASSUME NEW r \in Reports, ForceReportData(r) PROVE RemovedReceived'
  <2>1. CASE queue' = queue
    BY <1>a, <2>1
  <2>2. CASE queue' = [queue EXCEPT ![TRUE] = Append(@, Save({r}))]
    <3>1. Save({r}) \in Operation /\ Save({r}).kind = "save"
      BY NewTypes DEF Data, Save
    <3> QED BY <1>a, <2>2, <3>1, QueueAppend
  <2> QED BY <1>2, <2>1, <2>2 DEF ForceReportData
<1>3. CASE FlushTimeout
  <2>1. queue' = queue \/ Flush(batch)
    BY <1>3 DEF FlushTimeout
  <2> QED BY <1>a, <2>1, FlushAdds DEF TypeOK
<1>4. ASSUME NEW p \in posts, OnSuccess(p) PROVE RemovedReceived'
  <2>1. p \in Post /\ p.data \in Data /\ p.force \in BOOLEAN /\ p.data \subseteq received
    BY <1>4 DEF TypeOK, Post, OnSuccess, ArrivedReceived
  <2>2. CASE p.cached
    <3>1. /\ Remove(p.data) \in Operation /\ Remove(p.data).data = p.data
          /\ queue' = [queue EXCEPT ![p.force] = Append(@, Remove(p.data))]
      BY <1>4, <2>1, <2>2, NewTypes DEF OnSuccess, AfterSuccess, Remove
    <3>2. \A any \in BOOLEAN : \A o \in Elems(queue'[any]) :
            o \in Elems(queue[any]) \/ o = Remove(p.data)
      BY <2>1, <3>1, QueueAppend
    <3> QED BY <1>a, <2>1, <3>1, <3>2
  <2>3. CASE ~p.cached
    <3>1. Check \in Operation /\ Check.kind = "check"
      BY CheckType
    <3>2. \A force \in BOOLEAN : queue[force] \in Seq(Operation)
      BY DEF TypeOK
    <3>3. \A force \in BOOLEAN : queue'[force] \in {queue[force], Append(queue[force], Check)}
      BY <1>4, <2>3 DEF OnSuccess, AfterSuccess
    <3>4. \A force \in BOOLEAN :
            Elems(Append(queue[force], Check)) = Elems(queue[force]) \cup {Check}
      BY <3>1, <3>2, ElemsAppend
    <3>5. \A force \in BOOLEAN : \A o \in Elems(queue'[force]) :
            o \in Elems(queue[force]) \/ o = Check
      <4> TAKE force \in BOOLEAN
      <4>1. CASE queue'[force] = queue[force]
        BY <4>1
      <4>2. CASE queue'[force] = Append(queue[force], Check)
        BY <4>2, <3>4
      <4> QED BY <3>3, <4>1, <4>2
    <3> QED BY <1>a, <3>1, <3>5
  <2> QED BY <2>2, <2>3
<1>5. ASSUME NEW p \in posts, OnFail(p) PROVE RemovedReceived'
  <2>1. p \in Post /\ p.data \in Data /\ p.force \in BOOLEAN
    BY DEF TypeOK, Post
  <2>2. CASE queue' = queue
    BY <1>a, <2>2
  <2>3. CASE queue' = [queue EXCEPT ![p.force] = Append(@, Save(p.data))]
    <3>1. Save(p.data) \in Operation /\ Save(p.data).kind = "save"
      BY <2>1, NewTypes DEF Save
    <3>2. \A any \in BOOLEAN : \A o \in Elems(queue'[any]) :
            o \in Elems(queue[any]) \/ o = Save(p.data)
      BY <2>1, <2>3, <3>1, QueueAppend
    <3> QED BY <1>a, <3>1, <3>2
  <2> QED BY <1>5, <2>2, <2>3 DEF OnFail, AfterFail
<1>6. ASSUME NEW force \in BOOLEAN, RunSave(force) \/ RunCheck(force) \/ RunRemove(force)
      PROVE  RemovedReceived'
  <2>1. queue[force] # <<>> /\ queue' = [queue EXCEPT ![force] = Tail(@)]
    BY <1>6 DEF RunSave, RunCheck, RunRemove
  <2> QED BY <1>a, <2>1, QueueTail
<1>7. CASE Kill
  <2>1. \A force \in BOOLEAN : Elems(queue'[force]) = {}
    BY <1>7 DEF Kill, Elems
  <2> QED BY <1>a, <2>1
<1>8. ASSUME queue' = queue PROVE RemovedReceived'
  BY <1>8, <1>a
<1>9. \/ queue' = queue \/ Kill \/ FlushTimeout
      \/ \E r \in Reports : ReportData(r) \/ ForceReportData(r)
      \/ \E p \in posts : OnSuccess(p) \/ OnFail(p)
      \/ \E force \in BOOLEAN : RunSave(force) \/ RunCheck(force) \/ RunRemove(force)
  BY DEF Next, vars, RunOnMainThread, NetChange, Arrive
<1> QED BY <1>1, <1>2, <1>3, <1>4, <1>5, <1>6, <1>7, <1>8, <1>9

\* The third one, which needs the other two.
LEMMA NextCached ==
  TypeOK /\ RemovedReceived /\ CachedBacked /\ [Next]_vars => CachedBacked'
<1> SUFFICES ASSUME TypeOK, RemovedReceived, CachedBacked, [Next]_vars
             PROVE  CachedBacked'
  OBVIOUS
<1>0. received \subseteq received' /\ abandoned \subseteq abandoned'
  BY ReceivedGrows
\* Enough that the cached posts are backed before, and that files are lost only
\* when they are not needed.
<1>a. ASSUME \A p \in posts' : p.cached =>
               /\ p.force \in BOOLEAN
               /\ p.data \in files[p.force] \/ p.data \subseteq received \cup abandoned,
             \A force \in BOOLEAN : \A data \in files[force] :
               data \in files'[force] \/ data \subseteq received' \cup abandoned'
      PROVE  CachedBacked'
  BY <1>0, <1>a DEF CachedBacked
<1>b. \A p \in posts : p.cached =>
        /\ p.force \in BOOLEAN
        /\ p.data \in files[p.force] \/ p.data \subseteq received \cup abandoned
  BY DEF CachedBacked, TypeOK, Post
<1>c. ASSUME \A p \in posts' : p \in posts \/ ~p.cached, files' = files
      PROVE  CachedBacked'
  BY <1>a, <1>b, <1>c
<1> USE DEF memory, disk, history
<1>1. ASSUME NEW r \in Reports, ReportData(r) PROVE CachedBacked'
  <2>1. Append(batch, r) \in Seq(Reports)
    BY DEF TypeOK
  <2>2. files' = files /\ (posts' = posts \/ Flush(Append(batch, r)))
    BY <1>1 DEF ReportData
  <2> QED BY <1>c, <2>1, <2>2, FlushAdds
<1>2. ASSUME NEW r \in Reports, ForceReportData(r) PROVE CachedBacked'
  <2>1. /\ posts' = posts \/ posts' = posts \cup {NewPost({r}, TRUE, FALSE)}
        /\ files' = files
    BY <1>2 DEF ForceReportData
  <2>2. ~NewPost({r}, TRUE, FALSE).cached
    BY DEF NewPost
  <2> QED BY <1>c, <2>1, <2>2
<1>3. CASE FlushTimeout
  <2>1. files' = files /\ (posts' = posts \/ Flush(batch))
    BY <1>3 DEF FlushTimeout
  <2> QED BY <1>c, <2>1, FlushAdds DEF TypeOK
<1>4. ASSUME NEW p \in posts, Arrive(p) PROVE CachedBacked'
  <2> DEFINE there == [p EXCEPT !.arrived = TRUE]
  <2>1. p \in Post
    BY DEF TypeOK
  <2>2. there.data = p.data /\ there.force = p.force /\ there.cached = p.cached
    BY <2>1 DEF Post
  <2>3. posts' = (posts \ {p}) \cup {there} /\ files' = files
    BY <1>4 DEF Arrive
  <2> HIDE DEF there
  <2> QED BY <1>a, <1>b, <2>2, <2>3
<1>5. ASSUME NEW p \in posts, OnSuccess(p) \/ OnFail(p) PROVE CachedBacked'
  BY <1>5, <1>c DEF OnSuccess, OnFail
<1>6. ASSUME NEW force \in BOOLEAN, RunCheck(force) PROVE CachedBacked'
  <2>1. CASE posts' = posts /\ files' = files
    BY <1>c, <2>1
  <2>2. CASE \E old, sent \in SUBSET files[force] :
               /\ files' = [files EXCEPT ![force] = @ \ old]
               /\ posts' = posts \cup {NewPost(data, force, TRUE) : data \in sent}
               /\ abandoned' = abandoned \cup UNION old
    <3>1. PICK old \in SUBSET files[force], sent \in SUBSET files[force] :
            /\ files' = [files EXCEPT ![force] = @ \ old]
            /\ posts' = posts \cup {NewPost(data, force, TRUE) : data \in sent}
            /\ abandoned' = abandoned \cup UNION old
      BY <2>2
    <3>2. \A data : NewPost(data, force, TRUE).data = data
                    /\ NewPost(data, force, TRUE).force = force
      BY DEF NewPost
    <3>3. \A p \in posts' : p \in posts \/ (p.force = force /\ p.data \in files[force])
      BY <3>1, <3>2
    <3>4. \A any \in BOOLEAN : \A data \in files[any] :
            data \in files'[any] \/ data \subseteq abandoned'
      <4>1. \A data \in old : data \subseteq UNION old
        OBVIOUS
      <4> QED BY <3>1, <4>1 DEF TypeOK
    <3> QED BY <1>a, <1>b, <3>3, <3>4
  <2> QED BY <1>6, <2>1, <2>2 DEF RunCheck, Unfiltered
<1>7. ASSUME NEW force \in BOOLEAN, RunSave(force) PROVE CachedBacked'
  <2>1. posts' = posts /\ \A any \in BOOLEAN : files[any] \subseteq files'[any]
    BY <1>7 DEF RunSave, TypeOK
  <2> QED BY <1>a, <1>b, <2>1
<1>8. ASSUME NEW force \in BOOLEAN, RunRemove(force) PROVE CachedBacked'
  <2>1. /\ posts' = posts /\ received' = received
        /\ files' = [files EXCEPT ![force] = @ \ {Head(queue[force]).data}]
        /\ queue[force] # <<>> /\ queue' = [queue EXCEPT ![force] = Tail(@)]
        /\ Head(queue[force]).kind = "remove"
    BY <1>8 DEF RunRemove
  <2>2. Head(queue[force]) \in Elems(queue[force])
    BY <2>1, QueueTail
  <2>3. Head(queue[force]).data \subseteq received
    BY <2>1, <2>2 DEF RemovedReceived
  <2>4. \A any \in BOOLEAN : \A data \in files[any] :
          data \in files'[any] \/ data \subseteq received'
    BY <2>1, <2>3 DEF TypeOK
  <2> QED BY <1>a, <1>b, <2>1, <2>4
<1>9. CASE Kill
  BY <1>9, <1>c DEF Kill
<1>10. ASSUME posts' = posts, files' = files PROVE CachedBacked'
  BY <1>10, <1>c
<1>11. \/ posts' = posts /\ files' = files
       \/ Kill \/ FlushTimeout
       \/ \E r \in Reports : ReportData(r) \/ ForceReportData(r)
       \/ \E p \in posts : Arrive(p) \/ OnSuccess(p) \/ OnFail(p)
       \/ \E force \in BOOLEAN : RunSave(force) \/ RunCheck(force) \/ RunRemove(force)
  BY DEF Next, vars, RunOnMainThread, NetChange
<1> QED BY <1>1, <1>2, <1>3, <1>4, <1>5, <1>6, <1>7, <1>8, <1>9, <1>10, <1>11

\* They always hold.
LEMMA AlwaysBacked == Spec => []Backed
<1>1. Init => Backed
  <2> SUFFICES ASSUME Init PROVE Backed
    OBVIOUS
  <2>1. \A force \in BOOLEAN : Elems(queue[force]) = {}
    BY DEF Init, Elems
  <2>2. posts = {}
    BY DEF Init
  <2> QED BY <2>1, <2>2, InitType DEF Backed, ArrivedReceived, RemovedReceived, CachedBacked
<1>2. Backed /\ [Next]_vars => Backed'
  BY NextType, NextArrived, NextRemoved, NextCached DEF Backed
<1> QED BY <1>1, <1>2, PTL DEF Spec

-----------------------------------------------------------------------------
(* What is held.                                                           *)

Posted == {r \in Reports : \E p \in posts : r \in p.data}

\* The places a copy of a report can be in.
LEMMA HeldPlaces == TypeOK => Held = Batched \cup Posted \cup Saving \cup OnDisk
<1> SUFFICES ASSUME TypeOK PROVE Held = Batched \cup Posted \cup Saving \cup OnDisk
  OBVIOUS
<1>1. \A p \in posts : p.cached = TRUE \/ p.cached = FALSE
  BY DEF TypeOK, Post
<1>2. Posted = InFlight(TRUE) \cup InFlight(FALSE)
  BY <1>1 DEF Posted, InFlight
<1> QED BY <1>2 DEF Held, Volatile

\* The same after a step.
LEMMA HeldPlacesPrime ==
  TypeOK' => Held' = Batched' \cup Posted' \cup Saving' \cup OnDisk'
<1> SUFFICES ASSUME TypeOK'
             PROVE  Held' = Batched' \cup Posted' \cup Saving' \cup OnDisk'
  OBVIOUS
<1>1. \A p \in posts' : p.cached = TRUE \/ p.cached = FALSE
  BY DEF TypeOK, Post
<1>2. Posted' = InFlight(TRUE)' \cup InFlight(FALSE)'
  BY <1>1 DEF Posted, InFlight
<1> QED BY <1>2 DEF Held, Volatile

\* The reports to be saved, when an operation is added or taken off.
LEMMA SavingAppend ==
  ASSUME TypeOK, NEW force \in BOOLEAN, NEW op \in Operation,
         queue' = [queue EXCEPT ![force] = Append(@, op)]
  PROVE  Saving' = Saving \cup (IF op.kind = "save" THEN op.data ELSE {})
<1>1. op.data \subseteq Reports
  BY OperationData
<1>2. SavedBy(queue[force])' = SavedBy(queue[force])
                                 \cup (IF op.kind = "save" THEN op.data ELSE {})
  <2>1. Elems(queue'[force]) = Elems(queue[force]) \cup {op}
    BY QueueAppend
  <2> QED BY <1>1, <2>1 DEF SavedBy
<1>3. \A other \in BOOLEAN \ {force} : SavedBy(queue[other])' = SavedBy(queue[other])
  BY QueueAppend DEF SavedBy
<1>4. CASE force = TRUE
  BY <1>2, <1>3, <1>4 DEF Saving
<1>5. CASE force = FALSE
  BY <1>2, <1>3, <1>5 DEF Saving
<1> QED BY <1>4, <1>5

\* The same when an operation is taken off.
LEMMA SavingTail ==
  ASSUME TypeOK, NEW force \in BOOLEAN, queue[force] # <<>>,
         queue' = [queue EXCEPT ![force] = Tail(@)]
  PROVE  Saving = Saving' \cup (IF Head(queue[force]).kind = "save"
                                THEN Head(queue[force]).data ELSE {})
<1> DEFINE op == Head(queue[force])
<1>1. op \in Operation /\ Elems(queue[force]) = {op} \cup Elems(queue'[force])
  BY QueueTail
<1>2. op.data \subseteq Reports
  BY <1>1, OperationData
<1> HIDE DEF op
<1>3. SavedBy(queue[force]) = SavedBy(queue[force])'
                                \cup (IF op.kind = "save" THEN op.data ELSE {})
  BY <1>1, <1>2 DEF SavedBy
<1>4. \A other \in BOOLEAN \ {force} : SavedBy(queue[other])' = SavedBy(queue[other])
  BY QueueTail DEF SavedBy
<1>5. Saving = Saving' \cup (IF op.kind = "save" THEN op.data ELSE {})
  <2>1. CASE force = TRUE
    BY <1>3, <1>4, <2>1 DEF Saving
  <2>2. CASE force = FALSE
    BY <1>3, <1>4, <2>2 DEF Saving
  <2> QED BY <2>1, <2>2
<1> QED BY <1>5 DEF op

\* A flush moves its records to posts or to saves.
LEMMA FlushMoves ==
  ASSUME TypeOK, NEW records \in Seq(Reports), Flush(records)
  PROVE  /\ Batched' = {}
         /\ Posted' \cup Saving' = Posted \cup Saving \cup Elems(records)
<1>1. PICK sent \in Seq(Data), kept \in Seq(Data) : FlushSplits(records, sent, kept)
  BY FlushParts
<1> DEFINE saves == [i \in DOMAIN kept |-> Save(kept[i])]
<1>2. (UNION Elems(sent)) \cup (UNION Elems(kept)) = Elems(records)
  <2>1. Elems(sent) \cup Elems(kept) = Elems(Buffers(records))
    BY <1>1 DEF FlushSplits
  <2>2. UNION Elems(Buffers(records)) = Elems(records)
    BY BufferedRecords
  <2>3. (UNION Elems(sent)) \cup (UNION Elems(kept)) = UNION (Elems(sent) \cup Elems(kept))
    OBVIOUS
  <2> QED BY <2>1, <2>2, <2>3
<1>3. Batched' = {}
  BY FlushParts DEF Batched, Elems
<1>4. /\ posts' = posts \cup {NewPost(data, FALSE, FALSE) : data \in Elems(sent)}
      /\ queue' = [queue EXCEPT ![FALSE] = @ \o saves]
  BY <1>1 DEF FlushSplits
<1>5. saves \in Seq(Operation) /\ queue[FALSE] \in Seq(Operation)
  BY SavesType DEF TypeOK
<1>6. Elems(saves) = {Save(data) : data \in Elems(kept)}
  BY DEF Elems
<1> HIDE DEF saves
<1>7. queue'[FALSE] = queue[FALSE] \o saves /\ queue'[TRUE] = queue[TRUE]
  BY <1>4 DEF TypeOK
<1>8. Elems(queue'[FALSE]) = Elems(queue[FALSE]) \cup Elems(saves)
  <2>1. Elems(queue[FALSE] \o saves) = Elems(queue[FALSE]) \cup Elems(saves)
    BY <1>5, ElemsConcat
  <2> QED BY <1>7, <2>1
<1>9. UNION Elems(sent) \subseteq Reports /\ UNION Elems(kept) \subseteq Reports
  <2>1. Elems(records) \subseteq Reports
    BY DEF Elems
  <2> QED BY <1>2, <2>1
<1>10. Posted' = Posted \cup UNION Elems(sent)
  <2>1. \A data : NewPost(data, FALSE, FALSE).data = data
    BY DEF NewPost
  <2>2. ASSUME NEW r \in Reports, NEW p \in posts', r \in p.data
        PROVE  r \in Posted \/ r \in UNION Elems(sent)
    BY <1>4, <2>1, <2>2 DEF Posted
  <2>a. Posted' \subseteq Posted \cup UNION Elems(sent)
    BY <2>2 DEF Posted
  <2>3. Posted \subseteq Posted'
    BY <1>4 DEF Posted
  <2>4. ASSUME NEW r \in UNION Elems(sent) PROVE r \in Posted'
    <3>1. PICK data \in Elems(sent) : r \in data
      OBVIOUS
    <3>2. NewPost(data, FALSE, FALSE) \in posts' /\ r \in NewPost(data, FALSE, FALSE).data
      BY <1>4, <2>1, <3>1
    <3> QED BY <1>9, <3>2 DEF Posted
  <2> QED BY <2>3, <2>4, <2>a
<1>11. SavedBy(queue[FALSE])' = SavedBy(queue[FALSE]) \cup UNION Elems(kept)
  <2>1. \A data : Save(data).kind = "save" /\ Save(data).data = data
    BY DEF Save
  <2>2. ASSUME NEW r \in Reports, NEW op \in Elems(queue'[FALSE]),
               op.kind = "save", r \in op.data
        PROVE  r \in SavedBy(queue[FALSE]) \/ r \in UNION Elems(kept)
    <3>1. CASE op \in Elems(queue[FALSE])
      BY <2>2, <3>1 DEF SavedBy
    <3>2. CASE op \in Elems(saves)
      <4>1. PICK data \in Elems(kept) : op = Save(data)
        BY <1>6, <3>2
      <4> QED BY <2>1, <2>2, <4>1
    <3> QED BY <1>8, <2>2, <3>1, <3>2
  <2>3. SavedBy(queue[FALSE])' \subseteq SavedBy(queue[FALSE]) \cup UNION Elems(kept)
    BY <2>2 DEF SavedBy
  <2>4. SavedBy(queue[FALSE]) \subseteq SavedBy(queue[FALSE])'
    BY <1>8 DEF SavedBy
  <2>5. ASSUME NEW r \in UNION Elems(kept) PROVE r \in SavedBy(queue[FALSE])'
    <3>1. PICK data \in Elems(kept) : r \in data
      OBVIOUS
    <3>2. Save(data) \in Elems(queue'[FALSE])
      BY <1>6, <1>8, <3>1
    <3> QED BY <1>9, <2>1, <3>1, <3>2 DEF SavedBy
  <2> QED BY <2>3, <2>4, <2>5
<1>12. Saving' = Saving \cup UNION Elems(kept)
  BY <1>7, <1>11 DEF Saving, SavedBy
<1> QED BY <1>2, <1>3, <1>10, <1>12

-----------------------------------------------------------------------------
(* The refinement.                                                         *)

\* Copies are let go of reports that were received or given up.
LEMMA LetGoStep ==
  ASSUME Held' \subseteq Held, Held \ Held' \subseteq received \cup abandoned,
         UNCHANGED <<accepted, received, abandoned>>
  PROVE  Delivery!Next
<1> DEFINE S == Held \ Held'
<1>1. S \in SUBSET Held /\ Held' = Held \ S
  OBVIOUS
<1>2. Delivery!LetGo(S)
  BY <1>1 DEF Delivery!LetGo
<1> QED BY <1>1, <1>2 DEF Delivery!Next

\* Reports are given up.
LEMMA GiveUpStep ==
  ASSUME NEW S \in SUBSET Held, Held' \subseteq Held, Held \ Held' \subseteq S,
         abandoned' = abandoned \cup S, UNCHANGED <<accepted, received>>
  PROVE  Delivery!Next
<1> DEFINE gone == Held \ Held'
<1>1. gone \in SUBSET S /\ Held' = Held \ gone
  OBVIOUS
<1>2. Delivery!GiveUp(S, gone)
  BY <1>1 DEF Delivery!GiveUp
<1> QED BY <1>1, <1>2 DEF Delivery!Next

\* The steps that move a report from the array on, or add one.
LEMMA ReportStep ==
  ASSUME TypeOK, TypeOK', NEW r \in Reports, ReportData(r)
  PROVE  Delivery!Accept(r)
<1>1. /\ r \notin accepted /\ accepted' = accepted \cup {r}
      /\ received' = received /\ abandoned' = abandoned /\ files' = files
  BY DEF ReportData, history
<1>2. batch \in Seq(Reports) /\ Append(batch, r) \in Seq(Reports)
  BY DEF TypeOK
<1>3. Elems(Append(batch, r)) = Batched \cup {r}
  BY <1>2, ElemsAppend DEF Batched
<1>4. OnDisk' = OnDisk
  BY <1>1 DEF OnDisk
<1>5. CASE Len(batch) + 1 >= BatchLimit
  <2>1. Flush(Append(batch, r))
    BY <1>5 DEF ReportData
  <2>2. Held' = Held \cup {r}
    BY <1>2, <1>3, <1>4, <2>1, FlushMoves, HeldPlaces, HeldPlacesPrime
  <2> QED BY <1>1, <2>2 DEF Delivery!Accept
<1>6. CASE ~(Len(batch) + 1 >= BatchLimit)
  <2>1. batch' = Append(batch, r) /\ posts' = posts /\ queue' = queue
    BY <1>6 DEF ReportData
  <2>2. Batched' = Batched \cup {r} /\ Posted' = Posted /\ Saving' = Saving
    BY <1>3, <2>1 DEF Batched, Posted, Saving
  <2>3. Held' = Held \cup {r}
    BY <1>4, <2>2, HeldPlaces, HeldPlacesPrime
  <2> QED BY <1>1, <2>3 DEF Delivery!Accept
<1> QED BY <1>5, <1>6

\* forceReportData holds the report.
LEMMA ForceReportStep ==
  ASSUME TypeOK, TypeOK', NEW r \in Reports, ForceReportData(r)
  PROVE  Delivery!Accept(r)
<1>1. /\ r \notin accepted /\ accepted' = accepted \cup {r}
      /\ received' = received /\ abandoned' = abandoned
  BY DEF ForceReportData, history
<1>2. OnDisk' = OnDisk /\ Batched' = Batched
  BY DEF ForceReportData, memory, OnDisk, Batched
<1>3. CASE net # "none"
  <2>1. posts' = posts \cup {NewPost({r}, TRUE, FALSE)} /\ queue' = queue
    BY <1>3 DEF ForceReportData
  <2>2. NewPost({r}, TRUE, FALSE).data = {r}
    BY DEF NewPost
  <2>3. Posted' = Posted \cup {r} /\ Saving' = Saving
    BY <2>1, <2>2 DEF Posted, Saving
  <2>4. Held' = Held \cup {r}
    BY <1>2, <2>3, HeldPlaces, HeldPlacesPrime
  <2> QED BY <1>1, <2>4 DEF Delivery!Accept
<1>4. CASE net = "none"
  <2>1. posts' = posts /\ queue' = [queue EXCEPT ![TRUE] = Append(@, Save({r}))]
    BY <1>4 DEF ForceReportData
  <2>2. Save({r}) \in Operation /\ Save({r}).kind = "save" /\ Save({r}).data = {r}
    BY NewTypes DEF Data, Save
  <2>3. Saving' = Saving \cup {r}
    BY <2>1, <2>2, SavingAppend
  <2>4. Posted' = Posted
    BY <2>1 DEF Posted
  <2>5. Held' = Held \cup {r}
    BY <1>2, <2>3, <2>4, HeldPlaces, HeldPlacesPrime
  <2> QED BY <1>1, <2>5 DEF Delivery!Accept
<1> QED BY <1>3, <1>4

\* The delayed flush holds all it held.
LEMMA FlushStep ==
  ASSUME TypeOK, TypeOK', FlushTimeout
  PROVE  UNCHANGED <<accepted, Held, received, abandoned>>
<1>1. UNCHANGED <<accepted, received, abandoned, files>>
  BY DEF FlushTimeout, history
<1>2. OnDisk' = OnDisk /\ batch \in Seq(Reports)
  BY <1>1 DEF OnDisk, TypeOK
<1>3. CASE batch # <<>>
  <2>1. Flush(batch)
    BY <1>3 DEF FlushTimeout
  <2>2. Held' = Held
    BY <1>2, <2>1, FlushMoves, HeldPlaces, HeldPlacesPrime DEF Batched
  <2> QED BY <1>1, <2>2
<1>4. CASE batch = <<>>
  <2>1. UNCHANGED <<batch, posts, queue>>
    BY <1>4 DEF FlushTimeout
  <2>2. Batched' = Batched /\ Posted' = Posted /\ Saving' = Saving
    BY <2>1 DEF Batched, Posted, Saving
  <2> QED BY <1>1, <1>2, <2>2, HeldPlaces, HeldPlacesPrime
<1> QED BY <1>3, <1>4

\* The server receives reports that are held.
LEMMA ArriveStep ==
  ASSUME TypeOK, TypeOK', NEW p \in posts, Arrive(p)
  PROVE  Delivery!Next
<1> DEFINE there == [p EXCEPT !.arrived = TRUE]
<1>1. p \in Post /\ p.data \subseteq Reports
  BY DEF TypeOK, Post, Data
<1>2. there.data = p.data
  BY <1>1 DEF Post
<1>3. /\ posts' = (posts \ {p}) \cup {there} /\ received' = received \cup p.data
      /\ UNCHANGED <<batch, queue, files, accepted, abandoned>>
  BY DEF Arrive, memory, disk
<1> HIDE DEF there
<1>4. Posted' = Posted
  <2>1. Posted' \subseteq Posted
    BY <1>2, <1>3 DEF Posted
  <2>2. Posted \subseteq Posted'
    <3> SUFFICES ASSUME NEW r \in Reports, NEW q \in posts, r \in q.data
                 PROVE  \E o \in posts' : r \in o.data
      BY DEF Posted
    <3>1. CASE q = p
      BY <1>2, <1>3, <3>1
    <3>2. CASE q # p
      BY <1>3, <3>2
    <3> QED BY <3>1, <3>2
  <2> QED BY <2>1, <2>2
<1>5. Held' = Held
  BY <1>3, <1>4, HeldPlaces, HeldPlacesPrime DEF Batched, Saving, OnDisk
<1>6. p.data \in SUBSET Held
  BY <1>1, HeldPlaces DEF Posted
<1>7. Delivery!Receive(p.data)
  BY <1>3, <1>5 DEF Delivery!Receive
<1> QED BY <1>6, <1>7 DEF Delivery!Next

\* What one post less means.
LEMMA PostGone ==
  ASSUME TypeOK, NEW p \in posts, posts' = posts \ {p}
  PROVE  Posted' \subseteq Posted /\ Posted \subseteq Posted' \cup p.data
  BY DEF Posted

\* A success lets go of what the server has.
LEMMA OnSuccessStep ==
  ASSUME Backed, TypeOK', NEW p \in posts, OnSuccess(p)
  PROVE  Delivery!Next
<1>1. TypeOK /\ p \in Post /\ p.data \in Data /\ p.force \in BOOLEAN /\ p.data \subseteq received
  BY DEF Backed, TypeOK, Post, OnSuccess, ArrivedReceived
<1>2. /\ posts' = posts \ {p} /\ queue' = AfterSuccess(p)
      /\ UNCHANGED <<batch, files, accepted, received, abandoned>>
  BY DEF OnSuccess, memory, history
<1>3. Check \in Operation /\ Check.kind # "save"
  BY CheckType
<1>4. Saving' = Saving
  <2>1. CASE p.cached
    <3>1. /\ Remove(p.data) \in Operation /\ Remove(p.data).kind # "save"
          /\ queue' = [queue EXCEPT ![p.force] = Append(@, Remove(p.data))]
      BY <1>1, <1>2, <2>1, NewTypes DEF AfterSuccess, Remove
    <3> QED BY <1>1, <3>1, SavingAppend
  <2>2. CASE ~p.cached
    <3>1. \A force \in BOOLEAN : SavedBy(queue[force])' = SavedBy(queue[force])
      <4> TAKE force \in BOOLEAN
      <4>1. queue'[force] = queue[force] \/ queue'[force] = Append(queue[force], Check)
        BY <1>2, <2>2 DEF AfterSuccess
      <4>2. Elems(Append(queue[force], Check)) = Elems(queue[force]) \cup {Check}
        BY <1>1, <1>3, ElemsAppend DEF TypeOK
      <4>3. CASE queue'[force] = queue[force]
        BY <4>3 DEF SavedBy
      <4>4. CASE queue'[force] = Append(queue[force], Check)
        BY <1>3, <4>2, <4>4 DEF SavedBy
      <4> QED BY <4>1, <4>3, <4>4
    <3> QED BY <3>1 DEF Saving
  <2> QED BY <2>1, <2>2
<1>5. Batched' = Batched /\ OnDisk' = OnDisk
  BY <1>2 DEF Batched, OnDisk
<1>6. Posted' \subseteq Posted /\ Posted \subseteq Posted' \cup p.data
  BY <1>1, <1>2, PostGone
<1>7. Held' \subseteq Held /\ Held \ Held' \subseteq received
  BY <1>1, <1>4, <1>5, <1>6, HeldPlaces, HeldPlacesPrime
<1> QED BY <1>2, <1>7, LetGoStep

\* A failure saves the data, or leaves the file that has it.
LEMMA OnFailStep ==
  ASSUME Backed, TypeOK', NEW p \in posts, OnFail(p)
  PROVE  Delivery!Next \/ UNCHANGED <<accepted, Held, received, abandoned>>
<1>1. /\ TypeOK /\ p \in Post /\ p.data \in Data /\ p.data \subseteq Reports
      /\ p.force \in BOOLEAN
  BY DEF Backed, TypeOK, Post, Data
<1>2. /\ posts' = posts \ {p} /\ queue' = AfterFail(p)
      /\ UNCHANGED <<batch, files, accepted, received, abandoned>>
  BY DEF OnFail, memory
<1>3. Batched' = Batched /\ OnDisk' = OnDisk
  BY <1>2 DEF Batched, OnDisk
<1>4. Posted' \subseteq Posted /\ Posted \subseteq Posted' \cup p.data
  BY <1>1, <1>2, PostGone
<1>5. CASE p.cached
  <2>1. Saving' = Saving
    BY <1>2, <1>5 DEF AfterFail, Saving
  <2>2. p.data \in files[p.force] \/ p.data \subseteq received \cup abandoned
    BY <1>5 DEF Backed, CachedBacked
  <2>3. p.data \in files[p.force] => p.data \subseteq OnDisk
    BY <1>1 DEF OnDisk
  <2>4. Held' \subseteq Held /\ Held \ Held' \subseteq received \cup abandoned
    BY <1>1, <1>3, <1>4, <2>1, <2>2, <2>3, HeldPlaces, HeldPlacesPrime
  <2> QED BY <1>2, <2>4, LetGoStep
<1>6. CASE ~p.cached
  <2>1. queue' = [queue EXCEPT ![p.force] = Append(@, Save(p.data))]
    BY <1>2, <1>6 DEF AfterFail
  <2>2. /\ Save(p.data) \in Operation /\ Save(p.data).kind = "save"
        /\ Save(p.data).data = p.data
    BY <1>1, NewTypes DEF Save
  <2>3. Saving' = Saving \cup p.data
    BY <1>1, <2>1, <2>2, SavingAppend
  <2>4. p.data \subseteq Posted
    BY <1>1 DEF Posted
  <2>5. Held' = Held
    BY <1>1, <1>3, <1>4, <2>3, <2>4, HeldPlaces, HeldPlacesPrime
  <2> QED BY <1>2, <2>5
<1> QED BY <1>5, <1>6

\* A save puts the data on the disk, or gives it up.
LEMMA RunSaveStep ==
  ASSUME TypeOK, TypeOK', NEW force \in BOOLEAN, RunSave(force)
  PROVE  Delivery!Next \/ UNCHANGED <<accepted, Held, received, abandoned>>
<1> DEFINE data == Head(queue[force]).data
<1>1. /\ queue[force] # <<>> /\ queue' = [queue EXCEPT ![force] = Tail(@)]
      /\ Head(queue[force]).kind = "save"
      /\ UNCHANGED <<batch, posts, accepted, received>>
  BY DEF RunSave, memory
<1>2. Head(queue[force]) \in Operation /\ data \subseteq Reports
  BY <1>1, QueueTail, OperationData
<1>3. Saving = Saving' \cup data
  BY <1>1, SavingTail
<1> HIDE DEF data
<1>4. Batched' = Batched /\ Posted' = Posted
  BY <1>1 DEF Batched, Posted
<1>5. data \in SUBSET Held
  BY <1>3, HeldPlaces
<1>6. CASE files' = [files EXCEPT ![force] = @ \cup {data}] /\ abandoned' = abandoned
  <2>1. OnDisk' = OnDisk \cup data
    <3>1. files'[TRUE] \cup files'[FALSE] = (files[TRUE] \cup files[FALSE]) \cup {data}
      BY <1>6 DEF TypeOK
    <3> QED BY <3>1 DEF OnDisk
  <2>2. Held' = Held
    BY <1>3, <1>4, <2>1, HeldPlaces, HeldPlacesPrime
  <2> QED BY <1>1, <1>6, <2>2
<1>7. CASE files' = files /\ abandoned' = abandoned \cup data
  <2>1. OnDisk' = OnDisk
    BY <1>7 DEF OnDisk
  <2>2. Held' \subseteq Held /\ Held \ Held' \subseteq data
    BY <1>3, <1>4, <2>1, HeldPlaces, HeldPlacesPrime
  <2> QED BY <1>1, <1>5, <1>7, <2>2, GiveUpStep
<1> QED BY <1>6, <1>7 DEF RunSave, data

\* A check gives up what is too old.
LEMMA RunCheckStep ==
  ASSUME TypeOK, TypeOK', NEW force \in BOOLEAN, RunCheck(force)
  PROVE  Delivery!Next \/ UNCHANGED <<accepted, Held, received, abandoned>>
<1>1. /\ queue[force] # <<>> /\ queue' = [queue EXCEPT ![force] = Tail(@)]
      /\ Head(queue[force]).kind = "check"
      /\ UNCHANGED <<batch, accepted, received>>
  BY DEF RunCheck, memory
<1>2. Saving' = Saving /\ Batched' = Batched
  BY <1>1, SavingTail DEF Batched
<1>3. CASE UNCHANGED <<files, posts, abandoned>>
  <2>1. Held' = Held
    BY <1>2, <1>3, HeldPlaces, HeldPlacesPrime DEF Posted, OnDisk
  <2> QED BY <1>1, <1>3, <2>1
<1>4. CASE \E old, sent \in SUBSET files[force] :
             /\ files' = [files EXCEPT ![force] = @ \ old]
             /\ posts' = posts \cup {NewPost(data, force, TRUE) : data \in sent}
             /\ abandoned' = abandoned \cup UNION old
  <2>1. PICK old \in SUBSET files[force], sent \in SUBSET files[force] :
          /\ files' = [files EXCEPT ![force] = @ \ old]
          /\ posts' = posts \cup {NewPost(data, force, TRUE) : data \in sent}
          /\ abandoned' = abandoned \cup UNION old
    BY <1>4
  <2>2. \A data : NewPost(data, force, TRUE).data = data
    BY DEF NewPost
  <2>3. \A data \in files[force] : data \subseteq OnDisk
    BY DEF OnDisk
  <2>4. Posted \subseteq Posted' /\ Posted' \subseteq Posted \cup OnDisk
    <3>1. Posted \subseteq Posted'
      BY <2>1 DEF Posted
    <3>2. \A p \in posts' : p \in posts \/ p.data \subseteq OnDisk
      <4>1. \A p \in posts' : p \in posts \/ \E data \in sent : p = NewPost(data, force, TRUE)
        BY <2>1
      <4>2. \A data \in sent : data \subseteq OnDisk
        BY <2>3
      <4> QED BY <2>2, <4>1, <4>2
    <3> QED BY <3>1, <3>2 DEF Posted
  <2>5. OnDisk' \subseteq OnDisk /\ OnDisk \subseteq OnDisk' \cup UNION old
    <3>1. /\ files'[TRUE] \cup files'[FALSE] \subseteq files[TRUE] \cup files[FALSE]
          /\ files[TRUE] \cup files[FALSE] \subseteq (files'[TRUE] \cup files'[FALSE]) \cup old
      BY <2>1 DEF TypeOK
    <3> QED BY <3>1 DEF OnDisk
  <2>6. Held' \subseteq Held /\ Held \ Held' \subseteq UNION old
    BY <1>2, <2>4, <2>5, HeldPlaces, HeldPlacesPrime
  <2>7. UNION old \in SUBSET Held
    <3>1. UNION old \subseteq OnDisk
      BY <2>3
    <3> QED BY <3>1, HeldPlaces
  <2> QED BY <1>1, <2>1, <2>6, <2>7, GiveUpStep
<1> QED BY <1>3, <1>4 DEF RunCheck, Unfiltered

\* A removal lets go of what the server has.
LEMMA RunRemoveStep ==
  ASSUME Backed, TypeOK', NEW force \in BOOLEAN, RunRemove(force)
  PROVE  Delivery!Next
<1> DEFINE data == Head(queue[force]).data
<1>1. /\ TypeOK
      /\ queue[force] # <<>> /\ queue' = [queue EXCEPT ![force] = Tail(@)]
      /\ Head(queue[force]).kind = "remove"
      /\ files' = [files EXCEPT ![force] = @ \ {data}]
      /\ UNCHANGED <<batch, posts, accepted, received, abandoned>>
  BY DEF RunRemove, Backed, memory, history
<1>2. Saving' = Saving /\ Batched' = Batched /\ Posted' = Posted
  BY <1>1, SavingTail DEF Batched, Posted
<1>3. data \subseteq received
  BY <1>1, QueueTail DEF Backed, RemovedReceived
<1> HIDE DEF data
<1>4. OnDisk' \subseteq OnDisk /\ OnDisk \subseteq OnDisk' \cup data
  <2>1. /\ files'[TRUE] \cup files'[FALSE] \subseteq files[TRUE] \cup files[FALSE]
        /\ files[TRUE] \cup files[FALSE] \subseteq (files'[TRUE] \cup files'[FALSE]) \cup {data}
    BY <1>1 DEF TypeOK
  <2> QED BY <2>1 DEF OnDisk
<1>5. Held' \subseteq Held /\ Held \ Held' \subseteq received \cup abandoned
  BY <1>1, <1>2, <1>3, <1>4, HeldPlaces, HeldPlacesPrime
<1> QED BY <1>1, <1>5, LetGoStep

\* The death of the process gives up all but the files.
LEMMA KillStep ==
  ASSUME TypeOK, TypeOK', Kill
  PROVE  Delivery!Next
<1>1. /\ batch' = <<>> /\ posts' = {} /\ \A force \in BOOLEAN : queue'[force] = <<>>
      /\ abandoned' = abandoned \cup (Held \ OnDisk)
      /\ UNCHANGED <<files, accepted, received>>
  BY DEF Kill
<1>2. Batched' = {} /\ Posted' = {} /\ Saving' = {} /\ OnDisk' = OnDisk
  <2>1. Elems(<<>>) = {}
    BY DEF Elems
  <2>2. SavedBy(queue[TRUE])' = {} /\ SavedBy(queue[FALSE])' = {}
    BY <1>1, <2>1 DEF SavedBy
  <2>3. Batched' = {} /\ Posted' = {}
    BY <1>1, <2>1 DEF Batched, Posted
  <2> QED BY <1>1, <2>2, <2>3 DEF Saving, OnDisk
<1>3. Held' = OnDisk /\ OnDisk \subseteq Held
  BY <1>2, HeldPlaces, HeldPlacesPrime
<1> QED BY <1>1, <1>3, GiveUpStep

\* A step of the reporter is a step of ReportDelivery, or none.
LEMMA NextDelivers ==
  Backed /\ [Next]_vars => [Delivery!Next]_(Delivery!vars)
<1> SUFFICES ASSUME Backed, [Next]_vars
             PROVE  Delivery!Next \/ UNCHANGED <<accepted, Held, received, abandoned>>
  BY DEF Delivery!vars
<1>0. TypeOK /\ TypeOK'
  BY NextType DEF Backed
<1>1. ASSUME NEW r \in Reports, ReportData(r) \/ ForceReportData(r) PROVE Delivery!Next
  BY <1>0, <1>1, ReportStep, ForceReportStep DEF Delivery!Next
<1>2. ASSUME UNCHANGED <<batch, posts, queue, files, accepted, received, abandoned>>
      PROVE  UNCHANGED <<accepted, Held, received, abandoned>>
  BY <1>2 DEF Held, Volatile, Batched, InFlight, Saving, SavedBy, OnDisk, Elems
<1>3. CASE RunOnMainThread
  BY <1>2, <1>3 DEF RunOnMainThread, disk, history
<1>4. ASSUME NEW n \in Net, NetChange(n)
      PROVE  UNCHANGED <<accepted, Held, received, abandoned>>
  BY <1>2, <1>4 DEF NetChange, memory, disk, history
<1>5. CASE UNCHANGED vars
  BY <1>2, <1>5 DEF vars, memory, disk, history
<1> QED BY <1>0, <1>1, <1>3, <1>4, <1>5, FlushStep, ArriveStep, OnSuccessStep, OnFailStep,
           RunSaveStep, RunCheckStep, RunRemoveStep, KillStep DEF Next

\* The reporter implements ReportDelivery.
THEOREM ReportsDelivered == Spec => Implements
<1>1. Init => Delivery!Init
  <2> SUFFICES ASSUME Init PROVE Delivery!Init
    OBVIOUS
  <2>1. Held = {}
    BY DEF Init, Held, Volatile, Batched, InFlight, Saving, SavedBy, OnDisk, Elems
  <2> QED BY <2>1 DEF Init, Delivery!Init
<1> QED BY <1>1, NextDelivers, AlwaysBacked, PTL DEF Spec, Implements, Delivery!Spec

\* No step of ReportDelivery forgets a report.
LEMMA DeliveryKeeps ==
  Delivery!NothingForgotten /\ [Delivery!Next]_(Delivery!vars)
    => Delivery!NothingForgotten'
<1> SUFFICES ASSUME Delivery!NothingForgotten, [Delivery!Next]_(Delivery!vars)
             PROVE  Delivery!NothingForgotten'
  OBVIOUS
<1> USE DEF Delivery!NothingForgotten
<1>1. ASSUME NEW r \in Reports, Delivery!Accept(r) PROVE Delivery!NothingForgotten'
  BY <1>1 DEF Delivery!Accept
<1>2. ASSUME NEW S \in SUBSET Held, Delivery!Receive(S) PROVE Delivery!NothingForgotten'
  BY <1>2 DEF Delivery!Receive
<1>3. ASSUME NEW S \in SUBSET Held, Delivery!LetGo(S) PROVE Delivery!NothingForgotten'
  BY <1>3 DEF Delivery!LetGo
<1>4. ASSUME NEW S \in SUBSET Held, NEW gone \in SUBSET S, Delivery!GiveUp(S, gone)
      PROVE  Delivery!NothingForgotten'
  BY <1>4 DEF Delivery!GiveUp
<1>5. CASE UNCHANGED Delivery!vars
  BY <1>5 DEF Delivery!vars
<1> QED BY <1>1, <1>2, <1>3, <1>4, <1>5 DEF Delivery!Next

\* A report that is neither held nor received was lost with the process, by
\* age, or by the disk: no flush, answer, retry or removal forgets one.
THEOREM NoReportForgotten == Spec => []Delivery!NothingForgotten
<1>1. Delivery!Init => Delivery!NothingForgotten
  BY DEF Delivery!Init, Delivery!NothingForgotten
<1>2. Implements => []Delivery!NothingForgotten
  BY <1>1, DeliveryKeeps, PTL DEF Implements, Delivery!Spec
<1> QED BY <1>2, ReportsDelivered, PTL
=============================================================================
