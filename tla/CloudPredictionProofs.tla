------------------------ MODULE CloudPredictionProofs ------------------------
(***************************************************************************)
(* Proofs about CloudPrediction: the ranges of its variables, the bound on  *)
(* the connections that live at once, what failures leave to be done, which *)
(* wears off, and retries, which are never more than what went wrong, for   *)
(* any number of faults.                                                    *)
(***************************************************************************)
EXTENDS CloudPrediction, TLAPS

-----------------------------------------------------------------------------
(* The ranges.                                                              *)

\* At the start every variable is in its range.
LEMMA InitType == Init => TypeOK
<1> SUFFICES ASSUME Init PROVE TypeOK OBVIOUS
<1>1. own \in States \cup {"none"} /\ others \in [States -> Nat]
  BY DEF Init
<1>2. midway \in [Threads -> {"idle", "create", "drop"}] /\ delayed \in [Calls -> Nat]
  BY DEF Init
<1>3. jobs \in Seq(BOOLEAN) /\ Len(jobs) <= MaxJobs
  BY CloudAssumption DEF Init
<1>4. attempts \in 0 .. 3 /\ faults \in 0 .. MaxFaults
  BY CloudAssumption DEF Init
<1>5. isRequesting \in BOOLEAN /\ task \in Numbers \cup {None}
  BY DEF Init
<1>6. address \in BOOLEAN /\ fresh \in BOOLEAN
  BY DEF Init
<1> QED BY <1>1, <1>2, <1>3, <1>4, <1>5, <1>6 DEF TypeOK

\* An assignment to self.webSocket keeps the counts natural numbers.
LEMMA AssignType ==
  ASSUME TypeOK, NEW new \in {"none", "connecting"}, Assign(new)
  PROVE  own' \in States \cup {"none"} /\ others' \in [States -> Nat]
  BY DEF TypeOK, Assign, One, States

\* A socket that changes its state keeps the counts natural numbers.
LEMMA MovesType ==
  ASSUME TypeOK, NEW from \in States, NEW to \in States \cup {"none"}, Moves(from, to)
  PROVE  own' \in States \cup {"none"} /\ others' \in [States -> Nat]
<1>1. CASE own = from /\ own' = to /\ UNCHANGED others
  BY <1>1 DEF TypeOK
<1>2. CASE others[from] > 0 /\ UNCHANGED own
          /\ others' = [st \in States |-> others[st] - One(st = from) + One(st = to)]
  BY <1>2 DEF TypeOK, One
<1> QED BY <1>1, <1>2 DEF Moves

\* So does closing the connection.
LEMMA CloseType ==
  ASSUME TypeOK, NEW t \in Threads, CloseWebSocket(t)
  PROVE  /\ own' \in States \cup {"none"} /\ others' \in [States -> Nat]
         /\ midway' \in [Threads -> {"idle", "create", "drop"}]
  BY DEF TypeOK, CloseWebSocket, States

\* A thread that found no connection will make one.
LEMMA ConnectType ==
  ASSUME TypeOK, NEW t \in Threads, Connect(t)
  PROVE  midway' \in [Threads -> {"idle", "create", "drop"}]
  BY DEF TypeOK, Connect

\* The queue of the jobs stays short.
LEMMA EnqueueType ==
  ASSUME TypeOK, NEW forced \in BOOLEAN, Enqueue(forced)
  PROVE  jobs' \in Seq(BOOLEAN) /\ Len(jobs') <= MaxJobs
  BY CloudAssumption DEF TypeOK, Enqueue

\* The faults are counted down, and never below none.
LEMMA FaultType == ASSUME TypeOK, Fault \/ Fine PROVE faults' \in 0 .. MaxFaults
  BY CloudAssumption DEF TypeOK, Fault, Fine

\* Calls are delayed, and made, one at a time.
LEMMA LaterType ==
  ASSUME TypeOK, NEW c \in Calls, Later(c) \/ Once(c)
  PROVE  delayed' \in [Calls -> Nat]
  BY DEF TypeOK, Later, Once

\* Every step keeps every variable in its range.
LEMMA StepType == TypeOK /\ [Next]_vars => TypeOK'
<1> SUFFICES ASSUME TypeOK, [Next]_vars PROVE TypeOK' OBVIOUS
<1>1. ASSUME NEW t \in Threads, Create(t) PROVE TypeOK'
  <2>1. own' \in States \cup {"none"} /\ others' \in [States -> Nat]
    BY <1>1, AssignType DEF Create, TypeOK, sockets
  <2> QED BY <1>1, <2>1 DEF Create, TypeOK, config
<1>2. ASSUME NEW t \in Threads, Drop(t) PROVE TypeOK'
  <2>1. own' \in States \cup {"none"} /\ others' \in [States -> Nat]
    BY <1>2, AssignType DEF Drop
  <2> QED BY <1>2, <2>1 DEF Drop, TypeOK, config
<1>3. CASE ConnectService
  <2>1. CASE Enqueue(FALSE) /\ Fine /\ UNCHANGED <<sockets, midway>>
    BY <1>3, <2>1, EnqueueType, FaultType DEF ConnectService, TypeOK, sockets, config
  <2>2. CASE CloseWebSocket("main") /\ Fault /\ UNCHANGED jobs
    <3>1. "main" \in Threads BY DEF Threads
    <3> QED BY <1>3, <2>2, <3>1, CloseType, FaultType DEF ConnectService, TypeOK, config
  <2> QED BY <1>3, <2>1, <2>2 DEF ConnectService
<1>4. CASE SwitchLanguage
  <2>1. "input" \in Threads BY DEF Threads
  <2> QED BY <1>4, <2>1, CloseType, FaultType DEF SwitchLanguage, TypeOK, config
<1>5. CASE RunJob
  <2>1. jobs' \in Seq(BOOLEAN) /\ Len(jobs') <= MaxJobs
    BY <1>5, CloudAssumption DEF RunJob, TypeOK
  <2>2. faults' \in 0 .. MaxFaults
    BY <1>5, FaultType DEF RunJob, CachedAddress, AskForAddress
  <2>3. midway' \in [Threads -> {"idle", "create", "drop"}]
    <3>1. "serial" \in Threads BY DEF Threads
    <3> QED BY <1>5, <3>1, ConnectType DEF RunJob, CachedAddress, AskForAddress, TypeOK
  <2>4. isRequesting' \in BOOLEAN /\ task' \in Numbers \cup {None}
        /\ address' \in BOOLEAN /\ fresh' \in BOOLEAN
    <3>1. CASE CachedAddress BY <3>1 DEF CachedAddress, TypeOK, config
    <3>2. CASE AskForAddress
      <4>1. Request(0) BY <3>2 DEF AskForAddress
      <4>2. task' = task \/ task' = 0 BY <4>1 DEF Request
      <4>3. task' \in Numbers \cup {None} BY <4>2 DEF TypeOK, Numbers
      <4> QED BY <4>1, <4>3 DEF Request, TypeOK
    <3> QED BY <1>5, <3>1, <3>2 DEF RunJob
  <2> QED BY <1>5, <2>1, <2>2, <2>3, <2>4 DEF RunJob, TypeOK, sockets
<1>6. CASE AnswerRequest
  <2>1. faults' \in 0 .. MaxFaults
    BY <1>6, FaultType DEF AnswerRequest, Served, NotServed, NoAnswer, RefusedForNow
  <2>2. midway' \in [Threads -> {"idle", "create", "drop"}]
    <3>1. "main" \in Threads BY DEF Threads
    <3> QED BY <1>6, <3>1, ConnectType
          DEF AnswerRequest, Served, NotServed, NoAnswer, RefusedForNow, TypeOK
  <2>3. delayed' \in [Calls -> Nat]
    <3>1. "retry1" \in Calls /\ "retry2" \in Calls BY DEF Calls
    <3>2. ASSUME NoAnswer PROVE Later("retry1") \/ Later("retry2") \/ UNCHANGED delayed
      BY <3>2 DEF NoAnswer
    <3> QED BY <1>6, <3>1, <3>2, LaterType
          DEF AnswerRequest, Served, NotServed, RefusedForNow, TypeOK
  <2>4. address' \in BOOLEAN /\ fresh' \in BOOLEAN
    BY <1>6 DEF AnswerRequest, Served, NotServed, NoAnswer, RefusedForNow, TypeOK
  <2> QED BY <1>6, <2>1, <2>2, <2>3, <2>4 DEF AnswerRequest, TypeOK, sockets
<1>7. CASE CacheExpires
  BY <1>7 DEF CacheExpires, TypeOK, sockets
<1>8. CASE SocketEnds
  <2>1. own' \in States \cup {"none"} /\ others' \in [States -> Nat]
    <3>1. Live \subseteq States /\ {"failed", "open", "closed", "closing"} \subseteq States
      BY DEF Live, States
    <3> QED BY <1>8, <3>1, MovesType DEF SocketEnds
  <2>2. faults' \in 0 .. MaxFaults BY <1>8, FaultType DEF SocketEnds
  <2> QED BY <1>8, <2>1, <2>2 DEF SocketEnds, TypeOK, config
<1>9. CASE DidOpen
  <2>1. own' \in States \cup {"none"} /\ others' \in [States -> Nat]
    BY <1>9, MovesType DEF DidOpen, States
  <2> QED BY <1>9, <2>1 DEF DidOpen, TypeOK, config
<1>10. CASE DidFailWithError
  <2>1. own' \in States \cup {"none"} /\ others' \in [States -> Nat]
    BY <1>10, MovesType DEF DidFailWithError, States
  <2>2. attempts' \in 0 .. 3
    BY <1>10 DEF DidFailWithError, TypeOK
  <2>3. delayed' \in [Calls -> Nat]
    <3>1. "reconnect" \in Calls /\ "force" \in Calls BY DEF Calls
    <3>2. Later("reconnect") \/ Later("force") \/ UNCHANGED delayed
      BY <1>10 DEF DidFailWithError
    <3> QED BY <3>1, <3>2, LaterType DEF TypeOK
  <2> QED BY <1>10, <2>1, <2>2, <2>3 DEF DidFailWithError, TypeOK, config
<1>11. CASE DidClose
  <2>1. own' \in States \cup {"none"} /\ others' \in [States -> Nat]
    BY <1>11 DEF DidClose, TypeOK, One, States
  <2> QED BY <1>11, <2>1 DEF DidClose, TypeOK, config
<1>12. ASSUME NEW c \in Calls, NEW forced \in BOOLEAN, Reconnect(c, forced) PROVE TypeOK'
  <2>1. own' \in States \cup {"none"} /\ others' \in [States -> Nat]
    BY <1>12, AssignType DEF Reconnect
  <2>2. delayed' \in [Calls -> Nat] BY <1>12, LaterType DEF Reconnect
  <2>3. jobs' \in Seq(BOOLEAN) /\ Len(jobs') <= MaxJobs
    BY <1>12, EnqueueType DEF Reconnect, TypeOK
  <2>4. faults' \in 0 .. MaxFaults BY <1>12, FaultType DEF Reconnect
  <2> QED BY <1>12, <2>1, <2>2, <2>3, <2>4 DEF Reconnect, TypeOK, config
<1>13. ASSUME NEW c \in Calls, NEW n \in Numbers, RetryRequest(c, n) PROVE TypeOK'
  <2>1. delayed' \in [Calls -> Nat] BY <1>13, LaterType DEF RetryRequest
  <2> QED BY <1>13, <2>1 DEF RetryRequest, Request, TypeOK, sockets
<1>14. CASE UNCHANGED vars
  BY <1>14 DEF vars, sockets, config, TypeOK
<1>15. CASE DelayedCall
  <2>1. {"reconnect", "force", "retry1", "retry2"} \subseteq Calls /\ {1, 2} \subseteq Numbers
    BY DEF Calls, Numbers
  <2> QED BY <1>15, <2>1, <1>12, <1>13 DEF DelayedCall
<1> QED BY <1>1, <1>2, <1>3, <1>4, <1>5, <1>6, <1>7, <1>8, <1>9, <1>10, <1>11, <1>14,
     <1>15
        DEF Next, SendWord, KeyboardLoads, Callback, Proceed

\* Every variable stays in its range: the counts of sockets and of delayed calls
\* are never taken below nothing, and no request has a fourth number.
THEOREM TypeCorrect == Spec => []TypeOK
  BY InitType, StepType, PTL DEF Spec

-----------------------------------------------------------------------------
(* The bound.  A connection that is let go, or that two threads make at      *)
(* once, is counted before it is made: what may still be created, and what   *)
(* may still let a connection go, each for two new ones.                    *)

\* Threads that found no connection and will make one.
Tested == One(midway["main"] = "create") + One(midway["serial"] = "create")
Creators == IF Closed THEN 2 ELSE Tested
Drops ==
  One(midway["main"] = "drop") + One(midway["serial"] = "drop")
    + One(midway["input"] = "drop")
\* Sockets that will call back, or may.
Over == {"closing", "failed", "closed"}
Ending == others["closing"] + others["failed"] + others["closed"] + One(own \in Over)
Pending == Drops + Ending + delayed["reconnect"] + delayed["force"]
Potential == LiveSockets + Creators + 2 * Pending

InputMakesNone == midway["input"] # "create"
Bounded == Potential <= 2 + 5 * (MaxFaults - faults)
IInv == TypeOK /\ InputMakesNone /\ Bounded

\* The numbers the potential is made of.
LEMMA Counts ==
  ASSUME TypeOK
  PROVE  /\ \A st \in States : others[st] \in Nat
         /\ delayed["reconnect"] \in Nat /\ delayed["force"] \in Nat
         /\ MaxFaults \in Nat /\ faults \in 0 .. MaxFaults
  BY CloudAssumption DEF TypeOK, Calls

\* Their sums.
LEMMA Sums ==
  ASSUME TypeOK
  PROVE  /\ LiveSockets \in Nat /\ Ending \in Nat /\ Drops \in Nat
         /\ Tested \in 0 .. 2 /\ Creators \in 0 .. 2 /\ Tested <= Creators
  BY Counts DEF LiveSockets, Ending, Drops, Tested, Creators, One, States

\* What the bound compares, in one place for every step.
LEMMA Compare ==
  ASSUME TypeOK, TypeOK', Bounded,
         LiveSockets' + Creators' + 2 * (Drops' + Ending' + delayed'["reconnect"] + delayed'["force"])
           <= LiveSockets + Creators + 2 * (Drops + Ending + delayed["reconnect"] + delayed["force"])
                + 5 * (faults - faults')
  PROVE  Bounded'
<1>1. /\ LiveSockets \in Nat /\ Creators \in Nat /\ Drops \in Nat /\ Ending \in Nat
      /\ delayed["reconnect"] \in Nat /\ delayed["force"] \in Nat
      /\ MaxFaults \in Nat /\ faults \in Nat
  BY Counts, Sums
<1>2. /\ LiveSockets' \in Nat /\ Creators' \in Nat /\ Drops' \in Nat /\ Ending' \in Nat
      /\ delayed'["reconnect"] \in Nat /\ delayed'["force"] \in Nat /\ faults' \in Nat
  <2>1. \A st \in States : others'[st] \in Nat BY DEF TypeOK
  <2>2. LiveSockets' \in Nat /\ Ending' \in Nat
    BY <2>1 DEF LiveSockets, Ending, One, States
  <2>3. Drops' \in Nat /\ Creators' \in Nat
    BY DEF Drops, Tested, Creators, One
  <2>4. delayed'["reconnect"] \in Nat /\ delayed'["force"] \in Nat /\ faults' \in Nat
    BY CloudAssumption DEF TypeOK, Calls
  <2> QED BY <2>2, <2>3, <2>4
<1> QED BY <1>1, <1>2 DEF Bounded, Potential, Pending

\* What an assignment to self.webSocket does to the sums.
LEMMA AssignEffect ==
  ASSUME TypeOK, NEW new \in {"none", "connecting"}, Assign(new)
  PROVE  /\ LiveSockets' = LiveSockets + One(new = "connecting")
         /\ Ending' = Ending
         /\ Closed' <=> new = "none"
<1>1. \A st \in States : others'[st] = others[st] + One(st = own) /\ others[st] \in Nat
  BY Counts DEF Assign
<1>2. own \in States \cup {"none"} /\ own' = new BY DEF TypeOK, Assign
<1>3. Closed' <=> new = "none" BY <1>2 DEF Closed, Live
<1>4. LiveSockets' = LiveSockets + One(new = "connecting")
  BY <1>1, <1>2 DEF LiveSockets, Closed, Live, One, States
<1>5. Ending' = Ending
  BY <1>1, <1>2 DEF Ending, Over, One, States
<1> QED BY <1>3, <1>4, <1>5

\* What a socket that changes its state does to them.
LEMMA MovesEffect ==
  ASSUME TypeOK, NEW from \in States, NEW to \in States \cup {"none"}, from # to,
         Moves(from, to)
  PROVE  /\ LiveSockets' = LiveSockets - One(from \in Live) + One(to \in Live)
         /\ Ending' = Ending - One(from \in Over) + One(to \in Over)
         /\ (from \in Live <=> to \in Live) => (Closed' <=> Closed)
<1>1. \A st \in States : others[st] \in Nat BY Counts
<1>2. CASE own = from /\ own' = to /\ UNCHANGED others
  BY <1>1, <1>2 DEF LiveSockets, Ending, Closed, Live, Over, One, States
<1>3. CASE others[from] > 0 /\ UNCHANGED own
          /\ others' = [st \in States |-> others[st] - One(st = from) + One(st = to)]
  <2>1. \A st \in States : others'[st] = others[st] - One(st = from) + One(st = to)
    BY <1>3
  <2> QED BY <1>1, <1>3, <2>1 DEF LiveSockets, Ending, Closed, Live, Over, One, States
<1> QED BY <1>2, <1>3 DEF Moves

\* A thread finishes what it began, ...
LEMMA IdleEffect ==
  ASSUME TypeOK, InputMakesNone, NEW t \in Threads, midway[t] \in {"create", "drop"},
         midway' = [midway EXCEPT ![t] = "idle"]
  PROVE  /\ Tested' = Tested - One(midway[t] = "create")
         /\ Drops' = Drops - One(midway[t] = "drop")
         /\ InputMakesNone'
  BY DEF TypeOK, InputMakesNone, Tested, Drops, One, Threads

\* ... or begins.
LEMMA CloseEffect ==
  ASSUME TypeOK, InputMakesNone, NEW t \in Threads, midway[t] = "idle", CloseWebSocket(t)
  PROVE  /\ LiveSockets' + Creators' + 2 * (Drops' + Ending')
              <= LiveSockets + Creators + 2 * (Drops + Ending) + 5
         /\ InputMakesNone'
<1>1. Drops' = Drops + 1
  BY DEF TypeOK, InputMakesNone, CloseWebSocket, Drops, One, Threads
<1>2. Creators' \in 0 .. 2 /\ (Closed => Creators' = 2)
  BY DEF CloseWebSocket, Creators, Closed, Tested, One, Live
<1>3. \A st \in States : others'[st] = others[st] /\ others[st] \in Nat
  BY Counts DEF CloseWebSocket
<1>4. InputMakesNone'
  BY DEF TypeOK, InputMakesNone, CloseWebSocket, Threads
<1>5. CASE Closed
  <2>1. own' = own BY <1>5 DEF CloseWebSocket
  <2>2. LiveSockets' = LiveSockets /\ Ending' = Ending
    BY <1>3, <2>1 DEF LiveSockets, Ending, Closed, States
  <2>3. Creators = 2 BY <1>5 DEF Creators
  <2> QED BY <1>1, <1>2, <1>5, <2>2, <2>3, Sums, <1>4
<1>6. CASE ~Closed
  <2>1. own' = "closing" /\ own \in Live BY <1>6 DEF CloseWebSocket, Closed
  <2>2. LiveSockets' = LiveSockets - 1 /\ Ending' = Ending + 1
    BY <1>3, <2>1 DEF LiveSockets, Ending, Closed, Over, Live, One, States
  <2> QED BY <1>1, <1>2, <1>4, <2>2, Sums
<1> QED BY <1>5, <1>6

\* A thread that looks at the connection changes nothing of it.
LEMMA ConnectEffect ==
  ASSUME TypeOK, InputMakesNone, NEW t \in {"main", "serial"}, Connect(t),
         UNCHANGED sockets, midway[t] = "idle"
  PROVE  /\ Creators' = Creators /\ Drops' = Drops /\ InputMakesNone'
         /\ LiveSockets' = LiveSockets /\ Ending' = Ending
  BY DEF TypeOK, InputMakesNone, Connect, sockets, Creators, Closed, Tested, Drops, One,
       Threads, LiveSockets, Ending

\* A close that is reported is over, whosever it was.
LEMMA CloseCounted == ASSUME TypeOK, DidClose PROVE Ending' = Ending - 1
<1>1. \A st \in States : /\ others[st] \in Nat
                         /\ others'[st] = others[st] + One(st = own) - One(st = "closed")
  BY Counts DEF DidClose
<1>2. /\ others'["closing"] = others["closing"] + One(own = "closing")
      /\ others'["failed"] = others["failed"] + One(own = "failed")
      /\ others'["closed"] = others["closed"] + One(own = "closed") - 1
  BY <1>1 DEF One, States
<1>3. One(own' \in Over) = 0 BY DEF DidClose, One, Over
<1>4. One(own = "closing") + One(own = "failed") + One(own = "closed") = One(own \in Over)
  BY SMTT(30) DEF One, Over
<1>5. /\ One(own = "closing") \in Nat /\ One(own = "failed") \in Nat
      /\ One(own = "closed") \in Nat
  BY DEF One
<1>6. Ending' = others'["closing"] + others'["failed"] + others'["closed"] + One(own' \in Over)
  BY DEF Ending
<1>7. Ending = others["closing"] + others["failed"] + others["closed"] + One(own \in Over)
  BY DEF Ending
<1>8. /\ others["closing"] \in Nat /\ others["failed"] \in Nat /\ others["closed"] \in Nat
  BY <1>1 DEF States
<1> QED BY <1>2, <1>3, <1>4, <1>5, <1>6, <1>7, <1>8

\* A sum of natural numbers is one.
LEMMA Added == ASSUME NEW a \in Nat, NEW b \in Nat PROVE a + b \in Nat
  OBVIOUS

\* The same delayed calls on both sides.
LEMMA Shifted ==
  ASSUME NEW a \in Nat, NEW b \in Nat, NEW d \in Nat, NEW e \in Nat,
         NEW r \in Nat, NEW s \in Nat, a + 2 * b <= d + 2 * e + 5
  PROVE  a + 2 * (b + r + s) <= d + 2 * (e + r + s) + 5
  OBVIOUS

\* The bound holds at the start.
LEMMA InitInv == Init => IInv
<1> SUFFICES ASSUME Init PROVE IInv OBVIOUS
<1>1. TypeOK BY InitType
<1>2. \A st \in States : others[st] = 0 BY DEF Init
<1>3. LiveSockets = 0 /\ Ending = 0
  BY <1>2 DEF Init, LiveSockets, Ending, Closed, Live, Over, One, States
<1>4. Drops = 0 BY DEF Init, Drops, One, Threads
<1>5. delayed["reconnect"] = 0 /\ delayed["force"] = 0 BY DEF Init, Calls
<1>6. Creators = 2 BY DEF Init, Creators, Closed, Live
<1>7. Bounded
  BY <1>3, <1>4, <1>5, <1>6, CloudAssumption DEF Init, Bounded, Potential, Pending
<1> QED BY <1>1, <1>7 DEF Init, IInv, InputMakesNone, Threads

\* Every step keeps the bound.
LEMMA StepInv == IInv /\ [Next]_vars => IInv'
<1> SUFFICES ASSUME IInv, [Next]_vars PROVE IInv' OBVIOUS
<1>1. TypeOK /\ InputMakesNone /\ Bounded /\ TypeOK' BY StepType DEF IInv
<1>2. /\ LiveSockets \in Nat /\ Ending \in Nat /\ Drops \in Nat
      /\ Tested \in 0 .. 2 /\ Creators \in 0 .. 2 /\ Tested <= Creators
  BY <1>1, Sums
<1>3. delayed["reconnect"] \in Nat /\ delayed["force"] \in Nat /\ faults \in Nat
  BY <1>1, Counts
<1> SUFFICES InputMakesNone' /\ Bounded' BY <1>1 DEF IInv
\* Steps that leave alone all the bound is made of.
<1>4. ASSUME UNCHANGED <<own, others, midway>>, faults' <= faults, faults' \in Nat,
             delayed'["reconnect"] = delayed["reconnect"], delayed'["force"] = delayed["force"]
      PROVE InputMakesNone' /\ Bounded'
  <2>1. LiveSockets' = LiveSockets /\ Ending' = Ending /\ Drops' = Drops /\ Creators' = Creators
    BY <1>4 DEF LiveSockets, Ending, Drops, Creators, Tested, Closed
  <2>2. Bounded' BY <1>1, <1>2, <1>3, <1>4, <2>1, Compare
  <2> QED BY <1>1, <1>4, <2>2 DEF InputMakesNone
<1>5. ASSUME NEW t \in Threads, Create(t) PROVE InputMakesNone' /\ Bounded'
  <2>1. /\ midway[t] = "create" /\ midway' = [midway EXCEPT ![t] = "idle"]
        /\ delayed' = delayed /\ faults' = faults
    BY <1>5 DEF Create
  <2>2. Tested' = Tested - 1 /\ Drops' = Drops /\ InputMakesNone'
    <3>1. One(midway[t] = "create") = 1 /\ One(midway[t] = "drop") = 0
      BY <2>1 DEF One
    <3>2. /\ Tested' = Tested - One(midway[t] = "create")
          /\ Drops' = Drops - One(midway[t] = "drop") /\ InputMakesNone'
      BY <1>1, <2>1, IdleEffect
    <3> QED BY <1>2, <3>1, <3>2
  <2>3. CASE address
    <3>1. Assign("connecting") BY <1>5, <2>3 DEF Create
    <3>2. LiveSockets' = LiveSockets + 1 /\ Ending' = Ending /\ ~Closed'
      BY <1>1, <3>1, AssignEffect DEF One
    <3>3. Creators' = Tested' BY <3>2 DEF Creators
    <3> QED BY <1>1, <1>2, <1>3, <2>1, <2>2, <3>2, <3>3, Compare
  <2>4. CASE ~address
    <3>1. own' = own /\ others' = others BY <1>5, <2>4 DEF Create, sockets
    <3>2. LiveSockets' = LiveSockets /\ Ending' = Ending /\ (Closed' <=> Closed)
      BY <3>1 DEF LiveSockets, Ending, Closed
    <3>3. Creators' <= Creators /\ Creators' \in 0 .. 2
      BY <1>2, <2>2, <3>2 DEF Creators, Tested, One
    <3> QED BY <1>1, <1>2, <1>3, <2>1, <2>2, <3>2, <3>3, Compare
  <2> QED BY <2>3, <2>4
<1>6. ASSUME NEW t \in Threads, Drop(t) PROVE InputMakesNone' /\ Bounded'
  <2>1. /\ midway[t] = "drop" /\ midway' = [midway EXCEPT ![t] = "idle"]
        /\ delayed' = delayed /\ faults' = faults /\ Assign("none")
    BY <1>6 DEF Drop
  <2>2. Drops' = Drops - 1 /\ InputMakesNone'
    BY <1>1, <1>2, <2>1, IdleEffect DEF One
  <2>3. LiveSockets' = LiveSockets /\ Ending' = Ending /\ Closed'
    BY <1>1, <1>2, <2>1, AssignEffect DEF One
  <2>4. Creators' = 2 BY <2>3 DEF Creators
  <2> QED BY <1>1, <1>2, <1>3, <2>1, <2>2, <2>3, <2>4, Compare
<1>7. ASSUME NEW t \in Threads, CloseWebSocket(t), midway[t] = "idle", Fault,
             UNCHANGED delayed
      PROVE InputMakesNone' /\ Bounded'
  <2>1. /\ LiveSockets' + Creators' + 2 * (Drops' + Ending')
             <= LiveSockets + Creators + 2 * (Drops + Ending) + 5
        /\ InputMakesNone'
    BY <1>1, <1>7, CloseEffect
  <2>2. faults' \in Nat /\ faults' = faults - 1
    BY <1>1, <1>3, <1>7 DEF Fault, TypeOK
  <2>3. /\ LiveSockets' \in Nat /\ Creators' \in Nat /\ Drops' \in Nat /\ Ending' \in Nat
    <3>1. \A st \in States : others'[st] \in Nat BY <1>1 DEF TypeOK
    <3> QED BY <3>1 DEF LiveSockets, Ending, Drops, Creators, Tested, One, States
  <2>4. LiveSockets' + Creators' + 2 * (Drops' + Ending' + delayed'["reconnect"] + delayed'["force"])
          <= LiveSockets + Creators + 2 * (Drops + Ending + delayed["reconnect"] + delayed["force"])
               + 5 * (faults - faults')
    <3>1. delayed' = delayed BY <1>7
    <3>2. 5 * (faults - faults') = 5 BY <1>3, <2>2
    <3>3. /\ delayed'["reconnect"] = delayed["reconnect"]
          /\ delayed'["force"] = delayed["force"]
      BY <3>1
    <3>4. delayed["reconnect"] \in Nat /\ delayed["force"] \in Nat BY <1>3
    <3>5. LiveSockets' + Creators' + 2 * (Drops' + Ending' + delayed'["reconnect"] + delayed'["force"])
            <= LiveSockets + Creators + 2 * (Drops + Ending + delayed["reconnect"] + delayed["force"])
                 + 5
      <4>1. LiveSockets' + Creators' \in Nat /\ Drops' + Ending' \in Nat
        BY <2>3, Added
      <4>2. LiveSockets + Creators \in Nat /\ Drops + Ending \in Nat BY <1>2
      <4> QED BY <2>1, <3>3, <3>4, <4>1, <4>2, Shifted
    <3> QED BY <3>2, <3>5
  <2> QED BY <1>1, <2>1, <2>4, Compare
<1>8. CASE ConnectService
  <2>1. midway["main"] = "idle" /\ UNCHANGED delayed /\ "main" \in Threads
    BY <1>8 DEF ConnectService, Main, Threads
  <2>2. CASE Enqueue(FALSE) /\ Fine /\ UNCHANGED <<sockets, midway>>
    BY <1>3, <1>4, <2>1, <2>2 DEF Fine, sockets
  <2>3. CASE CloseWebSocket("main") /\ Fault
    BY <1>7, <2>1, <2>3
  <2> QED BY <1>8, <2>2, <2>3 DEF ConnectService
<1>9. CASE SwitchLanguage
  BY <1>7, <1>9 DEF SwitchLanguage, Threads
<1>10. CASE RunJob
  <2>1. /\ UNCHANGED sockets /\ UNCHANGED delayed /\ midway["serial"] = "idle"
        /\ faults' \in Nat /\ faults' <= faults
        /\ UNCHANGED midway \/ (Connect("serial") /\ Fine)
    <3>1. /\ UNCHANGED sockets /\ UNCHANGED delayed /\ midway["serial"] = "idle"
          /\ CachedAddress \/ AskForAddress
      BY <1>10 DEF RunJob
    <3>2. ASSUME CachedAddress
          PROVE  (Fine \/ Fault) /\ (UNCHANGED midway \/ (Connect("serial") /\ Fine))
      BY <3>2 DEF CachedAddress
    <3>3. ASSUME AskForAddress PROVE Fine /\ UNCHANGED midway
      BY <3>3 DEF AskForAddress
    <3>4. ASSUME Fine \/ Fault PROVE faults' \in Nat /\ faults' <= faults
      BY <1>3, <3>4 DEF Fine, Fault
    <3> QED BY <3>1, <3>2, <3>3, <3>4
  <2>2. CASE UNCHANGED midway BY <1>4, <2>1, <2>2 DEF sockets
  <2>3. CASE Connect("serial") /\ Fine
    <3>1. /\ Creators' = Creators /\ Drops' = Drops /\ InputMakesNone'
          /\ LiveSockets' = LiveSockets /\ Ending' = Ending
      BY <1>1, <2>1, <2>3, ConnectEffect DEF Threads
    <3> QED BY <1>1, <1>2, <1>3, <2>1, <2>3, <3>1, Compare DEF Fine
  <2> QED BY <2>1, <2>2, <2>3
<1>11. CASE AnswerRequest
  <2>1. /\ UNCHANGED sockets /\ midway["main"] = "idle"
        /\ faults' \in Nat /\ faults' <= faults
        /\ UNCHANGED midway \/ (Connect("main") /\ Fine)
    <3>1. /\ UNCHANGED sockets /\ midway["main"] = "idle"
          /\ Served \/ NotServed \/ NoAnswer \/ RefusedForNow
      BY <1>11 DEF AnswerRequest, Main
    <3>2. ASSUME Served PROVE Fine /\ Connect("main")
      BY <3>2 DEF Served
    <3>3. ASSUME NotServed \/ NoAnswer \/ RefusedForNow PROVE Fault /\ UNCHANGED midway
      BY <3>3 DEF NotServed, NoAnswer, RefusedForNow
    <3>4. ASSUME Fine \/ Fault PROVE faults' \in Nat /\ faults' <= faults
      BY <1>3, <3>4 DEF Fine, Fault
    <3> QED BY <3>1, <3>2, <3>3, <3>4
  <2>2. delayed'["reconnect"] = delayed["reconnect"] /\ delayed'["force"] = delayed["force"]
    <3>1. \/ UNCHANGED delayed \/ Later("retry1") \/ Later("retry2")
      BY <1>11 DEF AnswerRequest, Served, NotServed, NoAnswer, RefusedForNow
    <3> QED BY <1>1, <3>1 DEF Later, TypeOK, Calls
  <2>3. CASE UNCHANGED midway BY <1>4, <2>1, <2>2, <2>3 DEF sockets
  <2>4. CASE Connect("main") /\ Fine
    <3>1. /\ Creators' = Creators /\ Drops' = Drops /\ InputMakesNone'
          /\ LiveSockets' = LiveSockets /\ Ending' = Ending
      BY <1>1, <2>1, <2>4, ConnectEffect DEF Threads
    <3> QED BY <1>1, <1>2, <1>3, <2>1, <2>2, <2>4, <3>1, Compare DEF Fine
  <2> QED BY <2>1, <2>3, <2>4
<1>12. CASE CacheExpires
  BY <1>3, <1>4, <1>12 DEF CacheExpires, sockets
\* A socket, of self.webSocket or not, goes from a state to the next.
<1>13. ASSUME NEW from \in States, NEW to \in States \cup {"none"}, from # to,
              Moves(from, to), UNCHANGED <<midway, delayed>>
       PROVE  /\ LiveSockets' = LiveSockets - One(from \in Live) + One(to \in Live)
              /\ Ending' = Ending - One(from \in Over) + One(to \in Over)
              /\ Drops' = Drops /\ Creators' \in 0 .. 2 /\ InputMakesNone'
              /\ (from \in Live <=> to \in Live) => Creators' = Creators
  <2>1. /\ LiveSockets' = LiveSockets - One(from \in Live) + One(to \in Live)
        /\ Ending' = Ending - One(from \in Over) + One(to \in Over)
        /\ (from \in Live <=> to \in Live) => (Closed' <=> Closed)
    BY <1>1, <1>13, MovesEffect
  <2>2. Drops' = Drops /\ Tested' = Tested /\ InputMakesNone'
    BY <1>1, <1>13 DEF Drops, Tested, InputMakesNone
  <2>3. Creators' \in 0 .. 2 BY <1>2, <2>2 DEF Creators
  <2> QED BY <2>1, <2>2, <2>3 DEF Creators
<1>14. CASE SocketEnds
  <2>1. UNCHANGED <<midway, delayed>> BY <1>14 DEF SocketEnds
  <2>2. ASSUME NEW st \in Live, NEW end \in {"failed", "closed"}, Moves(st, end), Fault
        PROVE InputMakesNone' /\ Bounded'
    <3>1. /\ LiveSockets' = LiveSockets - 1 /\ Ending' = Ending + 1 /\ Drops' = Drops
          /\ Creators' \in 0 .. 2 /\ InputMakesNone'
      BY <1>2, <1>13, <2>1, <2>2 DEF One, Live, Over, States
    <3> QED BY <1>1, <1>2, <1>3, <2>1, <2>2, <3>1, Compare DEF Fault
  <2>3. ASSUME NEW end \in {"closed", "none"}, Moves("closing", end), Fine
        PROVE InputMakesNone' /\ Bounded'
    <3>1. /\ LiveSockets' = LiveSockets /\ Ending' \in {Ending, Ending - 1} /\ Drops' = Drops
          /\ Creators' = Creators /\ InputMakesNone'
      BY <1>2, <1>13, <2>1, <2>3 DEF One, Live, Over, States
    <3> QED BY <1>1, <1>2, <1>3, <2>1, <2>3, <3>1, Compare DEF Fine
  <2>4. "open" \in Live BY DEF Live
  <2> QED BY <1>14, <2>2, <2>3, <2>4 DEF SocketEnds
<1>15. CASE DidOpen
  <2>1. Moves("connecting", "open") /\ UNCHANGED <<midway, delayed, faults>>
    BY <1>15 DEF DidOpen
  <2>2. /\ LiveSockets' = LiveSockets /\ Ending' = Ending /\ Drops' = Drops
        /\ Creators' = Creators /\ InputMakesNone'
    BY <1>2, <1>13, <2>1 DEF One, Live, Over, States
  <2> QED BY <1>1, <1>2, <1>3, <2>1, <2>2, Compare
<1>16. CASE DidFailWithError
  <2>1. Moves("failed", "none") /\ UNCHANGED <<midway, faults>>
    BY <1>16 DEF DidFailWithError
  <2>2. LiveSockets' = LiveSockets /\ Ending' = Ending - 1 /\ (Closed' <=> Closed)
    BY <1>1, <1>2, <2>1, MovesEffect DEF One, Live, Over, States
  <2>3. Drops' = Drops /\ Creators' = Creators /\ InputMakesNone'
    BY <1>1, <2>1, <2>2 DEF Drops, Creators, Tested, InputMakesNone
  <2>4. /\ delayed'["reconnect"] \in Nat /\ delayed'["force"] \in Nat
        /\ delayed'["reconnect"] + delayed'["force"]
             <= delayed["reconnect"] + delayed["force"] + 1
    <3>1. Later("reconnect") \/ Later("force") \/ UNCHANGED delayed
      BY <1>16 DEF DidFailWithError
    <3> QED BY <1>1, <1>3, <3>1 DEF Later, TypeOK, Calls
  <2> QED BY <1>1, <1>2, <1>3, <2>1, <2>2, <2>3, <2>4, Compare
<1>17. CASE DidClose
  <2>1. /\ own = "closed" \/ others["closed"] > 0
        /\ own' = "none" /\ UNCHANGED <<midway, delayed, faults>>
    BY <1>17 DEF DidClose
  <2>2. \A st \in States : /\ others[st] \in Nat
                           /\ others'[st] = others[st] + One(st = own) - One(st = "closed")
    BY <1>1, <1>17, Counts DEF DidClose
  <2>3. LiveSockets' = LiveSockets
    <3>1. /\ others'["connecting"] = others["connecting"] + One(own = "connecting")
          /\ others'["open"] = others["open"] + One(own = "open")
      BY <2>2 DEF One, States
    <3>2. Closed' BY <2>1 DEF Closed, Live
    <3>3. One(own = "connecting") + One(own = "open") = One(~Closed)
      BY DEF One, Closed, Live
    <3> QED BY <2>2, <3>1, <3>2, <3>3 DEF LiveSockets, One, States
  <2>4. Ending' = Ending - 1 BY <1>1, <1>17, CloseCounted
  <2>5. Drops' = Drops /\ Creators' \in 0 .. 2 /\ InputMakesNone'
    BY <1>1, <1>2, <2>1 DEF Drops, Creators, Tested, InputMakesNone
  <2> QED BY <1>1, <1>2, <1>3, <2>1, <2>3, <2>4, <2>5, Compare
<1>18. ASSUME NEW c \in {"reconnect", "force"}, NEW forced \in BOOLEAN, Reconnect(c, forced)
       PROVE InputMakesNone' /\ Bounded'
  <2>1. Once(c) /\ Assign("none") /\ UNCHANGED midway
    BY <1>18 DEF Reconnect
  <2>2. LiveSockets' = LiveSockets /\ Ending' = Ending
    BY <1>1, <1>2, <2>1, AssignEffect DEF One
  <2>3. Drops' = Drops /\ Creators' \in 0 .. 2 /\ InputMakesNone'
    BY <1>1, <1>2, <2>1 DEF Drops, Creators, Tested, InputMakesNone
  <2>4. /\ delayed'["reconnect"] \in Nat /\ delayed'["force"] \in Nat
        /\ delayed'["reconnect"] + delayed'["force"]
             = delayed["reconnect"] + delayed["force"] - 1
    BY <1>1, <1>3, <2>1 DEF Once, TypeOK, Calls
  <2>5. faults' \in Nat /\ faults' <= faults
    BY <1>3, <1>18 DEF Reconnect, Fine, Fault
  <2> QED BY <1>1, <1>2, <1>3, <2>2, <2>3, <2>4, <2>5, Compare
<1>19. ASSUME NEW c \in {"retry1", "retry2"}, NEW n \in Numbers, RetryRequest(c, n)
       PROVE InputMakesNone' /\ Bounded'
  <2>1. delayed'["reconnect"] = delayed["reconnect"] /\ delayed'["force"] = delayed["force"]
    BY <1>1, <1>19 DEF RetryRequest, Once, TypeOK, Calls
  <2> QED BY <1>3, <1>4, <1>19, <2>1 DEF RetryRequest, sockets
<1>20. CASE DelayedCall
  <2>1. 1 \in Numbers /\ 2 \in Numbers BY DEF Numbers
  <2>2. CASE Reconnect("reconnect", FALSE) BY <1>18, <2>2
  <2>3. CASE Reconnect("force", TRUE) BY <1>18, <2>3
  <2>4. CASE RetryRequest("retry1", 1) BY <1>19, <2>1, <2>4
  <2>5. CASE RetryRequest("retry2", 2) BY <1>19, <2>1, <2>5
  <2> QED BY <1>20, <2>2, <2>3, <2>4, <2>5 DEF DelayedCall
<1>21. CASE UNCHANGED vars
  BY <1>3, <1>4, <1>21 DEF vars, sockets
<1> QED BY <1>5, <1>6, <1>8, <1>9, <1>10, <1>11, <1>12, <1>14, <1>15, <1>16, <1>17,
     <1>20, <1>21
        DEF Next, SendWord, KeyboardLoads, Callback, Proceed

\* The bound of the potential bounds the connections.
LEMMA BoundImplied == IInv => ConnectionsBounded
<1> SUFFICES ASSUME IInv PROVE ConnectionsBounded OBVIOUS
<1>1. TypeOK /\ Bounded BY DEF IInv
<1> QED BY <1>1, Sums, Counts DEF Bounded, Potential, Pending, ConnectionsBounded

\* The connections that live at once are bounded by what went wrong, whatever the
\* threads, timers and callbacks interleave, and however often it goes wrong.
THEOREM ConnectionsAlwaysBounded == Spec => []ConnectionsBounded
  BY InitInv, StepInv, BoundImplied, PTL DEF Spec

-----------------------------------------------------------------------------
(* What closing and failing sockets, delayed reconnects and half-done closes *)
(* still have in store wears off: only a fault adds to it, and with nothing  *)
(* left an open connection stays.  It is what the recovery rests on.         *)

\* A step adds to what is in store two for a fault, and nothing else does.
PendingWearsOff == [][Pending' <= Pending + 2 * (faults - faults')]_vars

\* The connection is up, and nobody is about to assign another.
Steady == own = "open" /\ Pending = 0 /\ Tested = 0
\* Without a fault it stays so.
SteadyStays == [][Steady /\ faults' = faults => Steady']_vars

\* The sums are natural numbers after a step as well.
LEMMA SumsNext ==
  ASSUME TypeOK'
  PROVE  /\ Drops' \in Nat /\ Ending' \in Nat /\ Pending' \in Nat
         /\ delayed'["reconnect"] \in Nat /\ delayed'["force"] \in Nat /\ faults' \in Nat
<1>1. \A st \in States : others'[st] \in Nat BY DEF TypeOK
<1>2. Ending' \in Nat BY <1>1 DEF Ending, One, States
<1>3. Drops' \in Nat BY DEF Drops, One
<1>4. delayed'["reconnect"] \in Nat /\ delayed'["force"] \in Nat
  BY DEF TypeOK, Calls
<1>5. faults' \in Nat BY CloudAssumption DEF TypeOK
<1> QED BY <1>2, <1>3, <1>4, <1>5 DEF Pending

\* What a step with a fault, and one without, may add.
LEMMA Twice ==
  ASSUME NEW f \in Nat, NEW g \in Nat
  PROVE  /\ 2 * (f - g) \in Int
         /\ g = f => 2 * (f - g) = 0
         /\ g = f - 1 => 2 * (f - g) = 2
         /\ g <= f => 2 * (f - g) >= 0
  OBVIOUS

\* What the claim compares, in one place for every step.
LEMMA ComparePending ==
  ASSUME TypeOK, TypeOK',
         Drops' + Ending' <= Drops + Ending + 2 * (faults - faults'),
         delayed'["reconnect"] = delayed["reconnect"], delayed'["force"] = delayed["force"]
  PROVE  Pending' <= Pending + 2 * (faults - faults')
<1>1. /\ Drops \in Nat /\ Ending \in Nat /\ faults \in Nat
      /\ delayed["reconnect"] \in Nat /\ delayed["force"] \in Nat
  BY Counts, Sums
<1>2. Drops' \in Nat /\ Ending' \in Nat /\ faults' \in Nat BY SumsNext
<1>3. 2 * (faults - faults') \in Int BY <1>1, <1>2
<1>4. PICK a \in Nat, b \in Nat, d \in Nat, e \in Nat, r \in Nat, s \in Nat, k \in Int :
        /\ a = Drops' /\ b = Ending' /\ d = Drops /\ e = Ending
        /\ r = delayed["reconnect"] /\ s = delayed["force"] /\ k = 2 * (faults - faults')
  BY <1>1, <1>2, <1>3, Zenon
<1>5. a + b <= d + e + k BY <1>4, Zenon
<1>6. a + b + r + s <= d + e + r + s + k BY <1>5
<1>7. /\ Pending' = a + b + r + s /\ Pending = d + e + r + s
      /\ 2 * (faults - faults') = k
  BY <1>4, Zenon DEF Pending
<1> QED BY <1>6, <1>7, Zenon

\* Every step adds no more than its fault allows.
LEMMA PendingStep ==
  IInv /\ [Next]_vars => Pending' <= Pending + 2 * (faults - faults')
<1> SUFFICES ASSUME IInv, [Next]_vars PROVE Pending' <= Pending + 2 * (faults - faults')
  OBVIOUS
<1>1. TypeOK /\ InputMakesNone /\ TypeOK' BY StepType DEF IInv
<1>2. /\ Ending \in Nat /\ Drops \in Nat
      /\ delayed["reconnect"] \in Nat /\ delayed["force"] \in Nat /\ faults \in Nat
  BY <1>1, Sums, Counts
<1>3. faults' \in Nat /\ Drops' \in Nat /\ Ending' \in Nat BY <1>1, SumsNext
\* Steps that add nothing.
<1>4. ASSUME Ending' = Ending, Drops' <= Drops, Drops' \in Nat, faults' <= faults,
             delayed'["reconnect"] = delayed["reconnect"], delayed'["force"] = delayed["force"]
      PROVE Pending' <= Pending + 2 * (faults - faults')
  <2>1. 2 * (faults - faults') \in Int /\ 2 * (faults - faults') >= 0
    BY <1>2, <1>3, <1>4, Twice
  <2>2. Drops' + Ending' <= Drops + Ending + 2 * (faults - faults')
    <3>1. PICK a \in Nat, b \in Nat, d \in Nat, k \in Int :
            a = Drops' /\ b = Ending /\ d = Drops /\ k = 2 * (faults - faults')
      BY <1>2, <1>4, <2>1, Zenon
    <3>2. a <= d /\ k >= 0 BY <1>4, <2>1, <3>1, Zenon
    <3>3. a + b <= d + b + k BY <3>2
    <3> QED BY <1>4, <3>1, <3>3, Zenon
  <2> QED BY <1>1, <1>4, <2>2, ComparePending
<1>5. ASSUME UNCHANGED sockets, UNCHANGED Drops, faults' <= faults,
             delayed'["reconnect"] = delayed["reconnect"], delayed'["force"] = delayed["force"]
      PROVE Pending' <= Pending + 2 * (faults - faults')
  <2>1. Ending' = Ending BY <1>5 DEF Ending, sockets
  <2> QED BY <1>2, <1>4, <1>5, <2>1
<1>6. ASSUME Fine \/ Fault PROVE faults' <= faults
  BY <1>2, <1>6 DEF Fine, Fault
<1>7. ASSUME NEW t \in Threads, Proceed(t)
      PROVE  Pending' <= Pending + 2 * (faults - faults')
  <2>1. midway[t] \in {"create", "drop"} /\ midway' = [midway EXCEPT ![t] = "idle"]
        /\ delayed' = delayed /\ faults' = faults
    BY <1>7 DEF Proceed, Create, Drop
  <2>2. Drops' = Drops - One(midway[t] = "drop") BY <1>1, <2>1, IdleEffect
  <2>3. Drops' <= Drops /\ Drops' \in Nat
    BY <1>1, <1>2, <2>2 DEF One, Drops
  <2>4. Ending' = Ending
    <3>1. ASSUME UNCHANGED sockets PROVE Ending' = Ending BY <3>1 DEF Ending, sockets
    <3> QED BY <1>1, <1>7, <3>1, AssignEffect DEF Proceed, Create, Drop
  <2> QED BY <1>2, <1>4, <2>1, <2>3, <2>4
<1>8. ASSUME NEW t \in Threads, CloseWebSocket(t), midway[t] = "idle", Fault,
             UNCHANGED delayed
      PROVE  Pending' <= Pending + 2 * (faults - faults')
  <2>1. Drops' = Drops + 1
    BY <1>1, <1>8 DEF TypeOK, InputMakesNone, CloseWebSocket, Drops, One, Threads
  <2>2. Ending' <= Ending + 1 /\ Ending' \in Nat
    <3>1. \A st \in States : others'[st] = others[st] /\ others[st] \in Nat
      BY <1>1, <1>8, Counts DEF CloseWebSocket
    <3>2. own' = own \/ own' = "closing" BY <1>8 DEF CloseWebSocket
    <3> QED BY <3>1, <3>2 DEF Ending, One, States, Over
  <2>3. 2 * (faults - faults') = 2
    <3>1. faults' = faults - 1 BY <1>8 DEF Fault
    <3> QED BY <1>2, <1>3, <3>1, Twice
  <2>4. Drops' + Ending' <= Drops + Ending + 2 * (faults - faults')
    BY <1>2, <2>1, <2>2, <2>3
  <2> QED BY <1>1, <1>8, <2>4, ComparePending
<1>9. CASE ConnectService
  <2>1. CASE Enqueue(FALSE) /\ Fine /\ UNCHANGED <<sockets, midway>>
    BY <1>5, <1>6, <1>9, <2>1 DEF ConnectService, Drops
  <2>2. CASE CloseWebSocket("main") /\ Fault
    BY <1>8, <1>9, <2>2 DEF ConnectService, Main, Threads
  <2> QED BY <1>9, <2>1, <2>2 DEF ConnectService
<1>10. CASE SwitchLanguage
  BY <1>8, <1>10 DEF SwitchLanguage, Threads
<1>11. ASSUME NEW t \in {"main", "serial"}, Connect(t), UNCHANGED sockets,
              midway[t] = "idle"
       PROVE  Drops' = Drops
  BY <1>1, <1>11, ConnectEffect
<1>12. CASE RunJob
  <2>1. UNCHANGED <<sockets, delayed>> /\ midway["serial"] = "idle"
    BY <1>12 DEF RunJob
  <2>2. (Fine \/ Fault) /\ (UNCHANGED midway \/ Connect("serial"))
    BY <1>12 DEF RunJob, CachedAddress, AskForAddress
  <2>3. Drops' = Drops
    <3>1. CASE UNCHANGED midway BY <3>1 DEF Drops
    <3> QED BY <1>11, <2>1, <2>2, <3>1
  <2> QED BY <1>5, <1>6, <2>1, <2>2, <2>3
<1>13. CASE AnswerRequest
  <2>1. UNCHANGED sockets /\ midway["main"] = "idle"
    BY <1>13 DEF AnswerRequest, Main
  <2>2. (Fine \/ Fault) /\ (UNCHANGED midway \/ Connect("main"))
    BY <1>13 DEF AnswerRequest, Served, NotServed, NoAnswer, RefusedForNow
  <2>3. Drops' = Drops
    <3>1. CASE UNCHANGED midway BY <3>1 DEF Drops
    <3> QED BY <1>11, <2>1, <2>2, <3>1
  <2>4. delayed'["reconnect"] = delayed["reconnect"] /\ delayed'["force"] = delayed["force"]
    <3>1. UNCHANGED delayed \/ Later("retry1") \/ Later("retry2")
      BY <1>13 DEF AnswerRequest, Served, NotServed, NoAnswer, RefusedForNow
    <3> QED BY <1>1, <3>1 DEF Later, TypeOK, Calls
  <2> QED BY <1>5, <1>6, <2>1, <2>2, <2>3, <2>4
<1>14. CASE CacheExpires
  BY <1>2, <1>5, <1>14 DEF CacheExpires, Drops
<1>15. ASSUME NEW from \in States, NEW to \in States \cup {"none"}, from # to,
              Moves(from, to), UNCHANGED midway
       PROVE  Ending' = Ending - One(from \in Over) + One(to \in Over) /\ Drops' = Drops
  BY <1>1, <1>15, MovesEffect DEF Drops
<1>16. CASE SocketEnds
  <2>1. UNCHANGED <<midway, delayed>> BY <1>16 DEF SocketEnds
  <2>2. ASSUME NEW st \in Live, NEW end \in {"failed", "closed"}, Moves(st, end), Fault
        PROVE Pending' <= Pending + 2 * (faults - faults')
    <3>1. Ending' = Ending + 1 /\ Drops' = Drops
      BY <1>2, <1>15, <2>1, <2>2 DEF One, Live, Over, States
    <3>2. Drops' + Ending' <= Drops + Ending + 2 * (faults - faults')
      BY <1>2, <2>2, <3>1 DEF Fault
    <3> QED BY <1>1, <2>1, <3>2, ComparePending
  <2>3. ASSUME NEW end \in {"closed", "none"}, Moves("closing", end), Fine
        PROVE Pending' <= Pending + 2 * (faults - faults')
    <3>1. Ending' \in {Ending, Ending - 1} /\ Drops' = Drops
      BY <1>2, <1>15, <2>1, <2>3 DEF One, Live, Over, States
    <3>2. Drops' + Ending' <= Drops + Ending + 2 * (faults - faults')
      <4>1. 2 * (faults - faults') = 0 BY <1>2, <1>3, <2>3, Twice DEF Fine
      <4> QED BY <1>2, <3>1, <4>1
    <3> QED BY <1>1, <2>1, <3>2, ComparePending
  <2>4. "open" \in Live BY DEF Live
  <2> QED BY <1>16, <2>2, <2>3, <2>4 DEF SocketEnds
<1>17. CASE DidOpen
  <2>1. Ending' = Ending /\ Drops' = Drops
    BY <1>2, <1>15, <1>17 DEF DidOpen, One, Over, States
  <2> QED BY <1>2, <1>4, <1>17, <2>1 DEF DidOpen
<1>18. CASE DidFailWithError
  <2>1. Ending' = Ending - 1 /\ Drops' = Drops
    BY <1>2, <1>15, <1>18 DEF DidFailWithError, One, Over, States
  <2>2. /\ delayed'["reconnect"] \in Nat /\ delayed'["force"] \in Nat
        /\ delayed'["reconnect"] + delayed'["force"]
             <= delayed["reconnect"] + delayed["force"] + 1
    <3>1. Later("reconnect") \/ Later("force") \/ UNCHANGED delayed
      BY <1>18 DEF DidFailWithError
    <3> QED BY <1>1, <1>2, <3>1 DEF Later, TypeOK, Calls
  <2>3. faults' = faults BY <1>18 DEF DidFailWithError
  <2> QED BY <1>2, <2>1, <2>2, <2>3 DEF Pending
<1>19. CASE DidClose
  <2>1. UNCHANGED <<midway, delayed, faults>> BY <1>19 DEF DidClose
  <2>2. Ending' = Ending - 1 BY <1>1, <1>19, CloseCounted
  <2>3. Drops' = Drops BY <2>1 DEF Drops
  <2> QED BY <1>2, <2>1, <2>2, <2>3 DEF Pending
<1>20. ASSUME NEW c \in {"reconnect", "force"}, NEW forced \in BOOLEAN, Reconnect(c, forced)
       PROVE  Pending' <= Pending + 2 * (faults - faults')
  <2>1. Ending' = Ending /\ Drops' = Drops
    BY <1>1, <1>20, AssignEffect DEF Reconnect, Drops
  <2>2. /\ delayed'["reconnect"] \in Nat /\ delayed'["force"] \in Nat
        /\ delayed'["reconnect"] + delayed'["force"]
             = delayed["reconnect"] + delayed["force"] - 1
    BY <1>1, <1>2, <1>20 DEF Reconnect, Once, TypeOK, Calls
  <2>3. faults' <= faults BY <1>6, <1>20 DEF Reconnect
  <2> QED BY <1>2, <1>3, <2>1, <2>2, <2>3 DEF Pending
<1>21. ASSUME NEW c \in {"retry1", "retry2"}, NEW n \in Numbers, RetryRequest(c, n)
       PROVE  Pending' <= Pending + 2 * (faults - faults')
  <2>1. delayed'["reconnect"] = delayed["reconnect"] /\ delayed'["force"] = delayed["force"]
    BY <1>1, <1>21 DEF RetryRequest, Once, TypeOK, Calls
  <2> QED BY <1>2, <1>5, <1>21, <2>1 DEF RetryRequest, Drops
<1>22. CASE DelayedCall
  <2>1. 1 \in Numbers /\ 2 \in Numbers BY DEF Numbers
  <2>2. CASE Reconnect("reconnect", FALSE) BY <1>20, <2>2
  <2>3. CASE Reconnect("force", TRUE) BY <1>20, <2>3
  <2>4. CASE RetryRequest("retry1", 1) BY <1>21, <2>1, <2>4
  <2>5. CASE RetryRequest("retry2", 2) BY <1>21, <2>1, <2>5
  <2> QED BY <1>22, <2>2, <2>3, <2>4, <2>5 DEF DelayedCall
<1>23. CASE UNCHANGED vars
  BY <1>2, <1>5, <1>23 DEF vars, Drops
<1> QED BY <1>7, <1>9, <1>10, <1>12, <1>13, <1>14, <1>16, <1>17, <1>18, <1>19, <1>22,
     <1>23
        DEF Next, SendWord, KeyboardLoads, Callback

\* What a failure leaves to be done is done once: no callback, delayed call or
\* thread makes more of it than there was, unless something else goes wrong.
THEOREM StoreWearsOff == Spec => PendingWearsOff
<1>1. IInv /\ [Next]_vars => [Pending' <= Pending + 2 * (faults - faults')]_vars
  BY PendingStep
<1> QED BY <1>1, InitInv, StepInv, PTL DEF Spec, PendingWearsOff

\* No step but a fault disturbs a connection with nothing in store.
LEMMA SteadyStep == IInv /\ [Next]_vars => (Steady /\ faults' = faults => Steady')
<1> SUFFICES ASSUME IInv, [Next]_vars, Steady, faults' = faults PROVE Steady'
  OBVIOUS
<1>1. TypeOK /\ InputMakesNone /\ TypeOK' BY StepType DEF IInv
<1>2. /\ Ending \in Nat /\ Drops \in Nat /\ faults \in Nat
      /\ delayed["reconnect"] \in Nat /\ delayed["force"] \in Nat
      /\ \A st \in States : others[st] \in Nat
  BY <1>1, Sums, Counts
<1>3. /\ own = "open" /\ ~Closed /\ Ending = 0 /\ Drops = 0
      /\ delayed["reconnect"] = 0 /\ delayed["force"] = 0
  <2>1. own = "open" /\ ~Closed BY DEF Steady, Closed, Live
  <2>2. Drops + Ending + delayed["reconnect"] + delayed["force"] = 0
    BY DEF Steady, Pending
  <2>3. PICK d \in Nat, e \in Nat, r \in Nat, s \in Nat :
          d = Drops /\ e = Ending /\ r = delayed["reconnect"] /\ s = delayed["force"]
    BY <1>2, Zenon
  <2>4. d + e + r + s = 0 BY <2>2, <2>3, Zenon
  <2>5. d = 0 /\ e = 0 /\ r = 0 /\ s = 0 BY <2>4
  <2> QED BY <2>1, <2>3, <2>5, Zenon
<1>4. \A t \in Threads : midway[t] = "idle"
  BY <1>1, <1>3 DEF Steady, Tested, Drops, One, Threads, InputMakesNone, TypeOK
<1>5. others["closing"] = 0 /\ others["failed"] = 0 /\ others["closed"] = 0
  <2>1. One(own \in Over) = 0 BY <1>3 DEF One, Over
  <2>2. others["closing"] + others["failed"] + others["closed"] = 0
    BY <1>2, <1>3, <2>1 DEF Ending, States
  <2> QED BY <1>2, <2>2 DEF States
<1>6. ~Fault BY <1>2 DEF Fault, Steady
<1>7. Pending' = 0
  <2>1. Pending' <= 0 BY <1>2, PendingStep DEF Steady
  <2>2. Pending' \in Nat BY <1>1, SumsNext
  <2> QED BY <2>1, <2>2
<1>8. own' = own /\ midway' = midway
  <2>1. ASSUME NEW t \in Threads, Proceed(t) PROVE FALSE
    BY <1>4, <2>1 DEF Proceed, Create, Drop
  <2>2. CASE ConnectService BY <1>6, <2>2 DEF ConnectService, sockets
  <2>3. CASE SwitchLanguage BY <1>6, <2>3 DEF SwitchLanguage
  <2>4. CASE RunJob
    BY <1>3, <2>4 DEF RunJob, CachedAddress, AskForAddress, Connect, sockets
  <2>5. CASE AnswerRequest
    BY <1>3, <2>5 DEF AnswerRequest, Served, NotServed, NoAnswer, RefusedForNow, Connect,
                      sockets
  <2>6. CASE CacheExpires BY <2>6 DEF CacheExpires, sockets
  <2>7. CASE SocketEnds BY <1>3, <1>5, <1>6, <2>7 DEF SocketEnds, Moves
  <2>8. CASE DidOpen BY <1>3, <2>8 DEF DidOpen, Moves
  <2>9. CASE DidFailWithError BY <1>3, <1>5, <2>9 DEF DidFailWithError, Moves
  <2>10. CASE DidClose BY <1>3, <1>5, <2>10 DEF DidClose
  <2>11. CASE DelayedCall
    BY <1>3, <2>11 DEF DelayedCall, Reconnect, RetryRequest, Once, sockets
  <2>12. CASE UNCHANGED vars BY <2>12 DEF vars, sockets
  <2> QED BY <2>1, <2>2, <2>3, <2>4, <2>5, <2>6, <2>7, <2>8, <2>9, <2>10, <2>11, <2>12
          DEF Next, SendWord, KeyboardLoads, Callback
<1> QED BY <1>7, <1>8 DEF Steady, Tested

\* A connection that is up when nothing is left to come stays up until something
\* goes wrong again: no job, late answer or other socket takes it away.
THEOREM OpenConnectionStays == Spec => SteadyStays
<1>1. IInv /\ [Next]_vars => [Steady /\ faults' = faults => Steady']_vars
  BY SteadyStep
<1> QED BY <1>1, InitInv, StepInv, PTL DEF Spec, SteadyStays

-----------------------------------------------------------------------------
(* Retries.  A failed socket makes one delayed reconnect at most, and a       *)
(* request without an answer one delayed retry at most, so that what is       *)
(* tried again is never more than what went wrong.                            *)

\* The flag of the requests is the request that is under way: it is never left
\* set, which would refuse every later one.
OneRequest == isRequesting <=> task # None

\* Failed sockets whose failure is not reported yet, calls that are delayed, and
\* whether the request under way is a retry: each stands for something gone wrong.
Failed == others["failed"] + One(own = "failed")
Delayed ==
  delayed["reconnect"] + delayed["force"] + delayed["retry1"] + delayed["retry2"]
AskedAgain == One(task \notin {None, 0})
\* Retries, made or to come, are never more than the faults so far.
RetriesOwed == Failed + Delayed + AskedAgain <= MaxFaults - faults

\* What is inductive.
RetryInv == TypeOK /\ OneRequest /\ RetriesOwed

\* The counts are natural numbers, ...
LEMMA RetryCounts ==
  ASSUME TypeOK
  PROVE  /\ Failed \in Nat /\ Delayed \in Nat /\ AskedAgain \in Nat
         /\ faults \in Nat /\ MaxFaults \in Nat
<1>1. \A st \in States : others[st] \in Nat BY DEF TypeOK
<1>2. \A c \in Calls : delayed[c] \in Nat BY DEF TypeOK
<1>3. Failed \in Nat BY <1>1 DEF Failed, One, States
<1>4. Delayed \in Nat BY <1>2 DEF Delayed, Calls
<1>5. AskedAgain \in Nat BY DEF AskedAgain, One
<1>6. faults \in Nat /\ MaxFaults \in Nat BY CloudAssumption DEF TypeOK
<1> QED BY <1>3, <1>4, <1>5, <1>6

\* ... after a step as well.
LEMMA RetryCountsNext ==
  ASSUME TypeOK'
  PROVE  /\ Failed' \in Nat /\ Delayed' \in Nat /\ AskedAgain' \in Nat
         /\ faults' \in Nat
<1>1. \A st \in States : others'[st] \in Nat BY DEF TypeOK
<1>2. \A c \in Calls : delayed'[c] \in Nat BY DEF TypeOK
<1>3. Failed' \in Nat BY <1>1 DEF Failed, One, States
<1>4. Delayed' \in Nat BY <1>2 DEF Delayed, Calls
<1>5. AskedAgain' \in Nat BY DEF AskedAgain, One
<1>6. faults' \in Nat BY CloudAssumption DEF TypeOK
<1> QED BY <1>3, <1>4, <1>5, <1>6

\* What the bound compares: each count grows by at most the number named for it,
\* and together they grow by no more than what went wrong in the step.
LEMMA CompareRetries ==
  ASSUME TypeOK, TypeOK', RetriesOwed, NEW f \in {-1, 0, 1}, NEW c \in {-1, 0, 1},
         NEW n \in {-1, 0, 1}, NEW w \in {0, 1}, f + c + n <= w, faults' = faults - w,
         Failed' = Failed + f, Delayed' = Delayed + c, AskedAgain' <= AskedAgain + n
  PROVE  RetriesOwed'
<1>1. PICK a \in Nat, b \in Nat, d \in Nat, e \in Nat, m \in Nat, h \in Nat :
        /\ a = Failed /\ b = Delayed /\ d = AskedAgain /\ e = AskedAgain'
        /\ m = MaxFaults /\ h = faults
  BY RetryCounts, RetryCountsNext, Zenon
<1>2. a + b + d <= m - h BY <1>1, Zenon DEF RetriesOwed
<1>3. e <= d + n BY <1>1, Zenon
<1>4. (a + f) + (b + c) + e <= m - (h - w) BY <1>2, <1>3
<1> QED BY <1>1, <1>4, Zenon DEF RetriesOwed

\* An assignment to self.webSocket leaves the failed sockets.
LEMMA AssignFailed ==
  ASSUME TypeOK, NEW new \in {"none", "connecting"}, Assign(new)
  PROVE  Failed' = Failed
<1>1. others'["failed"] = others["failed"] + One(own = "failed") /\ others["failed"] \in Nat
  BY Counts DEF Assign, States
<1>2. One(own' = "failed") = 0 BY DEF Assign, One
<1> QED BY <1>1, <1>2 DEF Failed, One

\* A socket that changes its state is counted where it went.
LEMMA MovesFailed ==
  ASSUME TypeOK, NEW from \in States, NEW to \in States \cup {"none"}, from # to,
         Moves(from, to)
  PROVE  Failed' = Failed + (One(to = "failed") - One(from = "failed"))
<1>1. others["failed"] \in Nat BY Counts DEF States
<1>2. CASE own = from /\ own' = to /\ UNCHANGED others
  BY <1>1, <1>2 DEF Failed, One
<1>3. CASE others[from] > 0 /\ UNCHANGED own
          /\ others' = [st \in States |-> others[st] - One(st = from) + One(st = to)]
  <2>1. others'["failed"] = others["failed"] - One("failed" = from) + One("failed" = to)
    BY <1>3 DEF States
  <2> QED BY <1>1, <1>3, <2>1 DEF Failed, One
<1> QED BY <1>2, <1>3 DEF Moves

\* One more delayed call, ...
LEMMA LaterSum ==
  ASSUME TypeOK, NEW call \in Calls, Later(call) PROVE Delayed' = Delayed + 1
  BY DEF TypeOK, Later, Delayed, Calls

\* ... and one that is made.
LEMMA OnceSum ==
  ASSUME TypeOK, NEW call \in Calls, Once(call) PROVE Delayed' = Delayed + (-1)
  BY DEF TypeOK, Once, Delayed, Calls

\* The invariant holds at the start.
LEMMA RetryInit == Init => RetryInv
<1> SUFFICES ASSUME Init PROVE RetryInv OBVIOUS
<1>1. TypeOK BY InitType
<1>2. Failed = 0 BY DEF Init, Failed, One, States
<1>3. Delayed = 0 BY DEF Init, Delayed, Calls
<1>4. AskedAgain = 0 BY DEF Init, AskedAgain, One
<1>5. RetriesOwed BY <1>2, <1>3, <1>4, CloudAssumption DEF Init, RetriesOwed
<1>6. OneRequest BY DEF Init, OneRequest
<1> QED BY <1>1, <1>5, <1>6 DEF RetryInv

\* Every step keeps it.
LEMMA RetryStep == RetryInv /\ [Next]_vars => RetryInv'
<1> SUFFICES ASSUME RetryInv, [Next]_vars PROVE RetryInv' OBVIOUS
<1>1. TypeOK /\ OneRequest /\ RetriesOwed /\ TypeOK' BY StepType DEF RetryInv
<1>2. Failed \in Nat /\ Delayed \in Nat /\ AskedAgain \in Nat /\ faults \in Nat
  BY <1>1, RetryCounts
<1>3. AskedAgain' \in Nat BY <1>1, RetryCountsNext
<1> SUFFICES OneRequest' /\ RetriesOwed' BY <1>1 DEF RetryInv
<1>4. None \notin Numbers /\ 0 \in Numbers BY CloudAssumption DEF Numbers
<1>5. ASSUME Fine PROVE faults' = faults - 0 BY <1>2, <1>5 DEF Fine
<1>6. ASSUME Fault PROVE faults' = faults - 1 BY <1>6 DEF Fault
\* Steps that try nothing again, whatever goes wrong in them.
<1>7. ASSUME Failed' = Failed, Delayed' = Delayed, UNCHANGED <<isRequesting, task>>,
             Fine \/ Fault
      PROVE  OneRequest' /\ RetriesOwed'
  <2>1. Failed' = Failed + 0 /\ Delayed' = Delayed + 0 BY <1>2, <1>7
  <2>2. AskedAgain' = AskedAgain BY <1>7 DEF AskedAgain
  <2>3. AskedAgain' <= AskedAgain + 0 BY <1>2, <2>2
  <2>4. RetriesOwed'
    <3>1. CASE Fine BY <1>1, <1>5, <2>1, <2>3, <3>1, CompareRetries
    <3>2. CASE Fault BY <1>1, <1>6, <2>1, <2>3, <3>2, CompareRetries
    <3> QED BY <1>7, <3>1, <3>2
  <2> QED BY <1>1, <1>7, <2>4 DEF OneRequest
<1>8. ASSUME UNCHANGED sockets PROVE Failed' = Failed BY <1>8 DEF Failed, sockets
<1>9. ASSUME UNCHANGED delayed PROVE Delayed' = Delayed BY <1>9 DEF Delayed
<1>10. ASSUME NEW t \in Threads, Proceed(t) PROVE OneRequest' /\ RetriesOwed'
  <2>1. Failed' = Failed
    BY <1>1, <1>8, <1>10, AssignFailed DEF Proceed, Create, Drop
  <2> QED BY <1>7, <1>9, <1>10, <2>1 DEF Proceed, Create, Drop, config, Fine
<1>11. ASSUME NEW t \in Threads, CloseWebSocket(t) PROVE Failed' = Failed
  <2>1. others' = others /\ (own' = own \/ (own \in Live /\ own' = "closing"))
    BY <1>11 DEF CloseWebSocket, Closed
  <2> QED BY <2>1 DEF Failed, One, Live
<1>12. CASE ConnectService
  <2>1. Failed' = Failed
    BY <1>8, <1>11, <1>12 DEF ConnectService, Threads, sockets
  <2> QED BY <1>7, <1>9, <1>12, <2>1 DEF ConnectService, config
<1>13. CASE SwitchLanguage
  <2>1. Failed' = Failed BY <1>11, <1>13 DEF SwitchLanguage, Threads
  <2> QED BY <1>7, <1>9, <1>13, <2>1 DEF SwitchLanguage, config
<1>14. ASSUME NEW n \in Numbers, Request(n)
       PROVE  /\ OneRequest' /\ (AskedAgain' = AskedAgain \/ task' = n)
              /\ task' = n => AskedAgain' = One(n # 0)
  <2>1. isRequesting' = TRUE /\ task' = IF isRequesting THEN task ELSE n
    BY <1>14 DEF Request
  <2>2. task' # None BY <1>1, <1>4, <2>1 DEF OneRequest
  <2> QED BY <1>4, <2>1, <2>2 DEF OneRequest, AskedAgain, One
<1>15. CASE RunJob
  <2>1. Failed' = Failed /\ Delayed' = Delayed
    BY <1>8, <1>9, <1>15 DEF RunJob
  <2>2. CASE CachedAddress
    BY <1>7, <2>1, <2>2 DEF CachedAddress, config
  <2>3. CASE AskForAddress
    <3>1. Request(0) /\ Fine BY <2>3 DEF AskForAddress
    <3>2. OneRequest' /\ AskedAgain' <= AskedAgain + 0
      BY <1>2, <1>4, <1>14, <3>1 DEF One
    <3>3. Failed' = Failed + 0 /\ Delayed' = Delayed + 0 BY <1>2, <2>1
    <3> QED BY <1>1, <1>5, <3>1, <3>2, <3>3, CompareRetries
  <2> QED BY <1>15, <2>2, <2>3 DEF RunJob
<1>16. CASE AnswerRequest
  <2>1. /\ task # None /\ task' = None /\ isRequesting' = FALSE
        /\ Served \/ NotServed \/ NoAnswer \/ RefusedForNow
    BY <1>16 DEF AnswerRequest
  <2>2. OneRequest' BY <2>1 DEF OneRequest
  <2>3. Failed' = Failed BY <1>8, <1>16 DEF AnswerRequest
  <2>4. AskedAgain' = 0 BY <2>1 DEF AskedAgain, One
  <2>5. Failed' = Failed + 0 /\ AskedAgain' <= AskedAgain + 0 BY <1>2, <2>3, <2>4
  <2>6. CASE Served \/ NotServed \/ RefusedForNow
    <3>1. Delayed' = Delayed + 0 /\ (Fine \/ Fault)
      <4>1. UNCHANGED delayed /\ (Fine \/ Fault)
        BY <2>6 DEF Served, NotServed, RefusedForNow
      <4> QED BY <1>2, <1>9, <4>1
    <3>2. CASE Fine BY <1>1, <1>5, <2>2, <2>5, <3>1, <3>2, CompareRetries
    <3>3. CASE Fault BY <1>1, <1>6, <2>2, <2>5, <3>1, <3>3, CompareRetries
    <3> QED BY <3>1, <3>2, <3>3
  <2>7. CASE NoAnswer
    <3>1. Fault /\ (UNCHANGED delayed \/ Later("retry1") \/ Later("retry2"))
      BY <2>7 DEF NoAnswer
    <3>2. Delayed' = Delayed + 0 \/ Delayed' = Delayed + 1
      BY <1>1, <1>2, <1>9, <3>1, LaterSum DEF Calls
    <3> QED BY <1>1, <1>6, <2>2, <2>5, <3>1, <3>2, CompareRetries
  <2> QED BY <2>1, <2>6, <2>7
<1>17. CASE CacheExpires
  BY <1>7, <1>8, <1>9, <1>17 DEF CacheExpires, Fine
<1>18. CASE SocketEnds
  <2>1. UNCHANGED <<delayed, isRequesting, task>> BY <1>18 DEF SocketEnds, config
  <2>2. Delayed' = Delayed + 0 BY <1>2, <1>9, <2>1
  <2>3. AskedAgain' <= AskedAgain + 0 /\ OneRequest'
    BY <1>1, <1>2, <2>1 DEF AskedAgain, OneRequest
  <2>4. ASSUME NEW st \in Live, NEW end \in {"failed", "closed"}, Moves(st, end), Fault
        PROVE  RetriesOwed'
    <3>1. Failed' = Failed + 0 \/ Failed' = Failed + 1
      BY <1>1, <1>2, <2>4, MovesFailed DEF One, Live, States
    <3> QED BY <1>1, <1>6, <2>2, <2>3, <2>4, <3>1, CompareRetries
  <2>5. ASSUME NEW end \in {"closed", "none"}, Moves("closing", end), Fine
        PROVE  RetriesOwed'
    <3>1. Failed' = Failed + 0
      BY <1>1, <1>2, <2>5, MovesFailed DEF One, States
    <3> QED BY <1>1, <1>5, <2>2, <2>3, <2>5, <3>1, CompareRetries
  <2>6. "open" \in Live BY DEF Live
  <2> QED BY <1>18, <2>3, <2>4, <2>5, <2>6 DEF SocketEnds
<1>19. CASE DidOpen
  <2>1. Failed' = Failed
    BY <1>1, <1>2, <1>19, MovesFailed DEF DidOpen, One, States
  <2> QED BY <1>7, <1>9, <1>19, <2>1 DEF DidOpen, config, Fine
<1>20. CASE DidFailWithError
  <2>1. Moves("failed", "none") /\ Fine /\ UNCHANGED <<isRequesting, task>>
    BY <1>20 DEF DidFailWithError, config, Fine
  <2>2. Failed' = Failed + (-1)
    BY <1>1, <1>2, <2>1, MovesFailed DEF One, States
  <2>3. Delayed' = Delayed + 0 \/ Delayed' = Delayed + 1
    <3>1. Later("reconnect") \/ Later("force") \/ UNCHANGED delayed
      BY <1>20 DEF DidFailWithError
    <3> QED BY <1>1, <1>2, <1>9, <3>1, LaterSum DEF Calls
  <2>4. AskedAgain' <= AskedAgain + 0 /\ OneRequest'
    BY <1>1, <1>2, <2>1 DEF AskedAgain, OneRequest
  <2> QED BY <1>1, <1>5, <2>1, <2>2, <2>3, <2>4, CompareRetries
<1>21. CASE DidClose
  <2>1. /\ others["failed"] \in Nat /\ own' = "none"
        /\ others'["failed"] = others["failed"] + One(own = "failed")
    BY <1>1, <1>21, Counts DEF DidClose, One, States
  <2>2. Failed' = Failed BY <2>1 DEF Failed, One
  <2> QED BY <1>7, <1>9, <1>21, <2>2 DEF DidClose, config, Fine
<1>22. ASSUME NEW call \in {"reconnect", "force"}, NEW forced \in BOOLEAN,
              Reconnect(call, forced)
       PROVE  OneRequest' /\ RetriesOwed'
  <2>1. /\ Once(call) /\ Assign("none") /\ UNCHANGED <<isRequesting, task>>
        /\ Fine \/ Fault
    BY <1>22 DEF Reconnect, config
  <2>2. Failed' = Failed + 0 BY <1>1, <1>2, <2>1, AssignFailed
  <2>3. Delayed' = Delayed + (-1) BY <1>1, <2>1, OnceSum DEF Calls
  <2>4. AskedAgain' <= AskedAgain + 0 /\ OneRequest'
    BY <1>1, <1>2, <2>1 DEF AskedAgain, OneRequest
  <2>5. CASE Fine BY <1>1, <1>5, <2>2, <2>3, <2>4, <2>5, CompareRetries
  <2>6. CASE Fault BY <1>1, <1>6, <2>2, <2>3, <2>4, <2>6, CompareRetries
  <2> QED BY <2>1, <2>4, <2>5, <2>6
<1>23. ASSUME NEW call \in {"retry1", "retry2"}, NEW n \in Numbers, RetryRequest(call, n)
       PROVE  OneRequest' /\ RetriesOwed'
  <2>1. Once(call) /\ Request(n) /\ Fine /\ UNCHANGED sockets
    BY <1>23 DEF RetryRequest, Fine
  <2>2. Failed' = Failed + 0 BY <1>2, <1>8, <2>1
  <2>3. Delayed' = Delayed + (-1) BY <1>1, <2>1, OnceSum DEF Calls
  <2>4. OneRequest' /\ AskedAgain' <= AskedAgain + 1
    BY <1>2, <1>14, <2>1 DEF One
  <2> QED BY <1>1, <1>5, <2>1, <2>2, <2>3, <2>4, CompareRetries
<1>24. CASE DelayedCall
  <2>1. 1 \in Numbers /\ 2 \in Numbers BY DEF Numbers
  <2>2. CASE Reconnect("reconnect", FALSE) BY <1>22, <2>2
  <2>3. CASE Reconnect("force", TRUE) BY <1>22, <2>3
  <2>4. CASE RetryRequest("retry1", 1) BY <1>23, <2>1, <2>4
  <2>5. CASE RetryRequest("retry2", 2) BY <1>23, <2>1, <2>5
  <2> QED BY <1>24, <2>2, <2>3, <2>4, <2>5 DEF DelayedCall
<1>25. CASE UNCHANGED vars
  BY <1>7, <1>8, <1>9, <1>25 DEF vars, config, Fine
<1> QED BY <1>10, <1>12, <1>13, <1>15, <1>16, <1>17, <1>18, <1>19, <1>20, <1>21, <1>24,
     <1>25
        DEF Next, SendWord, KeyboardLoads, Callback

\* The flag that refuses a second request is cleared with every answer, and no
\* request is under way without it.
THEOREM RequestsEnd == Spec => []OneRequest
  BY RetryInit, RetryStep, PTL DEF Spec, RetryInv

\* What is tried again is never more than what went wrong: failures of sockets
\* and of requests breed no growing crowd of retries.
THEOREM RetriesAreOwed == Spec => []RetriesOwed
  BY RetryInit, RetryStep, PTL DEF Spec, RetryInv
=============================================================================
