--------------------------- MODULE CloudPrediction ---------------------------
(***************************************************************************)
(* The connection of the cloud prediction: CMCloudPrediction with its       *)
(* socket and its reconnects, and CMCloudPredictionConfigManager, which     *)
(* asks a server for the address.                                           *)
(*                                                                         *)
(* Three threads write self.webSocket without a lock.  A word that finds no *)
(* connection, a failed socket's delayed call and a shown keyboard put a    *)
(* job on the serial queue; the job connects to the cached address at once, *)
(* or asks for one and the main thread connects when the answer is there.   *)
(* The queue of the input logic closes the socket when the language         *)
(* changes.  What reads self.webSocket and then writes it is two steps      *)
(* here, and `midway' says which thread is between them.                    *)
(*                                                                         *)
(* A socket that self.webSocket no longer names lives on (it retains        *)
(* itself) and keeps calling its delegate.  The class SRWebSocket is a      *)
(* library: it changes its readyState first and calls back later, on the    *)
(* main thread.  Which answer a word gets, and the reports that ride on     *)
(* words, are not in this module.                                           *)
(*                                                                         *)
(* An operator named X_Flaw is X with a plausible slip of the code; the     *)
(* properties are tried against it in X's place.                            *)
(***************************************************************************)
EXTENDS Integers, Sequences

CONSTANTS
  None,       \* no request
  MaxJobs,    \* bound on the serial queue
  MaxFaults   \* bound on what goes wrong: each is named in the action it spoils

ASSUME CloudAssumption ==
  /\ None \notin Nat
  /\ MaxJobs \in Nat \ {0} /\ MaxFaults \in Nat

VARIABLES
  own,        \* readyState of self.webSocket, or "none"
  others,     \* how many other sockets are in each state
  midway,     \* for each thread, what it has tested and not yet written
  attempts,   \* reConnectCount; only 1 and 2 are told apart
  delayed,    \* the dispatch_after blocks of each kind
  jobs,       \* the blocks in the serial queue: whether each is forced
  isRequesting,
  task,       \* the number of the request that is under way
  address,    \* whether an address is kept
  fresh,      \* whether the request time is less than forty minutes ago
  faults      \* how much may still go wrong

sockets == <<own, others>>
config == <<isRequesting, task, address, fresh>>
vars == <<sockets, midway, attempts, delayed, jobs, config, faults>>

-----------------------------------------------------------------------------
Threads == {"main", "serial", "input"}
Calls == {"reconnect", "force", "retry1", "retry2"}
Numbers == 0 .. 2
\* "failed" and "closed" are over, but for the callback that is on its way.
States == {"connecting", "open", "closing", "failed", "closed"}
Live == {"connecting", "open"}
Closed == own \notin Live

Fault == faults > 0 /\ faults' = faults - 1
Fine == UNCHANGED faults

One(b) == IF b THEN 1 ELSE 0

\* The assignment of another socket, or of none, to self.webSocket.
Assign(new) ==
  /\ own' = new
  /\ others' = [st \in States |-> others[st] + One(st = own)]

Once(call) == delayed[call] > 0 /\ delayed' = [delayed EXCEPT ![call] = @ - 1]
Later(call) == delayed' = [delayed EXCEPT ![call] = @ + 1]

-----------------------------------------------------------------------------
(* Connecting and closing.                                                  *)

\* connect: the test ...
Connect_Always(t) == midway' = [midway EXCEPT ![t] = "create"]
Connect(t) == midway' = IF Closed THEN [midway EXCEPT ![t] = "create"] ELSE midway

\* ... and the new socket, if there still is an address.
Create(t) ==
  /\ midway[t] = "create" /\ midway' = [midway EXCEPT ![t] = "idle"]
  /\ IF address THEN Assign("connecting") ELSE UNCHANGED sockets
  /\ UNCHANGED <<attempts, delayed, jobs, config, faults>>

\* closeWebSocket: the call of close ...
CloseWebSocket(t) ==
  /\ own' = IF Closed THEN own ELSE "closing"
  /\ midway' = [midway EXCEPT ![t] = "drop"]
  /\ UNCHANGED others

\* ... and the reset of the variable.
Drop(t) ==
  /\ midway[t] = "drop" /\ midway' = [midway EXCEPT ![t] = "idle"]
  /\ Assign("none")
  /\ UNCHANGED <<attempts, delayed, jobs, config, faults>>

Main == midway["main"] = "idle"

Enqueue(forced) ==
  Len(jobs) < MaxJobs /\ jobs' = Append(jobs, forced)

\* connetServiceWithForce: of a word that finds no connection, of viewDidLoad.
ConnectService ==
  /\ Main
  /\ \/ Enqueue(FALSE) /\ Fine /\ UNCHANGED <<sockets, midway>>
     \/ CloseWebSocket("main") /\ Fault /\ UNCHANGED jobs   \* switched off
  /\ UNCHANGED <<attempts, delayed, config>>

SendWord == Closed /\ ConnectService
KeyboardLoads == ConnectService

\* swichLanguage, to one that is not served.
SwitchLanguage ==
  /\ midway["input"] = "idle" /\ CloseWebSocket("input") /\ Fault
  /\ UNCHANGED <<attempts, delayed, jobs, config>>

-----------------------------------------------------------------------------
(* The address.                                                             *)

\* request:completionBlock: forgets its block while another request runs.
Request(n) ==
  /\ isRequesting' = TRUE /\ task' = IF isRequesting THEN task ELSE n
  /\ UNCHANGED <<address, fresh>>

\* resetWithLanguage:isForce:, in the serial queue.
CachedAddress ==
  /\ ~Head(jobs) /\ fresh /\ UNCHANGED config
  /\ \/ address /\ Connect("serial") /\ Fine
     \/ ~address /\ UNCHANGED midway /\ Fine
     \/ UNCHANGED midway /\ Fault   \* the language is not served
AskForAddress ==
  /\ Head(jobs) \/ ~fresh
  /\ Request(0) /\ Fine /\ UNCHANGED midway
RunJob ==
  /\ jobs # <<>> /\ midway["serial"] = "idle" /\ jobs' = Tail(jobs)
  /\ CachedAddress \/ AskForAddress
  /\ UNCHANGED <<sockets, attempts, delayed>>

\* The completion block of a request, on the main thread.
Served ==
  /\ address' = TRUE /\ fresh' = TRUE /\ Connect("main")
  /\ Fine /\ UNCHANGED delayed
\* temBlock, or an exception that is caught.
NotServed ==
  /\ address' \in {FALSE, address}
  /\ Fault /\ UNCHANGED <<fresh, midway, delayed>>
NoAnswer ==
  /\ CASE task = 0 -> Later("retry1")
       [] task = 1 -> Later("retry2")
       [] OTHER -> UNCHANGED delayed
  /\ Fault /\ UNCHANGED <<address, fresh, midway>>
RefusedForNow == fresh' = TRUE /\ Fault /\ UNCHANGED <<address, midway, delayed>>

AnswerRequest_StaysRequesting ==
  /\ Main /\ task # None /\ task' = None
  /\ \/ Served /\ isRequesting' = FALSE
     \/ (NotServed \/ NoAnswer \/ RefusedForNow) /\ UNCHANGED isRequesting
  /\ UNCHANGED <<sockets, attempts, jobs>>
AnswerRequest ==
  /\ Main /\ task # None /\ task' = None /\ isRequesting' = FALSE
  /\ Served \/ NotServed \/ NoAnswer \/ RefusedForNow
  /\ UNCHANGED <<sockets, attempts, jobs>>

RetryRequest(call, n) ==
  /\ Main /\ Once(call) /\ Request(n)
  /\ UNCHANGED <<sockets, midway, attempts, jobs, faults>>

CacheExpires ==
  /\ fresh /\ fresh' = FALSE
  /\ UNCHANGED <<sockets, midway, attempts, delayed, jobs, isRequesting, task, address, faults>>

-----------------------------------------------------------------------------
(* The sockets and their callbacks, on the main thread.                     *)

\* One socket, self.webSocket or another, goes from a state to the next.
Moves(from, to) ==
  \/ own = from /\ own' = to /\ UNCHANGED others
  \/ /\ others[from] > 0 /\ UNCHANGED own
     /\ others' = [st \in States |-> others[st] - One(st = from) + One(st = to)]

\* In the library: an error, the close of the other side, the end of a close.
SocketEnds ==
  /\ \/ \E st \in Live : Moves(st, "failed") /\ Fault
     \/ Moves("open", "closed") /\ Fault
     \/ \E end \in {"closed", "none"} : Moves("closing", end) /\ Fine
  /\ UNCHANGED <<midway, attempts, delayed, jobs, config>>

DidOpen ==
  /\ Main /\ Moves("connecting", "open") /\ attempts' = 0
  /\ UNCHANGED <<midway, delayed, jobs, config, faults>>

DidFailWithError ==
  /\ Main /\ Moves("failed", "none")
  /\ \/ /\ attempts' = IF attempts < 3 THEN attempts + 1 ELSE attempts
        /\ CASE attempts = 0 -> Later("reconnect")
             [] attempts = 1 -> Later("force")
             [] OTHER -> UNCHANGED delayed
     \/ UNCHANGED <<attempts, delayed>>   \* the network is not known
  /\ UNCHANGED <<midway, jobs, config, faults>>

\* The delayed blocks of didFailWithError:.
Reconnect(call, forced) ==
  /\ Main /\ Once(call) /\ Assign("none")
  /\ \/ Enqueue(forced) /\ Fine
     \/ UNCHANGED jobs /\ Fault   \* switched off; there is nothing to close
  /\ UNCHANGED <<midway, attempts, config>>

\* didCloseWithCode: does not ask whose close it was.
DidClose ==
  /\ Main
  /\ own = "closed" \/ others["closed"] > 0
  /\ own' = "none"
  /\ others' = [st \in States |-> others[st] + One(st = own) - One(st = "closed")]
  /\ UNCHANGED <<midway, attempts, delayed, jobs, config, faults>>

-----------------------------------------------------------------------------
Init ==
  /\ own = "none" /\ others = [st \in States |-> 0]
  /\ midway = [t \in Threads |-> "idle"] /\ attempts = 0
  /\ delayed = [c \in Calls |-> 0] /\ jobs = <<>>
  /\ isRequesting = FALSE /\ task = None /\ address \in BOOLEAN /\ fresh \in BOOLEAN
  /\ faults = MaxFaults

Callback == DidOpen \/ DidFailWithError \/ DidClose
DelayedCall ==
  \/ Reconnect("reconnect", FALSE) \/ Reconnect("force", TRUE)
  \/ RetryRequest("retry1", 1) \/ RetryRequest("retry2", 2)
Proceed(t) == Create(t) \/ Drop(t)

Next ==
  \/ SendWord \/ KeyboardLoads \/ SwitchLanguage
  \/ RunJob \/ AnswerRequest \/ CacheExpires
  \/ SocketEnds \/ Callback \/ DelayedCall
  \/ \E t \in Threads : Proceed(t)

Spec == Init /\ [][Next]_vars

\* Threads and timers go on, sockets and requests come to an end, forty minutes
\* pass, and the user goes on typing.
Fairness ==
  /\ \A t \in Threads : WF_vars(Proceed(t))
  /\ WF_vars(RunJob) /\ WF_vars(AnswerRequest) /\ WF_vars(CacheExpires)
  /\ WF_vars(Callback) /\ WF_vars(DelayedCall)
  /\ WF_vars(SendWord)
FairSpec == Spec /\ Fairness

-----------------------------------------------------------------------------
TypeOK ==
  /\ own \in States \cup {"none"} /\ others \in [States -> Nat]
  /\ midway \in [Threads -> {"idle", "create", "drop"}]
  /\ attempts \in 0 .. 3 /\ delayed \in [Calls -> Nat]
  /\ jobs \in Seq(BOOLEAN) /\ Len(jobs) <= MaxJobs
  /\ isRequesting \in BOOLEAN /\ task \in Numbers \cup {None}
  /\ address \in BOOLEAN /\ fresh \in BOOLEAN /\ faults \in 0 .. MaxFaults

\* The connections that are up or being made.
LiveSockets == others["connecting"] + others["open"] + One(~Closed)

\* Two threads that both found no connection make two; after that, what goes
\* wrong once leaves at most five behind.
ConnectionsBounded == LiveSockets <= 2 + 5 * (MaxFaults - faults)

\* When things stop going wrong, a connection comes up and stays.
Recovers == <>[](own = "open")
=============================================================================
