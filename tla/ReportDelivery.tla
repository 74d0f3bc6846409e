--------------------------- MODULE ReportDelivery ---------------------------
(***************************************************************************)
(* What a report uploader of the keyboard promises: a report it accepted is *)
(* held until the server has received it, or until it is given up, which    *)
(* only the death of the process, the age of a cache file or the disk can   *)
(* cause.                                                                   *)
(***************************************************************************)
CONSTANT Reports

VARIABLES
  accepted,   \* the reports made
  held,       \* the reports of which a copy is in memory, in flight or on disk
  received,   \* the reports the server has
  abandoned   \* the reports given up

vars == <<accepted, held, received, abandoned>>

Init == accepted = {} /\ held = {} /\ received = {} /\ abandoned = {}

Accept(r) ==
  /\ r \notin accepted
  /\ accepted' = accepted \cup {r}
  /\ held' = held \cup {r}
  /\ UNCHANGED <<received, abandoned>>

Receive(S) ==
  /\ received' = received \cup S
  /\ UNCHANGED <<accepted, held, abandoned>>

\* A copy is let go only of a report that needs it no longer.
LetGo(S) ==
  /\ S \subseteq received \cup abandoned
  /\ held' = held \ S
  /\ UNCHANGED <<accepted, received, abandoned>>

\* Some copies of a report that is given up may still be on their way.
GiveUp(S, gone) ==
  /\ gone \subseteq S
  /\ abandoned' = abandoned \cup S
  /\ held' = held \ gone
  /\ UNCHANGED <<accepted, received>>

Next ==
  \/ \E r \in Reports : Accept(r)
  \/ \E S \in SUBSET held :
       \/ Receive(S) \/ LetGo(S)
       \/ \E gone \in SUBSET S : GiveUp(S, gone)

Spec == Init /\ [][Next]_vars

-----------------------------------------------------------------------------
\* No report disappears: one that is no longer held was received or given up.
NothingForgotten == accepted \subseteq held \cup received \cup abandoned
=============================================================================
