----------------------------- MODULE WordStore -----------------------------
(***************************************************************************)
(* What a user's dictionary promises: a word changes only because the user  *)
(* asked for it, and ends as the user asked; the dictionary is saved as a   *)
(* whole, and a new process starts from what was saved last.  Once          *)
(* something went wrong it promises nothing.                                *)
(***************************************************************************)
CONSTANT Words

VARIABLES
  taught,   \* the words the user taught and did not take back
  waiting,  \* the words of which a change is on its way
  known,    \* the words of the dictionary
  kept,     \* the words a new process will find
  fine      \* nothing went wrong yet

vars == <<taught, waiting, known, kept, fine>>

Init == taught = {} /\ waiting = {} /\ known = {} /\ kept = {} /\ fine = TRUE

\* The user teaches a word, or takes one back.
Teach(w) ==
  /\ taught' \in {taught \cup {w}, taught \ {w}}
  /\ waiting' = waiting \cup {w}
  /\ UNCHANGED <<known, kept>>

\* The dictionary follows; the last change of a word makes it as it was taught.
Follow(w) ==
  /\ w \in waiting
  /\ known' \in {known \cup {w}, known \ {w}}
  /\ waiting' \in {waiting, waiting \ {w}}
  /\ w \notin waiting' => (w \in known' <=> w \in taught)
  /\ UNCHANGED <<taught, kept>>

Save ==
  /\ kept' = known
  /\ UNCHANGED <<taught, waiting, known>>

\* What was not saved is lost with the process, and so is what waited.
Restart ==
  /\ known' = kept /\ taught' = kept /\ waiting' = {}
  /\ UNCHANGED kept

GoWrong ==
  /\ {taught', waiting', known', kept'} \subseteq SUBSET Words
  /\ fine' = FALSE

Next ==
  \/ /\ fine /\ UNCHANGED fine
     /\ Save \/ Restart \/ \E w \in Words : Teach(w) \/ Follow(w)
  \/ GoWrong

Spec == Init /\ [][Next]_vars

-----------------------------------------------------------------------------
\* A word of which no change is on its way is known exactly if it was taught.
KnownAsTaught == fine => known \ waiting = taught \ waiting
=============================================================================
