--------------------------- MODULE MCHistoryStore ---------------------------
(***************************************************************************)
(* Small instances of HistoryStore.                                         *)
(***************************************************************************)
EXTENDS HistoryStore, TLC

CONSTANTS w1, w2, d1, d2

OneWord == {w1}
TwoWords == {w1, w2}
OneDict == {d1}
TwoDicts == {d1, d2}
Symmetry == Permutations({w1, w2}) \cup Permutations({d1, d2})

Focus == "overlap" \notin troubles /\ Cardinality(troubles) <= 1
=============================================================================
