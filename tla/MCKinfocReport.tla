--------------------------- MODULE MCKinfocReport ---------------------------
(***************************************************************************)
(* Small instances of KinfocReport: two reports of the batch, one forced.   *)
(***************************************************************************)
EXTENDS KinfocReport

CONSTANTS r1, r2, f1

TwoAndForced == {r1, r2, f1}
OneForced == {f1}
=============================================================================
