--------------------------- MODULE MCKeyboardSwitch ---------------------------
(* Three fields: a message, a code all in capitals, a number. *)
EXTENDS KeyboardSwitch

MCCapsOf == [message |-> "sentences", code |-> "all", number |-> "none"]
MCKindOf == [message |-> "letter", code |-> "letter", number |-> "number"]
MCNextLanguage == [en |-> "fr", fr |-> "en"]

(* The search goes on from a state with at most two of these: a trouble met, *)
(* a delayed closing of the double-tap window, a load that has begun, a      *)
(* switch of language on its queue.                                          *)
Focus == Cardinality(astray) + shift.closings + Len(begun) + switches <= 2
===============================================================================
