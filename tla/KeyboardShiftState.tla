-------------------------- MODULE KeyboardShiftState --------------------------
(***************************************************************************)
(* The shift key: CMKeyboardShiftState.m, and the face of the shift key in  *)
(* CMKeyboardViewModel.m that its delegate sets.  The object is a record    *)
(* and each method a function from record to record:                        *)
(*   state     currentShiftState, "none" for the zero a reset leaves        *)
(*   window    mIsInDoubleTapShiftKey                                       *)
(*   closings  delayed calls of doubleTapShiftKey that are due              *)
(*   caps      autocapitalizationType                                       *)
(*   key       shiftKeyState of the layout shown, "nothing" without one     *)
(* Whether a word or a sentence has ended is asked of the typed input: here *)
(* it is the argument end.  auto is the user's setting.                     *)
(***************************************************************************)
EXTENDS Naturals

Shifted == {"manual", "automatic"}
States == {"none", "alpha", "lock"} \cup Shifted
CapsTypes == {"none", "words", "sentences", "all"}
Face == [alpha |-> "normal", manual |-> "selected", automatic |-> "selected",
         lock |-> "locked"]
Faces == {"nothing", "normal", "selected", "locked"}

ShiftStates == [state : States, window : BOOLEAN, closings : Nat,
                caps : CapsTypes, key : Faces]

NewShiftState == [state |-> "none", window |-> FALSE, closings |-> 0,
                  caps |-> "none", key |-> "nothing"]

(* A reset cancels no delayed call. *)
Reset(o) == [o EXCEPT !.state = "none", !.window = FALSE]

(* The two shifted states do not replace each other. *)
SetCurrentShiftState(o, s) ==
    IF s = o.state \/ (s \in Shifted /\ o.state \in Shifted)
    THEN o
    ELSE [o EXCEPT !.state = s,
                   !.key = IF @ = "nothing" THEN @ ELSE Face[s]]

CapitalDue(caps, end, auto) ==
    /\ end
    /\ caps = "words" \/ (caps = "sentences" /\ auto)

SetAutocapitalizationType(o, caps, end, auto) ==
    LET known == IF caps = o.caps THEN o ELSE [o EXCEPT !.state = "none"]
        s == IF caps = "all" THEN "lock"
             ELSE IF CapitalDue(caps, end, auto) THEN "automatic" ELSE "alpha"
    IN  [SetCurrentShiftState(known, s) EXCEPT !.caps = caps]

(* The return key leaves the double-tap window as it is. *)
SingleTapReturn(o, auto) ==
    SetCurrentShiftState(o, IF ~auto /\ o.caps = "none" THEN "alpha"
                                                        ELSE "automatic")

(* The second tap neither closes the window nor cancels its closing. *)
SingleTapShift(o) ==
    IF o.window
    THEN SetCurrentShiftState(o, "lock")
    ELSE LET opened == [o EXCEPT !.window = TRUE, !.closings = @ + 1]
         IN  IF o.state = "none" THEN opened
             ELSE SetCurrentShiftState(opened,
                      IF o.state = "alpha" THEN "manual" ELSE "alpha")

(* Mutant: the delayed call is cancelled and the window stays open. *)
SingleTapOther_WindowStays(o, end, auto) ==
    SetCurrentShiftState([o EXCEPT !.closings = 0],
        IF o.caps = "all" \/ CapitalDue(o.caps, end, auto)
        THEN "automatic" ELSE "alpha")

(* Mutant: another key leaves the double-tap window open. *)
SingleTapOther_WindowOpen(o, end, auto) ==
    IF o.caps = "all" \/ CapitalDue(o.caps, end, auto)
    THEN SetCurrentShiftState(o, "automatic")
    ELSE IF o.caps = "none" \/ o.state \in Shifted
         THEN SetCurrentShiftState(o, "alpha")
         ELSE o

(* Any other key, and a call without a key. *)
SingleTapOther(o, end, auto) ==
    LET closed == [o EXCEPT !.window = FALSE, !.closings = 0]
    IN  IF o.caps = "all" \/ CapitalDue(o.caps, end, auto)
        THEN SetCurrentShiftState(closed, "automatic")
        ELSE IF o.caps = "none" \/ o.state \in Shifted
             THEN SetCurrentShiftState(closed, "alpha")
             ELSE closed

DoubleTapShiftKey(o) == [o EXCEPT !.window = FALSE, !.closings = @ - 1]

(* Mutant: the type of the field is not handed on. *)
Settle_WithoutType(o, caps, end, auto) == SingleTapOther(o, end, auto)

(* What is done for a letter layout that has come up, and for a change of  *)
(* the text in the same field.                                             *)
Settle(o, caps, end, auto) ==
    SetAutocapitalizationType(SingleTapOther(o, end, auto), caps, end, auto)
===============================================================================
