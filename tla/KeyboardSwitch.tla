---------------------------- MODULE KeyboardSwitch ----------------------------
(***************************************************************************)
(* Which keyboard is shown: the loading of layouts in CMKeyboardManager.m   *)
(* and the handlers of KeyboardViewController.m that ask for a layout or    *)
(* take one, composed with the shift key of KeyboardShiftState.             *)
(*                                                                          *)
(* A load is a block put on a serial queue.  A new one cancels the last,    *)
(* which works until it has begun.  A begun block first waits for the one   *)
(* semaphore: so at most two have begun, the first loads and the second     *)
(* waits and holds the queue.  The rows are read on other threads and       *)
(* everything is delivered on the main thread.  The preloading at the start *)
(* and the end of the controller are left out.                              *)
(*                                                                          *)
(* The language key puts a block on the input queue, which asks for the     *)
(* layout of the next language and waits for it, half a second at most: the *)
(* wait may end at any time.  "number" stands for both symbol layouts.      *)
(***************************************************************************)
EXTENDS KeyboardShiftState, Sequences, FiniteSets

CONSTANTS
    Fields,       \* the fields of the host: CMTextInputModel
    CapsOf,       \* their autocapitalizationType
    KindOf,       \* the layout their keyboardType calls for
    Languages,    \* the languages the user has chosen
    NextLanguage, \* the cycle they stand in
    FirstLanguage,
    NoField,      \* no field yet
    MaxClosings,  \* bound on delayed closings of the double-tap window
    MaxSwitches   \* bound on language switches that have not run

Kinds == {"letter", "number"}

ASSUME FieldsAssumption ==
    /\ CapsOf \in [Fields -> CapsTypes]
    /\ KindOf \in [Fields -> Kinds]
    /\ NoField \notin Fields
ASSUME LanguagesAssumption ==
    /\ FirstLanguage \in Languages
    /\ NextLanguage \in [Languages -> Languages]
ASSUME BoundsAssumption ==
    /\ MaxClosings \in Nat \ {0}
    /\ MaxSwitches \in Nat \ {0}

VARIABLES
    shift,    \* the CMKeyboardShiftState object and the key shown
    layout,   \* currentLayoutType and currentLanguageType, as shown too
    surface,  \* what covers the keyboard: nothing, the emoji, the settings
    field,    \* currentInputModel
    auto,     \* kCMSettingManager.autoCapitalization
    asked,    \* the load whose block has not begun: at most one is alive
    begun,    \* the loads whose block has begun, in order
    exposed,  \* the rows the first of them counts on may be gone
    switches, \* language switches on the input queue
    dict,     \* the language of the dictionaries
    wanted,   \* history: the kind of layout the user or the host last asked for
    taps,     \* history: what came since the last tap on shift, see Taps
    astray    \* history: troubles met so far, see Troubles

vars == <<shift, layout, surface, field, auto, asked, begun, exposed, switches,
          dict, wanted, taps, astray>>

loads == <<asked, begun, exposed>>

Surfaces == {"keys", "emoji", "settings"}

(* "behind"    a layout was asked for while a switch of language was loading *)
(* "robbed"    a switch was asked for while a layout was asked for           *)
(* "missed"    a load failed                                                 *)
(* "released"  a layout came up over a shift state that nobody reset         *)
Troubles == {"behind", "robbed", "missed", "released"}

(* "none"    another key, a layout, the emoji or the settings; or no tap yet *)
(* "close"   returns at most                                                *)
(* "parted"  a request too: the key of a layout or a language, or a field   *)
(* "failed"  a request, and then a load that failed                         *)
Taps == {"none", "close", "parted", "failed"}
Parted == IF taps = "none" THEN "none" ELSE "parted"
Failed == IF taps = "parted" THEN "failed" ELSE taps

Loads == [for : {"field", "language", "return"}, kind : Kinds,
          lang : Languages]
NoLoad == [for |-> "nothing"]
Pending == {begun[i] : i \in DOMAIN begun} \cup ({asked} \ {NoLoad})

Other(kind) == IF kind = "letter" THEN "number" ELSE "letter"
Shown == shift.key # "nothing"

TypeOK ==
    /\ shift \in ShiftStates
    /\ layout \in [kind : Kinds, lang : Languages]
    /\ surface \in Surfaces
    /\ field \in Fields \cup {NoField}
    /\ auto \in BOOLEAN
    /\ asked \in Loads \cup {NoLoad}
    /\ begun \in Seq(Loads) /\ Len(begun) <= 2
    /\ exposed \in BOOLEAN
    /\ switches \in Nat
    /\ dict \in Languages
    /\ wanted \in Kinds
    /\ taps \in Taps
    /\ astray \subseteq Troubles

Init ==
    /\ shift = NewShiftState
    /\ layout = [kind |-> "letter", lang |-> FirstLanguage]
    /\ surface = "keys"
    /\ field = NoField
    /\ auto \in BOOLEAN
    /\ asked = NoLoad
    /\ begun = <<>>
    /\ exposed = FALSE
    /\ switches = 0
    /\ dict = FirstLanguage
    /\ wanted = "letter"
    /\ taps = "none"
    /\ astray = {}

-------------------------------------------------------------------------------
(* Asking for a layout. *)

Load(for, kind, lang) == [for |-> for, kind |-> kind, lang |-> lang]

(* Mutant: while a load is asked for, another is not taken. *)
AskLayout_FirstStands(for, kind) ==
    /\ asked' = IF asked = NoLoad THEN Load(for, kind, layout.lang) ELSE asked
    /\ wanted' = kind
    /\ UNCHANGED <<begun, exposed, astray>>

(* loadKeyboardByLayoutType with the language of the moment: the load asked *)
(* for before, if it has not begun, is cancelled.                           *)
AskLayout(for, kind) ==
    /\ asked' = Load(for, kind, layout.lang)
    /\ wanted' = kind
    /\ astray' = IF \E i \in DOMAIN begun : begun[i].for = "language"
                 THEN astray \cup {"behind"} ELSE astray
    /\ UNCHANGED <<begun, exposed>>

(* textDidChange or viewWillAppear, then loadKeyboard. *)
LoadKeyboard(f) ==
    /\ \/ /\ f # field
          /\ field' = f
          /\ AskLayout("field", KindOf[f])
          /\ taps' = Parted
          /\ UNCHANGED shift
       \/ /\ f = field
          /\ \E end \in BOOLEAN : shift' = Settle(shift, CapsOf[f], end, auto)
          /\ taps' = "none"
          /\ UNCHANGED <<field, loads, wanted, astray>>
    /\ UNCHANGED <<layout, surface, auto, switches, dict>>

(* The key "?123" or "ABC". *)
TapLayoutSwitch ==
    /\ surface = "keys"
    /\ Shown
    /\ AskLayout("field", Other(layout.kind))
    /\ taps' = Parted
    /\ UNCHANGED <<shift, layout, surface, field, auto, switches, dict>>

TapMultiLanguage ==
    /\ surface = "keys"
    /\ Shown
    /\ switches < MaxSwitches
    /\ switches' = switches + 1
    /\ taps' = Parted
    /\ UNCHANGED <<shift, layout, surface, field, auto, loads, dict, wanted,
                   astray>>

(* loadKeyboardToNextLanguage keeps the kind of the layout shown now. *)
RunSwitch ==
    /\ switches > 0
    /\ switches' = switches - 1
    /\ asked' = Load("language", layout.kind, NextLanguage[layout.lang])
    /\ astray' = IF \E r \in Pending : r.for # "language"
                 THEN astray \cup {"robbed"} ELSE astray
    /\ UNCHANGED <<shift, layout, surface, field, auto, begun, exposed, dict,
                   wanted, taps>>

-------------------------------------------------------------------------------
(* Loading. *)

BeginLoad ==
    /\ asked # NoLoad
    /\ Len(begun) < 2
    /\ begun' = Append(begun, asked)
    /\ asked' = NoLoad
    /\ UNCHANGED <<shift, layout, surface, field, auto, exposed, switches, dict,
                   wanted, taps, astray>>

(* Mutant: a layout that comes up leaves the shift state as it was. *)
TakenShift_NoReset(load, end) ==
    LET fresh == [shift EXCEPT !.key = "normal"]
    IN  IF load.kind = "letter" THEN Settle(fresh, CapsOf[field], end, auto)
                                ELSE fresh

(* showAlphabetKeyboardView, then what the handler of the load does with the *)
(* shift key: a return to the keys resets it for a symbol layout only.       *)
TakenShift(load, end) ==
    LET fresh == [shift EXCEPT !.key = "normal"]
        base == IF load.for = "return" /\ load.kind = "letter"
                THEN fresh ELSE Reset(fresh)
    IN  IF load.kind = "letter" THEN Settle(base, CapsOf[field], end, auto)
                                ELSE base

TakenAstray(load) ==
    IF load.for = "return" /\ load.kind = "letter"
    THEN IF shift.state \in {"none", "alpha"} THEN astray
         ELSE astray \cup {"released"}
    ELSE astray \ {"released"}

(* Mutant: under the emoji the dictionaries are not reset. *)
TakeLayout_EmojiKeepDictionary ==
    /\ begun # <<>>
    /\ LET load == Head(begun)
       IN  /\ layout' = [kind |-> load.kind, lang |-> load.lang]
           /\ dict' = IF load.for = "language" /\ surface # "emoji"
                      THEN load.lang ELSE dict
           /\ \E end \in BOOLEAN : shift' = TakenShift(load, end)
           /\ astray' = TakenAstray(load)
    /\ begun' = Tail(begun)
    /\ exposed' = FALSE
    /\ surface' = "keys"
    /\ taps' = "none"
    /\ UNCHANGED <<field, auto, asked, switches, wanted>>

(* Mutant: under the emoji the handler returns before the semaphore is given *)
(* back.                                                                     *)
TakeLayout_EmojiKeepSemaphore ==
    /\ begun # <<>>
    /\ surface # "emoji"
    /\ LET load == Head(begun)
       IN  /\ layout' = [kind |-> load.kind, lang |-> load.lang]
           /\ dict' = IF load.for = "language" THEN load.lang ELSE dict
           /\ \E end \in BOOLEAN : shift' = TakenShift(load, end)
           /\ astray' = TakenAstray(load)
    /\ begun' = Tail(begun)
    /\ exposed' = FALSE
    /\ surface' = "keys"
    /\ taps' = "none"
    /\ UNCHANGED <<field, auto, asked, switches, wanted>>

(* The rows are there: the manager takes kind and language, the controller   *)
(* shows the layout, and a switch of language resets the dictionaries.       *)
TakeLayout ==
    /\ begun # <<>>
    /\ LET load == Head(begun)
       IN  /\ layout' = [kind |-> load.kind, lang |-> load.lang]
           /\ dict' = IF load.for = "language" THEN load.lang ELSE dict
           /\ \E end \in BOOLEAN : shift' = TakenShift(load, end)
           /\ astray' = TakenAstray(load)
    /\ begun' = Tail(begun)
    /\ exposed' = FALSE
    /\ surface' = "keys"
    /\ taps' = "none"
    /\ UNCHANGED <<field, auto, asked, switches, wanted>>

(* Rows that were cached when the load began were given up since. *)
LoadFails ==
    /\ begun # <<>>
    /\ exposed
    /\ exposed' = FALSE
    /\ begun' = Tail(begun)
    /\ astray' = astray \cup {"missed"}
    /\ taps' = Failed
    /\ UNCHANGED <<shift, layout, surface, field, auto, asked, switches, dict,
                   wanted>>

(* didReceiveMemoryWarning: the manager gives up the rows of every other     *)
(* layout, the controller a keyboard that is covered.                        *)
MemoryWarning ==
    /\ exposed' = (exposed \/ (begun # <<>> /\ Head(begun).kind # layout.kind))
    /\ shift' = IF surface = "keys" THEN shift
                ELSE [shift EXCEPT !.key = "nothing"]
    /\ UNCHANGED <<layout, surface, field, auto, asked, begun, switches, dict,
                   wanted, taps, astray>>

-------------------------------------------------------------------------------
(* Covering the keys and coming back. *)

ShowEmoji ==
    /\ surface # "emoji"
    /\ Shown
    /\ surface' = "emoji"
    /\ shift' = Reset(shift)
    /\ taps' = "none"
    /\ astray' = astray \ {"released"}
    /\ UNCHANGED <<layout, field, auto, loads, switches, dict, wanted>>

ShowSettings ==
    /\ surface # "settings"
    /\ field # NoField
    /\ surface' = "settings"
    /\ taps' = "none"
    /\ UNCHANGED <<shift, layout, field, auto, loads, switches, dict, wanted,
                   astray>>

TapAutoCapitalization ==
    /\ surface = "settings"
    /\ auto' = ~auto
    /\ UNCHANGED <<shift, layout, surface, field, loads, switches, dict,
                   wanted, taps, astray>>

(* showAlphabetKeyboardViewFromEmojiOrSettingView: a keyboard that was given *)
(* up is loaded again, by the id on the layout key: the emoji have the key   *)
(* of the layout they cover, which names the other layout.                   *)
ReturnToKeys ==
    /\ surface # "keys"
    /\ IF Shown
       THEN /\ surface' = "keys"
            /\ \E end \in BOOLEAN :
                   shift' = Settle(Reset(shift), CapsOf[field], end, auto)
            /\ taps' = "none"
            /\ astray' = astray \ {"released"}
            /\ UNCHANGED <<loads, wanted>>
       ELSE /\ AskLayout("return",
                         IF surface = "emoji" THEN Other(layout.kind)
                                              ELSE "letter")
            /\ taps' = Parted
            /\ UNCHANGED <<surface, shift>>
    /\ UNCHANGED <<layout, field, auto, switches, dict>>

-------------------------------------------------------------------------------
(* Keys, of the layout or of the emoji. *)

KeysTapped == (surface = "keys" /\ Shown) \/ surface = "emoji"

TapShift ==
    /\ surface = "keys"
    /\ Shown
    /\ layout.kind = "letter"
    /\ shift.window \/ shift.closings < MaxClosings
    /\ shift' = SingleTapShift(shift)
    /\ taps' = "close"
    /\ UNCHANGED <<layout, surface, field, auto, loads, switches, dict, wanted,
                   astray>>

TapReturn ==
    /\ KeysTapped
    /\ shift' = SingleTapReturn(shift, auto)
    /\ UNCHANGED <<layout, surface, field, auto, loads, switches, dict, wanted,
                   taps, astray>>

(* Any other key, or a picked suggestion. *)
TapOther ==
    /\ KeysTapped
    /\ \E end \in BOOLEAN : shift' = SingleTapOther(shift, end, auto)
    /\ taps' = "none"
    /\ UNCHANGED <<layout, surface, field, auto, loads, switches, dict, wanted,
                   astray>>

CloseWindow ==
    /\ shift.closings > 0
    /\ shift' = DoubleTapShiftKey(shift)
    /\ taps' = "none"
    /\ UNCHANGED <<layout, surface, field, auto, loads, switches, dict, wanted,
                   astray>>

Asking ==
    \/ \E f \in Fields : LoadKeyboard(f)
    \/ TapLayoutSwitch
    \/ TapMultiLanguage
    \/ ReturnToKeys

Loading == BeginLoad \/ TakeLayout \/ LoadFails

Next ==
    \/ Asking
    \/ RunSwitch
    \/ Loading
    \/ MemoryWarning
    \/ ShowEmoji
    \/ ShowSettings
    \/ TapAutoCapitalization
    \/ TapShift
    \/ TapReturn
    \/ TapOther
    \/ CloseWindow

Spec == Init /\ [][Next]_vars

(* Queues run what is on them and delayed calls come. *)
Fairness ==
    /\ WF_vars(Loading)
    /\ WF_vars(RunSwitch)
    /\ WF_vars(CloseWindow)

FairSpec == Spec /\ Fairness

-------------------------------------------------------------------------------
Rest == Pending = {}

(* On letter keys the shift key shows the state the case of the next word is *)
(* taken from, and there is a state: a key sends the letter it shows, the    *)
(* composer is told the state.  The one way apart is a layout that comes up  *)
(* over a state nobody reset.                                                *)
KeyShowsState ==
    (surface = "keys" /\ Shown /\ layout.kind = "letter"
     /\ "released" \notin astray)
        => shift.state # "none" /\ shift.key = Face[shift.state]

(* An open double-tap window has a delayed call that will close it, whatever *)
(* resets, layouts and other keys came between.                              *)
WindowWillClose == shift.window => shift.closings > 0

(* Something asked for is still to come up. *)
OnItsWay == Pending # {} \/ switches > 0

(* The lock is put on by a field all in capitals or by a second tap on shift *)
(* with returns at most between: never across another key, a layout that has *)
(* come up, the emoji or the settings.  The keys of a layout and a language  *)
(* and a new field close no window by themselves, so a tap on each side of   *)
(* one locks too, but only while the layout asked for is on its way or when  *)
(* its load has failed.                                                      *)
LockIsMeant ==
    [][shift'.state = "lock" /\ shift.state # "lock"
           => \/ shift'.caps = "all"
              \/ taps \in {"close", "failed"}
              \/ taps = "parted" /\ OnItsWay]_vars

(* When no load is on its way the layout shown is the one last asked for by  *)
(* the field or a key, though loads cancel each other: unless a switch of    *)
(* language was asked for meanwhile or a load failed.                        *)
LastAskedIsShown ==
    Rest /\ astray \cap {"robbed", "missed"} = {} => layout.kind = wanted

(* The letters shown obey the capitals of the field that has the cursor,     *)
(* though the layout may have been asked for when another one had it.        *)
CapsFollowField ==
    (Rest /\ Shown /\ layout.kind = "letter" /\ "missed" \notin astray)
        => shift.caps = CapsOf[field]

(* The dictionaries are of the language whose keys are shown, unless a       *)
(* layout was asked for while the switch was loading.                        *)
DictionaryMatchesKeys == "behind" \notin astray => dict = layout.lang

(* Once nobody asks, no load stays on its way: every load gives the          *)
(* semaphore back, a failed one too.                                         *)
LoadsSettle == []<><<Asking>>_vars \/ <>[]Rest
===============================================================================
