------------------------- MODULE KeyboardSwitchProofs -------------------------
(***************************************************************************)
(* Proofs about KeyboardSwitch, for every set of fields and languages.      *)
(* First what the methods of the shift key do to its record, then sequences *)
(* of loads, then the invariants, one after the other.                      *)
(***************************************************************************)
EXTENDS KeyboardSwitch, TLAPS

-------------------------------------------------------------------------------
(* The shift key. *)

(* The key shown is the face of the state, when there is a state. *)
Synced(o) == o.state # "none" => o.key \in {"nothing", Face[o.state]}

(* p is o after a method that sets the state and the key only. *)
Kept(o, p) ==
    /\ p \in ShiftStates
    /\ p.window = o.window /\ p.closings = o.closings /\ p.caps = o.caps
    /\ p.key = "nothing" <=> o.key = "nothing"

LEMMA SetFacts ==
    ASSUME NEW o \in ShiftStates, NEW s \in States \ {"none"}
    PROVE  LET p == SetCurrentShiftState(o, s)
           IN  /\ Kept(o, p)
               /\ Synced(o) => Synced(p)
               /\ p.state # "none"
               /\ p.state = "lock" <=> s = "lock"
  <1> DEFINE p == SetCurrentShiftState(o, s)
             key == IF o.key = "nothing" THEN "nothing" ELSE Face[s]
  <1>1. /\ Face["alpha"] = "normal" /\ Face["lock"] = "locked"
        /\ Face["manual"] = "selected" /\ Face["automatic"] = "selected"
    BY DEF Face
  <1>2. s \in {"alpha", "lock", "manual", "automatic"}
    BY DEF States, Shifted
  <1>3. key \in Faces /\ (key = "nothing" <=> o.key = "nothing")
    BY <1>1, <1>2 DEF Faces
  <1>4. CASE s = o.state \/ (s \in Shifted /\ o.state \in Shifted)
    <2>1. p = o
      BY <1>4 DEF SetCurrentShiftState
    <2> QED
      BY <1>2, <1>4, <2>1 DEF Kept, Shifted
  <1>5. CASE ~(s = o.state \/ (s \in Shifted /\ o.state \in Shifted))
    <2>1. p = [o EXCEPT !.state = s, !.key = key]
      BY <1>5 DEF SetCurrentShiftState, ShiftStates
    <2> HIDE DEF p, key
    <2>2. /\ p \in ShiftStates /\ p.state = s /\ p.key = key
          /\ p.window = o.window /\ p.closings = o.closings /\ p.caps = o.caps
      BY <1>3, <2>1 DEF ShiftStates
    <2>3. Synced(p)
      BY <2>2 DEF Synced, key
    <2> QED
      BY <1>2, <1>3, <2>2, <2>3 DEF Kept, p
  <1> QED
    BY <1>4, <1>5

LEMMA OtherFacts ==
    ASSUME NEW o \in ShiftStates, NEW end \in BOOLEAN, NEW a \in BOOLEAN
    PROVE  LET p == SingleTapOther(o, end, a)
           IN  /\ p \in ShiftStates
               /\ ~p.window
               /\ p.caps = o.caps
               /\ p.key = "nothing" <=> o.key = "nothing"
               /\ Synced(o) => Synced(p)
               /\ o.state # "none" => p.state # "none"
               /\ p.state = "lock" => o.state = "lock"
  <1> DEFINE c == [o EXCEPT !.window = FALSE, !.closings = 0]
  <1>1. /\ c \in ShiftStates /\ ~c.window /\ c.caps = o.caps
        /\ c.key = o.key /\ c.state = o.state
    BY DEF ShiftStates
  <1>2. Synced(o) => Synced(c)
    BY <1>1 DEF Synced
  <1>3. {"automatic", "alpha"} \subseteq States \ {"none"}
    BY DEF States, Shifted
  <1>4. \/ SingleTapOther(o, end, a) = c
        \/ SingleTapOther(o, end, a) = SetCurrentShiftState(c, "automatic")
        \/ SingleTapOther(o, end, a) = SetCurrentShiftState(c, "alpha")
    BY DEF SingleTapOther
  <1> HIDE DEF c
  <1> QED
    BY <1>1, <1>2, <1>3, <1>4, SetFacts DEF Kept

LEMMA TypeFacts ==
    ASSUME NEW o \in ShiftStates, NEW caps \in CapsTypes,
           NEW end \in BOOLEAN, NEW a \in BOOLEAN
    PROVE  LET p == SetAutocapitalizationType(o, caps, end, a)
           IN  /\ p \in ShiftStates
               /\ p.window = o.window /\ p.closings = o.closings
               /\ p.caps = caps
               /\ p.key = "nothing" <=> o.key = "nothing"
               /\ Synced(o) => Synced(p)
               /\ p.state # "none"
               /\ p.state = "lock" => caps = "all"
  <1> DEFINE k == IF caps = o.caps THEN o ELSE [o EXCEPT !.state = "none"]
             s == IF caps = "all" THEN "lock"
                  ELSE IF CapitalDue(caps, end, a) THEN "automatic" ELSE "alpha"
             p == SetCurrentShiftState(k, s)
  <1>1. /\ k \in ShiftStates /\ k.window = o.window
        /\ k.closings = o.closings /\ k.key = o.key
    BY DEF ShiftStates, States
  <1>2. Synced(o) => Synced(k)
    BY DEF Synced, ShiftStates
  <1>3. s \in States \ {"none"} /\ (s = "lock" => caps = "all")
    BY DEF States, Shifted
  <1>4. SetAutocapitalizationType(o, caps, end, a) = [p EXCEPT !.caps = caps]
    BY DEF SetAutocapitalizationType
  <1> HIDE DEF k, s
  <1>5. /\ Kept(k, p) /\ (Synced(k) => Synced(p)) /\ p.state # "none"
        /\ p.state = "lock" <=> s = "lock"
    BY <1>1, <1>3, SetFacts
  <1> HIDE DEF p
  <1>6. p \in ShiftStates
    BY <1>5 DEF Kept
  <1> DEFINE q == [p EXCEPT !.caps = caps]
  <1>7. /\ q \in ShiftStates /\ q.caps = caps /\ q.window = p.window
        /\ q.closings = p.closings /\ q.key = p.key /\ q.state = p.state
    BY <1>6 DEF ShiftStates
  <1> HIDE DEF q
  <1>8. Synced(p) => Synced(q)
    BY <1>7 DEF Synced
  <1> QED
    BY <1>1, <1>2, <1>3, <1>4, <1>5, <1>7, <1>8 DEF Kept, q

(* After Settle the window is closed, the type is the one given, and there *)
(* is a state.                                                             *)
LEMMA SettleFacts ==
    ASSUME NEW o \in ShiftStates, NEW caps \in CapsTypes,
           NEW end \in BOOLEAN, NEW a \in BOOLEAN
    PROVE  LET p == Settle(o, caps, end, a)
           IN  /\ p \in ShiftStates
               /\ ~p.window
               /\ p.caps = caps
               /\ p.key = "nothing" <=> o.key = "nothing"
               /\ Synced(o) => Synced(p)
               /\ p.state # "none"
               /\ p.state = "lock" => caps = "all"
  <1> DEFINE t == SingleTapOther(o, end, a)
  <1>1. /\ t \in ShiftStates /\ ~t.window
        /\ t.key = "nothing" <=> o.key = "nothing"
        /\ Synced(o) => Synced(t)
    BY OtherFacts
  <1>2. Settle(o, caps, end, a) = SetAutocapitalizationType(t, caps, end, a)
    BY DEF Settle
  <1> HIDE DEF t
  <1> QED
    BY <1>1, <1>2, TypeFacts

LEMMA ResetFacts ==
    ASSUME NEW o \in ShiftStates
    PROVE  LET p == Reset(o)
           IN  /\ p \in ShiftStates
               /\ ~p.window /\ p.caps = o.caps /\ p.key = o.key
               /\ p.state = "none" /\ Synced(p)
  BY DEF Reset, ShiftStates, States, Synced

LEMMA ReturnFacts ==
    ASSUME NEW o \in ShiftStates, NEW a \in BOOLEAN
    PROVE  LET p == SingleTapReturn(o, a)
           IN  /\ Kept(o, p)
               /\ Synced(o) => Synced(p)
               /\ p.state \notin {"none", "lock"}
  <1>1. {"automatic", "alpha"} \subseteq States \ {"none"}
    BY DEF States, Shifted
  <1>2. \/ SingleTapReturn(o, a) = SetCurrentShiftState(o, "automatic")
        \/ SingleTapReturn(o, a) = SetCurrentShiftState(o, "alpha")
    BY DEF SingleTapReturn
  <1> QED
    BY <1>1, <1>2, SetFacts

LEMMA ShiftFacts ==
    ASSUME NEW o \in ShiftStates
    PROVE  LET p == SingleTapShift(o)
           IN  /\ p \in ShiftStates
               /\ p.window /\ p.caps = o.caps
               /\ p.closings = IF o.window THEN o.closings ELSE o.closings + 1
               /\ p.key = "nothing" <=> o.key = "nothing"
               /\ Synced(o) => Synced(p)
               /\ o.state # "none" => p.state # "none"
               /\ p.state = "lock" => o.window \/ o.state = "lock"
  <1> DEFINE n == [o EXCEPT !.window = TRUE, !.closings = @ + 1]
  <1>1. /\ n \in ShiftStates /\ n.window /\ n.closings = o.closings + 1
        /\ n.caps = o.caps /\ n.key = o.key /\ n.state = o.state
    <2>1. o.closings + 1 \in Nat
      BY DEF ShiftStates
    <2> QED
      BY <2>1 DEF ShiftStates
  <1>2. Synced(o) => Synced(n)
    BY <1>1 DEF Synced
  <1>3. {"lock", "manual", "alpha"} \subseteq States \ {"none"}
    BY DEF States, Shifted
  <1> DEFINE p == SingleTapShift(o)
  <1>4. o.window => p = SetCurrentShiftState(o, "lock")
    BY DEF SingleTapShift
  <1>5. ~o.window => \/ p = n /\ o.state = "none"
                     \/ p = SetCurrentShiftState(n, "manual")
                     \/ p = SetCurrentShiftState(n, "alpha")
    BY DEF SingleTapShift
  <1> HIDE DEF n, p
  <1>6. CASE o.window
    BY <1>3, <1>4, <1>6, SetFacts DEF Kept, p
  <1>7. CASE ~o.window
    <2>1. CASE p = n /\ o.state = "none"
      BY <1>1, <1>2, <1>7, <2>1 DEF p
    <2>2. ASSUME NEW s \in {"manual", "alpha"}, p = SetCurrentShiftState(n, s)
          PROVE  /\ Kept(n, p) /\ (Synced(n) => Synced(p))
                 /\ p.state \notin {"none", "lock"}
      BY <1>1, <1>3, <2>2, SetFacts
    <2>3. CASE Kept(n, p) /\ (Synced(n) => Synced(p))
               /\ p.state \notin {"none", "lock"}
      BY <1>1, <1>2, <1>7, <2>3 DEF Kept, p
    <2> QED
      BY <1>5, <1>7, <2>1, <2>2, <2>3
  <1> QED
    BY <1>6, <1>7

LEMMA ClosingFacts ==
    ASSUME NEW o \in ShiftStates, o.closings > 0
    PROVE  LET p == DoubleTapShiftKey(o)
           IN  /\ p \in ShiftStates
               /\ ~p.window /\ p.caps = o.caps
               /\ p.key = o.key /\ p.state = o.state
  <1>1. o.closings - 1 \in Nat
    BY DEF ShiftStates
  <1> QED
    BY <1>1 DEF DoubleTapShiftKey, ShiftStates

LEMMA KeyFacts ==
    ASSUME NEW o \in ShiftStates, NEW key \in {"normal", "nothing"}
    PROVE  LET p == [o EXCEPT !.key = key]
           IN  /\ p \in ShiftStates /\ p.key = key
               /\ p.window = o.window /\ p.closings = o.closings
               /\ p.caps = o.caps /\ p.state = o.state
  BY DEF ShiftStates, Faces

-------------------------------------------------------------------------------
(* Loads and their sequence. *)

LEMMA LoadFacts ==
    ASSUME NEW for \in {"field", "language", "return"}, NEW kind \in Kinds,
           NEW lang \in Languages
    PROVE  LET r == Load(for, kind, lang)
           IN  r \in Loads /\ r.for = for /\ r.kind = kind /\ r.lang = lang
  BY DEF Load, Loads

LEMMA NoLoadFacts == NoLoad \notin Loads
  BY DEF NoLoad, Loads

LEMMA TailFacts ==
    ASSUME NEW S, NEW s \in Seq(S), s # <<>>
    PROVE  /\ Head(s) \in S /\ Head(s) = s[1]
           /\ Len(s) \in Nat /\ Len(s) > 0
           /\ Tail(s) \in Seq(S) /\ Len(Tail(s)) = Len(s) - 1
           /\ \A i \in 1 .. Len(s) - 1 : Tail(s)[i] = s[i + 1]
  OBVIOUS

LEMMA AppendFacts ==
    ASSUME NEW S, NEW s \in Seq(S), NEW e \in S
    PROVE  /\ Append(s, e) \in Seq(S) /\ Len(Append(s, e)) = Len(s) + 1
           /\ Append(s, e)[Len(s) + 1] = e
           /\ \A i \in 1 .. Len(s) : Append(s, e)[i] = s[i]
  OBVIOUS

LEMMA RestFacts ==
    ASSUME TypeOK
    PROVE  Rest <=> asked = NoLoad /\ begun = <<>>
  <1>1. begun # <<>> => 1 \in DOMAIN begun
    BY DEF TypeOK
  <1>2. begun = <<>> => DOMAIN begun = {}
    OBVIOUS
  <1> QED
    BY <1>1, <1>2 DEF Rest, Pending

-------------------------------------------------------------------------------
(* Types, and what cannot have happened while there is no field. *)

FieldInv ==
    field = NoField => /\ asked = NoLoad /\ begun = <<>> /\ switches = 0
                       /\ ~Shown /\ surface = "keys"

LEMMA OtherKind ==
    ASSUME NEW kind \in Kinds
    PROVE  Other(kind) \in Kinds
  BY DEF Other, Kinds

LEMMA AskType ==
    ASSUME TypeOK, NEW for \in {"field", "return"}, NEW kind \in Kinds,
           AskLayout(for, kind)
    PROVE  /\ asked' \in Loads /\ asked'.for = for /\ asked'.kind = kind
           /\ asked'.lang = layout.lang
           /\ wanted' \in Kinds /\ begun' = begun /\ exposed' = exposed
           /\ astray' \subseteq Troubles
  <1>1. layout.lang \in Languages
    BY DEF TypeOK
  <1> QED
    BY <1>1, LoadFacts DEF AskLayout, TypeOK, Troubles

LEMMA TakenFacts ==
    ASSUME TypeOK, FieldInv, begun # <<>>, NEW end \in BOOLEAN
    PROVE  LET load == Head(begun)
               p == TakenShift(load, end)
           IN  /\ load \in Loads /\ field \in Fields /\ CapsOf[field] \in CapsTypes
               /\ p \in ShiftStates /\ p.key # "nothing"
               /\ ~p.window
               /\ load.kind = "letter" => /\ p.state # "none"
                                          /\ p.caps = CapsOf[field]
               /\ p.state = "lock" => p.caps = "all"
               /\ "released" \notin TakenAstray(load) => Synced(p)
  <1> DEFINE load == Head(begun)
             fresh == [shift EXCEPT !.key = "normal"]
             base == IF load.for = "return" /\ load.kind = "letter"
                     THEN fresh ELSE Reset(fresh)
             p == TakenShift(load, end)
  <1>1. load \in Loads
    BY TailFacts DEF TypeOK
  <1>2. field \in Fields /\ CapsOf[field] \in CapsTypes
    BY FieldsAssumption DEF TypeOK, FieldInv
  <1>3. /\ fresh \in ShiftStates /\ fresh.key = "normal"
        /\ fresh.state = shift.state
    BY KeyFacts DEF TypeOK
  <1>4. auto \in BOOLEAN
    BY DEF TypeOK
  <1> HIDE DEF fresh
  <1>5. /\ base \in ShiftStates /\ base.key = "normal"
        /\ load.kind # "letter" => base.state = "none" /\ ~base.window
    BY <1>3, ResetFacts
  <1>6. "released" \notin TakenAstray(load) => Synced(base)
    <2>1. CASE load.for = "return" /\ load.kind = "letter"
      <3>1. "released" \notin TakenAstray(load) =>
                shift.state \in {"none", "alpha"}
        BY <2>1 DEF TakenAstray
      <3> QED
        BY <1>3, <2>1, <3>1 DEF Synced, Face
    <2>2. CASE ~(load.for = "return" /\ load.kind = "letter")
      BY <1>3, <2>2, ResetFacts
    <2> QED
      BY <2>1, <2>2
  <1>7. p = IF load.kind = "letter" THEN Settle(base, CapsOf[field], end, auto)
                                    ELSE base
    BY DEF TakenShift, fresh
  <1> HIDE DEF base, p
  <1>8. CASE load.kind = "letter"
    BY <1>1, <1>2, <1>4, <1>5, <1>6, <1>7, <1>8, SettleFacts DEF p
  <1>9. CASE load.kind # "letter"
    BY <1>1, <1>2, <1>5, <1>6, <1>7, <1>9 DEF p
  <1> QED
    BY <1>8, <1>9

LEMMA TypeStep ==
    ASSUME TypeOK, FieldInv, [Next]_vars
    PROVE  TypeOK' /\ FieldInv'
  <1> USE DEF TypeOK, FieldInv, Taps, Parted, Failed
  <1>t. /\ shift \in ShiftStates /\ auto \in BOOLEAN
        /\ field \in Fields => CapsOf[field] \in CapsTypes
        /\ "keys" \in Surfaces /\ "emoji" \in Surfaces
        /\ "settings" \in Surfaces
    BY FieldsAssumption DEF Surfaces
  <1>1. ASSUME NEW f \in Fields, LoadKeyboard(f)
        PROVE  TypeOK' /\ FieldInv'
    <2>1. CapsOf[f] \in CapsTypes /\ KindOf[f] \in Kinds /\ f # NoField
      BY FieldsAssumption
    <2>2. CASE f # field
      <3>1. AskLayout("field", KindOf[f]) /\ field' = f /\ UNCHANGED shift
        BY <1>1, <2>2 DEF LoadKeyboard
      <3> QED
        BY <1>1, <2>1, <3>1, AskType DEF LoadKeyboard, Shown
    <2>3. CASE f = field
      <3>1. PICK end \in BOOLEAN : shift' = Settle(shift, CapsOf[f], end, auto)
        BY <1>1, <2>3 DEF LoadKeyboard
      <3>2. shift' \in ShiftStates
        BY <1>t, <2>1, <3>1, SettleFacts
      <3> QED
        BY <1>1, <2>1, <2>3, <3>2 DEF LoadKeyboard, loads
    <2> QED
      BY <2>2, <2>3
  <1>2. CASE TapLayoutSwitch
    <2>1. Other(layout.kind) \in Kinds
      BY OtherKind
    <2> QED
      BY <1>2, <2>1, AskType DEF TapLayoutSwitch
  <1>3. CASE TapMultiLanguage
    <2>1. switches + 1 \in Nat
      OBVIOUS
    <2> QED
      BY <1>3, <2>1 DEF TapMultiLanguage, loads, Shown
  <1>4. CASE ReturnToKeys
    <2>1. CASE Shown
      <3>1. PICK end \in BOOLEAN :
                shift' = Settle(Reset(shift), CapsOf[field], end, auto)
        BY <1>4, <2>1 DEF ReturnToKeys
      <3>2. shift' \in ShiftStates
        BY <1>t, <2>1, <3>1, SettleFacts, ResetFacts
      <3> QED
        BY <1>4, <1>t, <2>1, <3>2 DEF ReturnToKeys, loads
    <2>2. CASE ~Shown
      <3>1. PICK kind \in Kinds : AskLayout("return", kind)
        BY <1>4, <2>2, OtherKind DEF ReturnToKeys, Kinds
      <3> QED
        BY <1>4, <2>2, <3>1, AskType DEF ReturnToKeys
    <2> QED
      BY <2>1, <2>2
  <1>5. CASE RunSwitch
    <2>1. NextLanguage[layout.lang] \in Languages
      BY LanguagesAssumption
    <2>2. asked' \in Loads
      BY <1>5, <2>1, LoadFacts DEF RunSwitch
    <2>3. switches - 1 \in Nat
      BY <1>5 DEF RunSwitch
    <2> QED
      BY <1>5, <2>2, <2>3 DEF RunSwitch, Troubles, Shown
  <1>6. CASE BeginLoad
    <2>1. asked \in Loads
      BY <1>6 DEF BeginLoad
    <2> QED
      BY <1>6, <2>1, AppendFacts DEF BeginLoad, Shown
  <1>7. CASE TakeLayout
    <2>1. PICK end \in BOOLEAN : shift' = TakenShift(Head(begun), end)
      BY <1>7 DEF TakeLayout
    <2>2. /\ Head(begun) \in Loads /\ field \in Fields /\ shift' \in ShiftStates
      BY <1>7, <2>1, TakenFacts DEF TakeLayout
    <2>3. TakenAstray(Head(begun)) \subseteq Troubles
      BY DEF TakenAstray, Troubles
    <2>4. /\ Head(begun).kind \in Kinds /\ Head(begun).lang \in Languages
      BY <2>2 DEF Loads
    <2>5. begun' \in Seq(Loads) /\ Len(begun') <= 2
      BY <1>7, TailFacts DEF TakeLayout
    <2> QED
      BY <1>7, <1>t, <2>2, <2>3, <2>4, <2>5, FieldsAssumption DEF TakeLayout
  <1>8. CASE LoadFails
    <2>1. begun' \in Seq(Loads) /\ Len(begun') <= 2
      BY <1>8, TailFacts DEF LoadFails
    <2> QED
      BY <1>8, <2>1 DEF LoadFails, Troubles, Shown
  <1>9. CASE MemoryWarning
    <2>1. shift' \in ShiftStates /\ (~Shown => ~Shown')
      BY <1>9, KeyFacts DEF MemoryWarning, Shown
    <2> QED
      BY <1>9, <2>1 DEF MemoryWarning
  <1>10. CASE ShowEmoji
    <2>1. shift' \in ShiftStates
      BY <1>10, ResetFacts DEF ShowEmoji
    <2> QED
      BY <1>10, <1>t, <2>1 DEF ShowEmoji, loads
  <1>11. CASE ShowSettings
    BY <1>11, <1>t DEF ShowSettings, loads
  <1>12. CASE TapAutoCapitalization
    BY <1>12 DEF TapAutoCapitalization, loads, Shown
  <1>13. CASE TapShift
    <2>1. shift' \in ShiftStates
      BY <1>13, ShiftFacts DEF TapShift
    <2> QED
      BY <1>13, <2>1 DEF TapShift, loads
  <1>14. CASE TapReturn
    <2>1. shift' \in ShiftStates
      BY <1>14, ReturnFacts DEF TapReturn, Kept
    <2> QED
      BY <1>14, <2>1 DEF TapReturn, loads, KeysTapped
  <1>15. CASE TapOther
    <2>1. shift' \in ShiftStates
      BY <1>15, OtherFacts DEF TapOther
    <2> QED
      BY <1>15, <2>1 DEF TapOther, loads, KeysTapped
  <1>16. CASE CloseWindow
    <2>1. shift' \in ShiftStates /\ (~Shown => ~Shown')
      BY <1>16, ClosingFacts DEF CloseWindow, Shown
    <2> QED
      BY <1>16, <2>1 DEF CloseWindow, loads
  <1>17. CASE UNCHANGED vars
    BY <1>17 DEF vars, Shown
  <1> QED
    BY <1>1, <1>2, <1>3, <1>4, <1>5, <1>6, <1>7, <1>8, <1>9, <1>10, <1>11,
       <1>12, <1>13, <1>14, <1>15, <1>16, <1>17 DEF Next, Asking, Loading

LEMMA NewShift == /\ NewShiftState \in ShiftStates
                  /\ NewShiftState.key = "nothing"
                  /\ NewShiftState.state = "none"
                  /\ ~NewShiftState.window
  BY DEF NewShiftState, ShiftStates, States, CapsTypes, Faces

LEMMA TypeInit == Init => TypeOK /\ FieldInv
  <1> SUFFICES ASSUME Init PROVE TypeOK /\ FieldInv
    OBVIOUS
  <1>1. layout \in [kind : Kinds, lang : Languages]
    BY LanguagesAssumption DEF Init, Kinds
  <1>2. begun \in Seq(Loads) /\ Len(begun) <= 2 /\ asked = NoLoad
    BY DEF Init
  <1>3. shift \in ShiftStates /\ dict \in Languages /\ astray \subseteq Troubles
    BY NewShift, LanguagesAssumption DEF Init
  <1>4. /\ surface \in Surfaces /\ wanted \in Kinds /\ switches \in Nat
        /\ auto \in BOOLEAN /\ exposed \in BOOLEAN /\ taps \in Taps
        /\ field = NoField
    BY DEF Init, Surfaces, Kinds, Taps
  <1>5. TypeOK
    BY <1>1, <1>2, <1>3, <1>4 DEF TypeOK
  <1>6. FieldInv
    BY NewShift DEF Init, FieldInv, Shown
  <1> QED
    BY <1>5, <1>6

(* Every variable keeps its type: in particular at most two loads have begun. *)
THEOREM TypeCorrect == Spec => [](TypeOK /\ FieldInv)
  <1>1. Init => TypeOK /\ FieldInv
    BY TypeInit
  <1>2. TypeOK /\ FieldInv /\ [Next]_vars => (TypeOK /\ FieldInv)'
    BY TypeStep
  <1> QED
    BY <1>1, <1>2, PTL DEF Spec

-------------------------------------------------------------------------------
(* The shift key under every step.  What a step does to it is one of these.  *)

ShiftStep ==
    \/ /\ shift' = shift
       /\ layout' = layout
       /\ astray \cap {"released", "missed"} \subseteq astray'
       /\ \/ surface' = surface /\ taps' \in {taps, Parted, Failed}
          \/ surface' # "keys"
    \/ \E end \in BOOLEAN :                            \* settled
         /\ shift' = Settle(shift, CapsOf[field], end, auto)
         /\ layout' = layout /\ astray' = astray /\ surface' = surface
         /\ field \in Fields /\ taps' = "none"
    \/ \E end \in BOOLEAN :                            \* back from a cover
         /\ shift' = Settle(Reset(shift), CapsOf[field], end, auto)
         /\ layout' = layout /\ field \in Fields /\ taps' = "none"
    \/ TakeLayout
    \/ /\ shift' = [shift EXCEPT !.key = "nothing"]    \* given up
       /\ layout' = layout /\ astray' = astray /\ surface' = surface
       /\ taps' = taps
    \/ /\ shift' = Reset(shift)                        \* the emoji
       /\ layout' = layout /\ surface' # "keys" /\ taps' = "none"
    \/ /\ layout' = layout /\ astray' = astray /\ surface' = surface
       /\ TapShift \/ TapReturn \/ TapOther \/ CloseWindow

LEMMA ShiftStepOf ==
    ASSUME TypeOK, FieldInv, Next
    PROVE  ShiftStep
  <1>1. ASSUME NEW f \in Fields, LoadKeyboard(f)
        PROVE  ShiftStep
    <2>1. CASE f # field
      BY <1>1, <2>1 DEF LoadKeyboard, AskLayout, ShiftStep
    <2>2. CASE f = field
      BY <1>1, <2>2 DEF LoadKeyboard, ShiftStep
    <2> QED
      BY <2>1, <2>2
  <1>2. CASE TapLayoutSwitch
    BY <1>2 DEF TapLayoutSwitch, AskLayout, ShiftStep
  <1>3. CASE TapMultiLanguage
    BY <1>3 DEF TapMultiLanguage, ShiftStep
  <1>4. CASE ReturnToKeys
    <2>1. field \in Fields
      BY <1>4 DEF ReturnToKeys, TypeOK, FieldInv
    <2>2. CASE Shown
      BY <1>4, <2>1, <2>2 DEF ReturnToKeys, ShiftStep
    <2>3. CASE ~Shown
      BY <1>4, <2>3 DEF ReturnToKeys, AskLayout, ShiftStep
    <2> QED
      BY <2>2, <2>3
  <1>5. CASE RunSwitch
    BY <1>5 DEF RunSwitch, ShiftStep
  <1>6. CASE BeginLoad
    BY <1>6 DEF BeginLoad, ShiftStep
  <1>7. CASE TakeLayout
    BY <1>7 DEF ShiftStep
  <1>8. CASE LoadFails
    BY <1>8 DEF LoadFails, ShiftStep
  <1>9. CASE MemoryWarning
    BY <1>9 DEF MemoryWarning, ShiftStep
  <1>10. CASE ShowEmoji
    BY <1>10 DEF ShowEmoji, ShiftStep
  <1>11. CASE ShowSettings
    BY <1>11 DEF ShowSettings, ShiftStep
  <1>12. CASE TapAutoCapitalization
    BY <1>12 DEF TapAutoCapitalization, ShiftStep
  <1>13. CASE TapShift \/ TapReturn \/ TapOther \/ CloseWindow
    BY <1>13 DEF TapShift, TapReturn, TapOther, CloseWindow, ShiftStep
  <1> QED
    BY <1>1, <1>2, <1>3, <1>4, <1>5, <1>6, <1>7, <1>8, <1>9, <1>10, <1>11,
       <1>12, <1>13 DEF Next, Asking, Loading

(* What the window, the taps and the state keep to each other: on the keys,  *)
(* where shift is tapped, an open window comes of a tap not yet answered.    *)
ShiftInv ==
    /\ WindowWillClose
    /\ surface = "keys" /\ shift.window => taps # "none"
    /\ "released" \notin astray => Synced(shift)
    /\ surface = "keys" /\ Shown /\ layout.kind = "letter"
           => shift.state # "none"

LockStep ==
    shift'.state = "lock" /\ shift.state # "lock"
        => taps # "none" \/ shift'.caps = "all"

LEMMA ShiftInvStep ==
    ASSUME TypeOK, FieldInv, ShiftInv, Next
    PROVE  ShiftInv' /\ LockStep
  <1> USE DEF ShiftInv, LockStep, WindowWillClose, Shown
  <1>t. /\ shift \in ShiftStates /\ auto \in BOOLEAN
        /\ field \in Fields => CapsOf[field] \in CapsTypes
    BY FieldsAssumption DEF TypeOK
  <1>0. ShiftStep
    BY ShiftStepOf
  <1>1. ASSUME shift' = shift, layout' = layout,
               astray \cap {"released", "missed"} \subseteq astray',
               \/ surface' = surface /\ taps' \in {taps, Parted, Failed}
               \/ surface' # "keys"
        PROVE  ShiftInv' /\ LockStep
    BY <1>1 DEF Synced, Parted, Failed
  <1>2. ASSUME NEW end \in BOOLEAN, field \in Fields, taps' = "none",
               shift' = Settle(shift, CapsOf[field], end, auto),
               layout' = layout, astray' = astray, surface' = surface
        PROVE  ShiftInv' /\ LockStep
    <2>1. /\ ~shift'.window /\ shift'.caps = CapsOf[field]
          /\ Synced(shift) => Synced(shift')
          /\ shift'.state # "none"
          /\ shift'.state = "lock" => CapsOf[field] = "all"
      BY <1>t, <1>2, SettleFacts
    <2>2. Synced(shift)' <=> Synced(shift')
      BY DEF Synced
    <2> QED
      BY <1>2, <2>1, <2>2
  <1>3. ASSUME NEW end \in BOOLEAN, field \in Fields, taps' = "none",
               shift' = Settle(Reset(shift), CapsOf[field], end, auto)
        PROVE  ShiftInv' /\ LockStep
    <2>1. /\ ~shift'.window /\ shift'.caps = CapsOf[field] /\ Synced(shift')
          /\ shift'.state # "none"
          /\ shift'.state = "lock" => CapsOf[field] = "all"
      BY <1>t, <1>3, ResetFacts, SettleFacts
    <2>2. Synced(shift)' <=> Synced(shift')
      BY DEF Synced
    <2> QED
      BY <1>3, <2>1, <2>2
  <1>4. CASE TakeLayout
    <2>1. PICK end \in BOOLEAN : shift' = TakenShift(Head(begun), end)
      BY <1>4 DEF TakeLayout
    <2>2. /\ astray' = TakenAstray(Head(begun)) /\ taps' = "none"
          /\ layout' = [kind |-> Head(begun).kind, lang |-> Head(begun).lang]
          /\ begun # <<>>
      BY <1>4 DEF TakeLayout
    <2>3. /\ ~shift'.window
          /\ Head(begun).kind = "letter" => shift'.state # "none"
          /\ shift'.state = "lock" => shift'.caps = "all"
          /\ "released" \notin astray' => Synced(shift')
      BY <2>1, <2>2, TakenFacts
    <2>4. Synced(shift)' <=> Synced(shift')
      BY DEF Synced
    <2> QED
      BY <2>2, <2>3, <2>4
  <1>5. ASSUME shift' = [shift EXCEPT !.key = "nothing"], layout' = layout,
               astray' = astray, surface' = surface, taps' = taps
        PROVE  ShiftInv' /\ LockStep
    <2>1. /\ shift'.key = "nothing" /\ shift'.window = shift.window
          /\ shift'.closings = shift.closings /\ shift'.state = shift.state
      BY <1>t, <1>5, KeyFacts
    <2> QED
      BY <1>5, <2>1 DEF Synced
  <1>6. ASSUME shift' = Reset(shift), layout' = layout, surface' # "keys", taps' = "none"
        PROVE  ShiftInv' /\ LockStep
    <2>1. ~shift'.window /\ shift'.state = "none"
      BY <1>t, <1>6, ResetFacts
    <2> QED
      BY <1>6, <2>1 DEF Synced
  <1>7. ASSUME layout' = layout, astray' = astray, surface' = surface,
               TapShift \/ TapReturn \/ TapOther \/ CloseWindow
        PROVE  ShiftInv' /\ LockStep
    <2>0. Synced(shift)' <=> Synced(shift')
      BY DEF Synced
    <2>1. CASE TapShift
      <3>1. /\ shift'.window
            /\ shift'.closings = IF shift.window THEN shift.closings
                                 ELSE shift.closings + 1
            /\ Synced(shift) => Synced(shift')
            /\ shift.state # "none" => shift'.state # "none"
            /\ shift'.state = "lock" => shift.window \/ shift.state = "lock"
            /\ shift'.key = "nothing" <=> shift.key = "nothing"
        BY <1>t, <2>1, ShiftFacts DEF TapShift
      <3>2. taps' = "close" /\ surface = "keys"
        BY <2>1 DEF TapShift
      <3>3. shift'.closings > 0
        BY <1>t, <3>1 DEF ShiftStates
      <3> QED
        BY <1>7, <2>0, <3>1, <3>2, <3>3
    <2>2. CASE TapReturn
      <3>1. /\ Kept(shift, shift')
            /\ Synced(shift) => Synced(shift')
            /\ shift'.state \notin {"none", "lock"}
        BY <1>t, <2>2, ReturnFacts DEF TapReturn
      <3>2. taps' = taps
        BY <2>2 DEF TapReturn
      <3> QED
        BY <1>7, <2>0, <3>1, <3>2 DEF Kept
    <2>3. CASE TapOther
      <3>1. /\ ~shift'.window
            /\ shift'.key = "nothing" <=> shift.key = "nothing"
            /\ Synced(shift) => Synced(shift')
            /\ shift.state # "none" => shift'.state # "none"
            /\ shift'.state = "lock" => shift.state = "lock"
        BY <1>t, <2>3, OtherFacts DEF TapOther
      <3> QED
        BY <1>7, <2>0, <3>1
    <2>4. CASE CloseWindow
      <3>1. /\ ~shift'.window /\ shift'.key = shift.key
            /\ shift'.state = shift.state
        BY <1>t, <2>4, ClosingFacts DEF CloseWindow
      <3> QED
        BY <1>7, <3>1 DEF Synced
    <2> QED
      BY <1>7, <2>1, <2>2, <2>3, <2>4
  <1> QED
    BY <1>0, <1>1, <1>2, <1>3, <1>4, <1>5, <1>6, <1>7 DEF ShiftStep

LEMMA ShiftInvInit == Init => ShiftInv
  BY NewShift DEF Init, ShiftInv, WindowWillClose, Shown, Synced

LEMMA ShiftInvCorrect == Spec => []ShiftInv
  <1>1. Init => ShiftInv
    BY ShiftInvInit
  <1>2. TypeOK /\ FieldInv /\ ShiftInv /\ [Next]_vars => ShiftInv'
    <2>1. UNCHANGED vars /\ ShiftInv => ShiftInv'
      BY DEF vars, ShiftInv, WindowWillClose, Shown, Synced
    <2> QED
      BY <2>1, ShiftInvStep
  <1> QED
    BY <1>1, <1>2, TypeCorrect, PTL DEF Spec

(* KeyboardShiftState and the layout agree on letter keys: what a key sends  *)
(* and what the composer is told.                                            *)
THEOREM KeyAlwaysShowsState == Spec => []KeyShowsState
  <1>1. TypeOK /\ ShiftInv => KeyShowsState
    BY DEF ShiftInv, KeyShowsState, Synced, Shown
  <1> QED
    BY <1>1, TypeCorrect, ShiftInvCorrect, PTL

(* An open double-tap window always has its closing on the way.              *)
THEOREM WindowAlwaysCloses == Spec => []WindowWillClose
  <1>1. ShiftInv => WindowWillClose
    BY DEF ShiftInv
  <1> QED
    BY <1>1, ShiftInvCorrect, PTL

(* Where taps were parted, what was asked for between them is on its way.    *)
PartedInv ==
    taps = "parted" => asked # NoLoad \/ begun # <<>> \/ switches > 0

LEMMA PartedStep ==
    ASSUME TypeOK, PartedInv, [Next]_vars
    PROVE  PartedInv'
  <1> USE DEF PartedInv
  <1>0. NoLoad \notin Loads
    BY NoLoadFacts
  <1>1. ASSUME NEW for, NEW kind, AskLayout(for, kind)
        PROVE  asked' # NoLoad
    BY <1>1 DEF AskLayout, Load, NoLoad
  <1>2. ASSUME NEW f \in Fields, LoadKeyboard(f)
        PROVE  PartedInv'
    BY <1>1, <1>2 DEF LoadKeyboard
  <1>3. CASE TapLayoutSwitch
    BY <1>1, <1>3 DEF TapLayoutSwitch
  <1>4. CASE TapMultiLanguage
    <2>1. switches' > 0
      BY <1>4 DEF TapMultiLanguage, TypeOK
    <2> QED
      BY <2>1
  <1>5. CASE ReturnToKeys
    BY <1>1, <1>5 DEF ReturnToKeys
  <1>6. CASE RunSwitch
    BY <1>6 DEF RunSwitch, Load, NoLoad
  <1>7. CASE BeginLoad
    <2>1. begun' # <<>>
      BY <1>7, AppendFacts DEF BeginLoad, TypeOK
    <2> QED
      BY <2>1
  <1>8. CASE LoadFails
    BY <1>8 DEF LoadFails, Failed
  <1>9. CASE TakeLayout \/ ShowEmoji \/ ShowSettings \/ TapShift \/ TapOther
             \/ CloseWindow
    BY <1>9 DEF TakeLayout, ShowEmoji, ShowSettings, TapShift, TapOther,
                CloseWindow
  <1>10. CASE MemoryWarning \/ TapAutoCapitalization \/ TapReturn
              \/ UNCHANGED vars
    BY <1>10 DEF MemoryWarning, TapAutoCapitalization, TapReturn, loads, vars
  <1> QED
    BY <1>2, <1>3, <1>4, <1>5, <1>6, <1>7, <1>8, <1>9, <1>10
       DEF Next, Asking, Loading

LEMMA PartedInvCorrect == Spec => []PartedInv
  <1>1. Init => PartedInv
    BY DEF Init, PartedInv
  <1> QED
    BY <1>1, PartedStep, TypeCorrect, PTL DEF Spec

LEMMA PartedOnItsWay ==
    ASSUME TypeOK, PartedInv, taps = "parted"
    PROVE  OnItsWay
  BY RestFacts DEF PartedInv, OnItsWay, Rest

(* No key, layout or cover between the two taps of a lock, and a request      *)
(* only as long as what it asked for is on its way or when its load failed.   *)
THEOREM LockAlwaysMeant == Spec => LockIsMeant
  <1> DEFINE meant ==
        shift'.state = "lock" /\ shift.state # "lock"
            => \/ shift'.caps = "all"
               \/ taps \in {"close", "failed"}
               \/ taps = "parted" /\ OnItsWay
  <1>1. TypeOK /\ FieldInv /\ ShiftInv /\ PartedInv /\ [Next]_vars => [meant]_vars
    <2>1. CASE TypeOK /\ FieldInv /\ ShiftInv /\ PartedInv /\ Next
      <3>1. taps \in {"none", "close", "parted", "failed"}
        BY <2>1 DEF TypeOK, Taps
      <3>2. taps = "parted" => OnItsWay
        BY <2>1, PartedOnItsWay
      <3> QED
        BY <2>1, <3>1, <3>2, ShiftInvStep DEF LockStep
    <2> QED
      BY <2>1
  <1> QED
    BY <1>1, TypeCorrect, ShiftInvCorrect, PartedInvCorrect, PTL
       DEF Spec, LockIsMeant

-------------------------------------------------------------------------------
(* Loads.  What a step does to them is one of these.                         *)

LoadStep ==
    \/ /\ asked' = asked /\ begun' = begun /\ layout' = layout /\ dict' = dict
       /\ wanted' = wanted
       /\ astray \cap {"behind", "robbed", "missed"} \subseteq astray'
    \/ \E for \in {"field", "return"}, kind \in Kinds :
           /\ AskLayout(for, kind)
           /\ layout' = layout /\ dict' = dict
    \/ RunSwitch
    \/ BeginLoad
    \/ TakeLayout
    \/ LoadFails

LEMMA LoadStepOf ==
    ASSUME TypeOK, [Next]_vars
    PROVE  LoadStep
  <1>1. ASSUME NEW f \in Fields, LoadKeyboard(f)
        PROVE  LoadStep
    <2>1. KindOf[f] \in Kinds
      BY FieldsAssumption
    <2> QED
      BY <1>1, <2>1 DEF LoadKeyboard, loads, LoadStep
  <1>2. CASE TapLayoutSwitch
    <2>1. Other(layout.kind) \in Kinds
      BY OtherKind DEF TypeOK
    <2> QED
      BY <1>2, <2>1 DEF TapLayoutSwitch, LoadStep
  <1>3. CASE TapMultiLanguage
    BY <1>3 DEF TapMultiLanguage, loads, LoadStep
  <1>4. CASE ReturnToKeys
    <2>1. /\ Other(layout.kind) \in Kinds /\ "letter" \in Kinds
          /\ layout' = layout /\ dict' = dict
      BY <1>4, OtherKind DEF TypeOK, Kinds, ReturnToKeys
    <2>2. CASE Shown
      BY <1>4, <2>1, <2>2 DEF ReturnToKeys, loads, LoadStep
    <2>3. CASE ~Shown /\ surface = "emoji"
      <3>1. AskLayout("return", Other(layout.kind))
        BY <1>4, <2>3 DEF ReturnToKeys
      <3> QED
        BY <2>1, <3>1 DEF LoadStep
    <2>4. CASE ~Shown /\ surface # "emoji"
      <3>1. AskLayout("return", "letter")
        BY <1>4, <2>4 DEF ReturnToKeys
      <3> QED
        BY <2>1, <3>1 DEF LoadStep
    <2> QED
      BY <2>2, <2>3, <2>4
  <1>5. CASE MemoryWarning
    BY <1>5 DEF MemoryWarning, LoadStep
  <1>6. CASE ShowEmoji \/ ShowSettings \/ TapAutoCapitalization
    BY <1>6 DEF ShowEmoji, ShowSettings, TapAutoCapitalization, loads, LoadStep
  <1>7. CASE TapShift \/ TapReturn \/ TapOther \/ CloseWindow
    BY <1>7 DEF TapShift, TapReturn, TapOther, CloseWindow, loads, LoadStep
  <1>8. CASE UNCHANGED vars
    BY <1>8 DEF vars, LoadStep
  <1>9. CASE RunSwitch \/ Loading
    BY <1>9 DEF Loading, LoadStep
  <1> QED
    BY <1>1, <1>2, <1>3, <1>4, <1>5, <1>6, <1>7, <1>8, <1>9 DEF Next, Asking

(* While no layout was asked for behind a switch, the layouts in line speak  *)
(* the language shown and have no switch ahead of them.                      *)
DictInv ==
    "behind" \notin astray =>
        /\ dict = layout.lang
        /\ asked # NoLoad /\ asked.for # "language"
               => /\ asked.lang = layout.lang
                  /\ \A i \in 1 .. Len(begun) : begun[i].for # "language"
        /\ \A i \in 1 .. Len(begun) : begun[i].for # "language"
               => /\ begun[i].lang = layout.lang
                  /\ \A j \in 1 .. i : begun[j].for # "language"

LEMMA DictStep ==
    ASSUME TypeOK, DictInv, LoadStep
    PROVE  DictInv'
  <1> USE DEF DictInv
  <1>t. begun \in Seq(Loads) /\ Len(begun) \in Nat
    BY DEF TypeOK
  <1>1. ASSUME asked' = asked, begun' = begun, layout' = layout, dict' = dict,
               astray \cap {"behind"} \subseteq astray'
        PROVE  DictInv'
    BY <1>1
  <1>2. ASSUME NEW for \in {"field", "return"}, NEW kind \in Kinds,
               AskLayout(for, kind), layout' = layout, dict' = dict
        PROVE  DictInv'
    <2>1. /\ asked'.lang = layout.lang /\ asked'.for # "language"
          /\ begun' = begun
      BY <1>2, AskType
    <2>2. /\ astray \subseteq astray'
          /\ (\E i \in 1 .. Len(begun) : begun[i].for = "language")
                 => "behind" \in astray'
      BY <1>2, <1>t DEF AskLayout
    <2> QED
      BY <1>2, <2>1, <2>2
  <1>3. CASE RunSwitch
    <2>1. asked'.for = "language"
      BY <1>3 DEF RunSwitch, Load
    <2>2. /\ astray \subseteq astray' /\ begun' = begun /\ layout' = layout
          /\ dict' = dict
      BY <1>3 DEF RunSwitch
    <2> QED
      BY <2>1, <2>2
  <1>4. CASE BeginLoad
    <2>1. /\ asked # NoLoad /\ asked' = NoLoad /\ begun' = Append(begun, asked)
          /\ layout' = layout /\ dict' = dict /\ astray' = astray
      BY <1>4 DEF BeginLoad
    <2>2. /\ Len(begun') = Len(begun) + 1
          /\ begun'[Len(begun) + 1] = asked
          /\ \A i \in 1 .. Len(begun) : begun'[i] = begun[i]
      BY <1>t, <2>1, AppendFacts DEF TypeOK
    <2>3. SUFFICES ASSUME "behind" \notin astray,
                          NEW i \in 1 .. Len(begun'),
                          begun'[i].for # "language"
                   PROVE  /\ begun'[i].lang = layout.lang
                          /\ \A j \in 1 .. i : begun'[j].for # "language"
      BY <2>1
    <2>4. CASE i = Len(begun) + 1
      <3>1. begun'[i] = asked
        BY <2>2, <2>4
      <3>2. \A j \in 1 .. Len(begun) : begun'[j].for # "language"
        BY <2>1, <2>2, <2>3, <3>1
      <3> QED
        BY <1>t, <2>1, <2>3, <2>4, <3>1, <3>2
    <2>5. CASE i \in 1 .. Len(begun)
      <3>1. \A j \in 1 .. i : j \in 1 .. Len(begun)
        BY <1>t, <2>5
      <3> QED
        BY <2>2, <2>3, <2>5, <3>1
    <2> QED
      BY <1>t, <2>2, <2>4, <2>5
  <1>5. ASSUME begun # <<>>, begun' = Tail(begun), asked' = asked,
               layout'.lang = layout.lang \/ Head(begun).for = "language",
               \/ dict' = dict /\ layout'.lang = layout.lang
               \/ dict' = layout'.lang /\ Head(begun).for = "language",
               astray \cap {"behind"} \subseteq astray'
        PROVE  DictInv'
    <2>1. /\ Head(begun) = begun[1] /\ Len(begun) > 0
          /\ Len(begun') = Len(begun) - 1
          /\ \A i \in 1 .. Len(begun) - 1 : begun'[i] = begun[i + 1]
      BY <1>5, <1>t, TailFacts
    <2>2. SUFFICES ASSUME "behind" \notin astray
                   PROVE  /\ dict' = layout'.lang
                          /\ asked # NoLoad /\ asked.for # "language"
                                 => /\ asked.lang = layout'.lang
                                    /\ \A i \in 1 .. Len(begun') :
                                           begun'[i].for # "language"
                          /\ \A i \in 1 .. Len(begun') :
                                 begun'[i].for # "language"
                                 => /\ begun'[i].lang = layout'.lang
                                    /\ \A j \in 1 .. i :
                                           begun'[j].for # "language"
      BY <1>5
    <2>3. 1 \in 1 .. Len(begun)
      BY <1>t, <2>1
    <2>4. dict' = layout'.lang
      BY <1>5, <2>2
    <2>5. asked # NoLoad /\ asked.for # "language"
              => /\ asked.lang = layout'.lang
                 /\ \A i \in 1 .. Len(begun') : begun'[i].for # "language"
      BY <1>5, <1>t, <2>1, <2>2, <2>3
    <2>6. ASSUME NEW i \in 1 .. Len(begun'), begun'[i].for # "language"
          PROVE  /\ begun'[i].lang = layout'.lang
                 /\ \A j \in 1 .. i : begun'[j].for # "language"
      <3>1. /\ i + 1 \in 1 .. Len(begun) /\ begun'[i] = begun[i + 1]
            /\ 1 \in 1 .. (i + 1)
        BY <1>t, <2>1
      <3>2. /\ begun[i + 1].lang = layout.lang
            /\ \A j \in 1 .. (i + 1) : begun[j].for # "language"
        BY <2>2, <2>6, <3>1
      <3>3. layout'.lang = layout.lang
        BY <1>5, <2>1, <3>1, <3>2
      <3>4. ASSUME NEW j \in 1 .. i
            PROVE  begun'[j].for # "language"
        <4>1. /\ j + 1 \in 1 .. (i + 1) /\ j \in 1 .. Len(begun) - 1
          BY <1>t, <2>1
        <4> QED
          BY <2>1, <3>2, <4>1
      <3> QED
        BY <3>1, <3>2, <3>3, <3>4
    <2> QED
      BY <2>4, <2>5, <2>6
  <1>6. CASE TakeLayout
    <2>1. /\ begun # <<>> /\ begun' = Tail(begun) /\ asked' = asked
          /\ layout' = [kind |-> Head(begun).kind, lang |-> Head(begun).lang]
          /\ dict' = IF Head(begun).for = "language" THEN Head(begun).lang
                     ELSE dict
          /\ astray' = TakenAstray(Head(begun))
      BY <1>6 DEF TakeLayout
    <2>2. astray \cap {"behind"} \subseteq astray'
      BY <2>1 DEF TakenAstray
    <2>3. CASE Head(begun).for = "language"
      BY <1>5, <2>1, <2>2, <2>3
    <2>4. CASE Head(begun).for # "language" /\ "behind" \notin astray
      <3>1. Head(begun) = begun[1] /\ 1 \in 1 .. Len(begun)
        BY <1>t, <2>1, TailFacts
      <3>2. layout'.lang = layout.lang
        BY <2>1, <2>4, <3>1
      <3> QED
        BY <1>5, <2>1, <2>2, <2>4, <3>2
    <2>5. CASE "behind" \in astray
      BY <2>2, <2>5
    <2> QED
      BY <2>3, <2>4, <2>5
  <1>7. CASE LoadFails
    BY <1>5, <1>7 DEF LoadFails
  <1> QED
    BY <1>1, <1>2, <1>3, <1>4, <1>6, <1>7 DEF LoadStep

LEMMA DictInvCorrect == Spec => []DictInv
  <1>1. Init => DictInv
    BY DEF Init, DictInv
  <1>2. TypeOK /\ FieldInv /\ DictInv /\ [Next]_vars => DictInv'
    BY LoadStepOf, DictStep
  <1> QED
    BY <1>1, <1>2, TypeCorrect, PTL DEF Spec

(* Keys and dictionaries part only over a layout asked for behind a switch.  *)
THEOREM DictionaryAlwaysMatches == Spec => []DictionaryMatchesKeys
  <1>1. DictInv => DictionaryMatchesKeys
    BY DEF DictInv, DictionaryMatchesKeys
  <1> QED
    BY <1>1, DictInvCorrect, PTL

-------------------------------------------------------------------------------
(* While no switch robbed a layout and no load failed: switches come first   *)
(* and keep the kind shown, and the last layout in line is the wanted one.   *)
IsSwitch(load) == load.for = "language"

KindInv ==
    astray \cap {"robbed", "missed"} = {} =>
        /\ asked # NoLoad /\ ~IsSwitch(asked) => asked.kind = wanted
        /\ asked # NoLoad /\ IsSwitch(asked)
               => /\ asked.kind = layout.kind
                  /\ \A i \in 1 .. Len(begun) : IsSwitch(begun[i])
        /\ \A i \in 1 .. Len(begun) : IsSwitch(begun[i])
               => /\ begun[i].kind = layout.kind
                  /\ \A j \in 1 .. i : IsSwitch(begun[j])
        /\ asked = NoLoad \/ IsSwitch(asked)
               => IF begun # <<>> /\ ~IsSwitch(begun[Len(begun)])
                  THEN begun[Len(begun)].kind = wanted
                  ELSE layout.kind = wanted

LEMMA KindStep ==
    ASSUME TypeOK, KindInv, LoadStep
    PROVE  KindInv'
  <1> USE DEF KindInv
  <1> DEFINE clear == astray \cap {"robbed", "missed"} = {}
  <1>t. /\ begun \in Seq(Loads) /\ Len(begun) \in Nat /\ NoLoad \notin Loads
        /\ begun # <<>> => Len(begun) \in 1 .. Len(begun) /\ 1 \in 1 .. Len(begun)
    BY NoLoadFacts DEF TypeOK
  <1>1. ASSUME asked' = asked, begun' = begun, layout' = layout,
               wanted' = wanted, astray \cap {"robbed", "missed"} \subseteq astray'
        PROVE  KindInv'
    BY <1>1 DEF IsSwitch
  <1>2. ASSUME NEW for \in {"field", "return"}, NEW kind \in Kinds,
               AskLayout(for, kind), layout' = layout
        PROVE  KindInv'
    <2>1. /\ asked' # NoLoad /\ ~IsSwitch(asked') /\ asked'.kind = kind
          /\ begun' = begun
      BY <1>2, <1>t, AskType DEF IsSwitch
    <2>2. astray \subseteq astray' /\ wanted' = kind
      BY <1>2 DEF AskLayout
    <2> QED
      BY <1>2, <2>1, <2>2 DEF IsSwitch
  <1>3. CASE RunSwitch
    <2>1. /\ asked' # NoLoad /\ IsSwitch(asked') /\ asked'.kind = layout.kind
          /\ begun' = begun /\ layout' = layout /\ wanted' = wanted
      BY <1>3 DEF RunSwitch, Load, IsSwitch, NoLoad
    <2>2. /\ astray \subseteq astray'
          /\ (\E r \in Pending : ~IsSwitch(r)) => "robbed" \in astray'
      BY <1>3 DEF RunSwitch, IsSwitch
    <2>3. SUFFICES ASSUME astray' \cap {"robbed", "missed"} = {}
                   PROVE  KindInv'
      OBVIOUS
    <2>4. /\ \A i \in 1 .. Len(begun) : IsSwitch(begun[i])
          /\ asked = NoLoad \/ IsSwitch(asked)
      <3>1. \A r \in Pending : IsSwitch(r)
        BY <2>2, <2>3
      <3>2. DOMAIN begun = 1 .. Len(begun)
        BY <1>t
      <3> QED
        BY <3>1, <3>2 DEF Pending
    <2>5. clear
      BY <2>2, <2>3
    <2>6. layout.kind = wanted
      BY <1>t, <2>4, <2>5
    <2>7. /\ \A i \in 1 .. Len(begun) : begun[i].kind = layout.kind
          /\ begun # <<>> => IsSwitch(begun[Len(begun)])
      BY <1>t, <2>4, <2>5
    <2> QED
      BY <2>1, <2>4, <2>6, <2>7 DEF IsSwitch
  <1>4. CASE BeginLoad
    <2>1. /\ asked # NoLoad /\ asked' = NoLoad /\ begun' = Append(begun, asked)
          /\ layout' = layout /\ wanted' = wanted /\ astray' = astray
      BY <1>4 DEF BeginLoad
    <2>2. /\ Len(begun') = Len(begun) + 1
          /\ begun'[Len(begun) + 1] = asked
          /\ \A i \in 1 .. Len(begun) : begun'[i] = begun[i]
      BY <1>t, <2>1, AppendFacts DEF TypeOK
    <2>3. SUFFICES ASSUME clear PROVE KindInv'
      BY <2>1
    <2>4. ASSUME NEW i \in 1 .. Len(begun'), IsSwitch(begun'[i])
          PROVE  /\ begun'[i].kind = layout.kind
                 /\ \A j \in 1 .. i : IsSwitch(begun'[j])
      <3>1. CASE i = Len(begun) + 1
        <4>1. /\ IsSwitch(asked) /\ asked.kind = layout.kind
              /\ \A j \in 1 .. Len(begun) : IsSwitch(begun'[j])
          BY <2>1, <2>2, <2>3, <2>4, <3>1
        <4> QED
          BY <1>t, <2>2, <3>1, <4>1
      <3>2. CASE i \in 1 .. Len(begun)
        <4>1. \A j \in 1 .. i : j \in 1 .. Len(begun)
          BY <1>t, <3>2
        <4> QED
          BY <2>2, <2>3, <2>4, <3>2, <4>1
      <3> QED
        BY <1>t, <2>2, <3>1, <3>2
    <2>5. /\ begun' # <<>>
          /\ begun'[Len(begun')] = asked
      BY <1>t, <2>2
    <2>6. IF ~IsSwitch(asked) THEN asked.kind = wanted ELSE layout.kind = wanted
      <3>1. IsSwitch(asked) => \A i \in 1 .. Len(begun) : IsSwitch(begun[i])
        BY <2>1, <2>3
      <3> QED
        BY <1>t, <2>1, <2>3, <3>1
    <2> QED
      BY <2>1, <2>4, <2>5, <2>6 DEF IsSwitch
  <1>5. CASE TakeLayout
    <2>1. /\ begun # <<>> /\ begun' = Tail(begun) /\ asked' = asked
          /\ layout' = [kind |-> Head(begun).kind, lang |-> Head(begun).lang]
          /\ wanted' = wanted /\ astray' = TakenAstray(Head(begun))
      BY <1>5 DEF TakeLayout
    <2>2. /\ Head(begun) = begun[1] /\ Len(begun) > 0
          /\ Len(begun') = Len(begun) - 1
          /\ \A i \in 1 .. Len(begun) - 1 : begun'[i] = begun[i + 1]
          /\ begun' \in Seq(Loads)
      BY <1>t, <2>1, TailFacts
    <2>3. SUFFICES ASSUME clear PROVE KindInv'
      BY <2>1 DEF TakenAstray
    <2>4. layout'.kind = begun[1].kind
      BY <2>1, <2>2
    <2>5. ASSUME NEW i \in 1 .. Len(begun'), IsSwitch(begun'[i])
          PROVE  /\ begun'[i].kind = layout'.kind
                 /\ \A j \in 1 .. i : IsSwitch(begun'[j])
      <3>1. /\ i + 1 \in 1 .. Len(begun) /\ begun'[i] = begun[i + 1]
            /\ 1 \in 1 .. (i + 1)
        BY <1>t, <2>2
      <3>2. /\ begun[i + 1].kind = layout.kind
            /\ \A j \in 1 .. (i + 1) : IsSwitch(begun[j])
        BY <2>3, <2>5, <3>1
      <3>3. begun[1].kind = layout.kind
        BY <1>t, <2>1, <2>3, <3>1, <3>2
      <3>4. ASSUME NEW j \in 1 .. i
            PROVE  IsSwitch(begun'[j])
        <4>1. /\ j + 1 \in 1 .. (i + 1) /\ j \in 1 .. Len(begun) - 1
          BY <1>t, <2>2
        <4> QED
          BY <2>2, <3>2, <4>1
      <3> QED
        BY <2>4, <3>1, <3>2, <3>3, <3>4
    <2>6. asked # NoLoad /\ IsSwitch(asked)
              => /\ asked.kind = layout'.kind
                 /\ \A i \in 1 .. Len(begun') : IsSwitch(begun'[i])
      <3>1. SUFFICES ASSUME asked # NoLoad, IsSwitch(asked)
                     PROVE  /\ asked.kind = layout'.kind
                            /\ \A i \in 1 .. Len(begun') : IsSwitch(begun'[i])
        OBVIOUS
      <3>2. \A i \in 1 .. Len(begun) : IsSwitch(begun[i])
        BY <2>3, <3>1
      <3>3. begun[1].kind = layout.kind
        BY <1>t, <2>1, <2>3, <3>2
      <3>4. \A i \in 1 .. Len(begun') :
                i + 1 \in 1 .. Len(begun) /\ begun'[i] = begun[i + 1]
        BY <1>t, <2>2
      <3> QED
        BY <2>3, <2>4, <3>1, <3>2, <3>3, <3>4
    <2>7. asked = NoLoad \/ IsSwitch(asked)
              => IF begun' # <<>> /\ ~IsSwitch(begun'[Len(begun')])
                 THEN begun'[Len(begun')].kind = wanted
                 ELSE layout'.kind = wanted
      <3>1. SUFFICES ASSUME asked = NoLoad \/ IsSwitch(asked)
                     PROVE  IF begun' # <<>> /\ ~IsSwitch(begun'[Len(begun')])
                            THEN begun'[Len(begun')].kind = wanted
                            ELSE layout'.kind = wanted
        OBVIOUS
      <3>2. IF ~IsSwitch(begun[Len(begun)])
            THEN begun[Len(begun)].kind = wanted ELSE layout.kind = wanted
        BY <2>1, <2>3, <3>1
      <3>3. CASE Len(begun) = 1
        <4>1. begun' = <<>>
          BY <2>2, <3>3
        <4>2. begun[1].kind = wanted
          BY <1>t, <2>1, <2>3, <3>2, <3>3
        <4> QED
          BY <2>4, <4>1, <4>2
      <3>4. CASE Len(begun) # 1
        <4>1. /\ begun' # <<>> /\ begun'[Len(begun')] = begun[Len(begun)]
          BY <1>t, <2>2, <3>4
        <4>2. CASE IsSwitch(begun[Len(begun)])
          <5>1. begun[1].kind = layout.kind
            BY <1>t, <2>1, <2>3, <4>2
          <5> QED
            BY <2>4, <3>2, <4>1, <4>2, <5>1
        <4>3. CASE ~IsSwitch(begun[Len(begun)])
          BY <3>2, <4>1, <4>3
        <4> QED
          BY <4>2, <4>3
      <3> QED
        BY <3>3, <3>4
    <2>8. asked # NoLoad /\ ~IsSwitch(asked) => asked.kind = wanted
      BY <2>3
    <2> QED
      BY <2>1, <2>5, <2>6, <2>7, <2>8 DEF IsSwitch
  <1>6. CASE LoadFails
    BY <1>6 DEF LoadFails
  <1> QED
    BY <1>1, <1>2, <1>3, <1>4, <1>5, <1>6 DEF LoadStep

LEMMA KindInvCorrect == Spec => []KindInv
  <1>1. Init => KindInv
    BY DEF Init, KindInv
  <1>2. TypeOK /\ FieldInv /\ KindInv /\ [Next]_vars => KindInv'
    BY LoadStepOf, KindStep
  <1> QED
    BY <1>1, <1>2, TypeCorrect, PTL DEF Spec

(* At rest the layout last asked for is shown, whatever was cancelled.       *)
THEOREM LastAskedAlwaysShown == Spec => []LastAskedIsShown
  <1>1. TypeOK /\ KindInv => LastAskedIsShown
    BY RestFacts DEF KindInv, LastAskedIsShown
  <1> QED
    BY <1>1, TypeCorrect, KindInvCorrect, PTL

-------------------------------------------------------------------------------
(* The capitals of the field.                                                *)

CapsInv ==
    (asked = NoLoad /\ begun = <<>> /\ Shown /\ layout.kind = "letter"
     /\ "missed" \notin astray) => shift.caps = CapsOf[field]

LEMMA CapsStep ==
    ASSUME TypeOK, FieldInv, CapsInv, [Next]_vars
    PROVE  CapsInv'
  <1> USE DEF CapsInv, Shown
  <1>t. /\ shift \in ShiftStates /\ auto \in BOOLEAN /\ begun \in Seq(Loads)
        /\ field \in Fields => CapsOf[field] \in CapsTypes
    BY FieldsAssumption DEF TypeOK
  <1>a. ASSUME NEW for \in {"field", "return"}, NEW kind \in Kinds,
               AskLayout(for, kind)
        PROVE  CapsInv'
    <2>1. asked' # NoLoad
      BY <1>a, AskType, NoLoadFacts
    <2> QED
      BY <2>1
  <1>1. ASSUME NEW f \in Fields, LoadKeyboard(f)
        PROVE  CapsInv'
    <2>1. CASE f # field
      <3>1. KindOf[f] \in Kinds /\ AskLayout("field", KindOf[f])
        BY <1>1, <2>1, FieldsAssumption DEF LoadKeyboard
      <3> QED
        BY <1>a, <3>1
    <2>2. CASE f = field
      <3>1. PICK end \in BOOLEAN : shift' = Settle(shift, CapsOf[f], end, auto)
        BY <1>1, <2>2 DEF LoadKeyboard
      <3>2. field' = f /\ shift'.caps = CapsOf[f]
        BY <1>1, <1>t, <2>2, <3>1, SettleFacts DEF LoadKeyboard
      <3> QED
        BY <3>2
    <2> QED
      BY <2>1, <2>2
  <1>2. CASE TapLayoutSwitch
    <2>1. Other(layout.kind) \in Kinds
      BY OtherKind DEF TypeOK
    <2> QED
      BY <1>2, <1>a, <2>1 DEF TapLayoutSwitch
  <1>3. CASE ReturnToKeys
    <2>1. /\ Other(layout.kind) \in Kinds /\ "letter" \in Kinds
          /\ field \in Fields /\ field' = field
      BY <1>3, OtherKind DEF TypeOK, FieldInv, Kinds, ReturnToKeys
    <2>2. CASE shift.key # "nothing"
      <3>1. PICK end \in BOOLEAN :
                shift' = Settle(Reset(shift), CapsOf[field], end, auto)
        BY <1>3, <2>2 DEF ReturnToKeys
      <3>2. shift'.caps = CapsOf[field]
        BY <1>t, <2>1, <3>1, ResetFacts, SettleFacts
      <3> QED
        BY <2>1, <3>2
    <2>3. CASE shift.key = "nothing" /\ surface = "emoji"
      <3>1. AskLayout("return", Other(layout.kind))
        BY <1>3, <2>3 DEF ReturnToKeys
      <3> QED
        BY <1>a, <2>1, <3>1
    <2>4. CASE shift.key = "nothing" /\ surface # "emoji"
      <3>1. AskLayout("return", "letter")
        BY <1>3, <2>4 DEF ReturnToKeys
      <3> QED
        BY <1>a, <2>1, <3>1
    <2> QED
      BY <2>2, <2>3, <2>4
  <1>4. CASE RunSwitch
    <2>1. asked' # NoLoad
      BY <1>4 DEF RunSwitch, Load, NoLoad
    <2> QED
      BY <2>1
  <1>5. CASE BeginLoad
    <2>1. begun' # <<>>
      BY <1>5, <1>t, AppendFacts DEF BeginLoad, TypeOK
    <2> QED
      BY <2>1
  <1>6. CASE TakeLayout
    <2>1. PICK end \in BOOLEAN : shift' = TakenShift(Head(begun), end)
      BY <1>6 DEF TakeLayout
    <2>2. /\ begun # <<>> /\ field' = field
          /\ layout' = [kind |-> Head(begun).kind, lang |-> Head(begun).lang]
      BY <1>6 DEF TakeLayout
    <2>3. Head(begun).kind = "letter" => shift'.caps = CapsOf[field]
      BY <2>1, <2>2, TakenFacts
    <2> QED
      BY <2>2, <2>3
  <1>7. CASE LoadFails
    BY <1>7 DEF LoadFails
  <1>8. CASE MemoryWarning
    <2>1. /\ shift'.caps = shift.caps
          /\ shift'.key # "nothing" => shift.key # "nothing"
      BY <1>8, <1>t, KeyFacts DEF MemoryWarning
    <2> QED
      BY <1>8, <2>1 DEF MemoryWarning
  <1>9. CASE ShowEmoji
    <2>1. shift'.caps = shift.caps /\ shift'.key = shift.key
      BY <1>9, <1>t, ResetFacts DEF ShowEmoji
    <2> QED
      BY <1>9, <2>1 DEF ShowEmoji, loads
  <1>10. CASE TapShift \/ TapReturn \/ TapOther \/ CloseWindow
    <2>1. /\ layout' = layout /\ field' = field /\ astray' = astray
          /\ asked' = asked /\ begun' = begun
      BY <1>10 DEF TapShift, TapReturn, TapOther, CloseWindow, loads
    <2>2. /\ shift'.caps = shift.caps
          /\ shift'.key = "nothing" <=> shift.key = "nothing"
      <3>1. CASE TapShift
        BY <1>t, <3>1, ShiftFacts DEF TapShift
      <3>2. CASE TapReturn
        BY <1>t, <3>2, ReturnFacts DEF TapReturn, Kept
      <3>3. CASE TapOther
        BY <1>t, <3>3, OtherFacts DEF TapOther
      <3>4. CASE CloseWindow
        BY <1>t, <3>4, ClosingFacts DEF CloseWindow
      <3> QED
        BY <1>10, <3>1, <3>2, <3>3, <3>4
    <2> QED
      BY <2>1, <2>2
  <1>11. CASE TapMultiLanguage \/ ShowSettings \/ TapAutoCapitalization
    BY <1>11 DEF TapMultiLanguage, ShowSettings, TapAutoCapitalization, loads
  <1>12. CASE UNCHANGED vars
    BY <1>12 DEF vars
  <1> QED
    BY <1>1, <1>2, <1>3, <1>4, <1>5, <1>6, <1>7, <1>8, <1>9, <1>10, <1>11,
       <1>12 DEF Next, Asking, Loading

(* At rest the letters obey the capitals of the field with the cursor.       *)
THEOREM CapsAlwaysFollow == Spec => []CapsFollowField
  <1>1. Init => CapsInv
    BY NewShift DEF Init, CapsInv, Shown
  <1>2. TypeOK /\ FieldInv /\ CapsInv /\ [Next]_vars => CapsInv'
    BY CapsStep
  <1>3. TypeOK /\ CapsInv => CapsFollowField
    BY RestFacts DEF CapsInv, CapsFollowField
  <1> QED
    BY <1>1, <1>2, <1>3, TypeCorrect, PTL DEF Spec
===============================================================================
