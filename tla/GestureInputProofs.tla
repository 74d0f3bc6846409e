------------------------- MODULE GestureInputProofs -------------------------
(***************************************************************************)
(* What GestureInput keeps for every alphabet, suggester, decoder and      *)
(* bound.  A step of a handler of InputLogic is a step of its Next, and the *)
(* lemmas of InputLogicProofs are about that; what is new are the steps of *)
(* a stroke, and the stroke under the steps of the handlers.               *)
(***************************************************************************)
EXTENDS GestureInput, InputLogicProofs

-----------------------------------------------------------------------------
(* The handlers are those of InputLogic.                                   *)

Handlers == (Typed /\ ~BatchDelete) \/ Host \/ Load \/ Background

LEMMA TypedIsStep ==
  ASSUME Typed, ~BatchDelete
  PROVE  Next
<1>1. ASSUME NEW c \in WordChars \cup Digits, Letter(c) PROVE Next
  BY <1>1 DEF Letter, Next
<1>2. CASE Closing
  BY <1>2 DEF Closing, Next
<1>3. CASE Shift \/ Delete
  BY <1>3 DEF Shift, Delete, Next
<1>4. CASE Pick
  BY <1>4 DEF Pick, Next
<1>5. CASE RawKey
  BY <1>5 DEF Next
<1> QED  BY <1>1, <1>2, <1>3, <1>4, <1>5 DEF Typed

LEMMA HandlerIsStep ==
  ASSUME Handlers
  PROVE  Next
<1>1. CASE Host
  BY <1>1 DEF Host, Next
<1>2. CASE Load
  BY <1>2 DEF Load, Next
<1>3. CASE Background
  BY <1>3 DEF Background, Next
<1> QED  BY <1>1, <1>2, <1>3, TypedIsStep DEF Handlers

\* A step is one of a handler, or one of the stroke.
LEMMA StepKinds ==
  ASSUME [GestureNext]_gestureVars
  PROVE  \/ Handlers
         \/ Typed /\ BatchDelete
         \/ StartGesture \/ EndGesture \/ Abandon
         \/ StartDecode \/ DropDecode \/ StartUpdate
         \/ Answer \/ SetWord \/ CommitWord
         \/ UNCHANGED gestureVars
BY DEF GestureNext, Handlers

-----------------------------------------------------------------------------
(* Types.                                                                  *)

StrokeOK ==
  /\ batch \in BOOLEAN /\ points \in BOOLEAN /\ drawing \in BOOLEAN
  /\ asked \in BOOLEAN /\ decoding \in Search
  /\ unseen \in BOOLEAN /\ fit \in BOOLEAN /\ left \in BOOLEAN

LEMMA GestureTypeParts == GestureTypeOK <=> TypeOK /\ StrokeOK
BY DEF GestureTypeOK, StrokeOK

LEMMA ForgetsType ==
  ASSUME StrokeOK, NEW cond, ForgetsIf(cond) \/ LeavesBatch \/ Forgets
  PROVE  batch' \in BOOLEAN /\ points' \in BOOLEAN
BY DEF StrokeOK, ForgetsIf, Forgets, LeavesBatch, strokeVars

\* Every key leaves the stroke as it is, or in part.
LEMMA TypedStroke ==
  ASSUME StrokeOK, Typed
  PROVE  batch' \in BOOLEAN /\ points' \in BOOLEAN
<1>1. ASSUME NEW c, Letter(c) PROVE batch' \in BOOLEAN /\ points' \in BOOLEAN
  <2>1. \/ LeavesBatch
        \/ ForgetsIf(TakesUp(BeforeKey(c)) \/ c \in WordChars)
    BY <1>1, Zenon DEF Letter
  <2> QED  BY <2>1, ForgetsType
<1>2. CASE Closing
  <2>1. \/ Forgets \/ ForgetsIf(IsComposing(Ready(doc)))
        \/ \E c : ForgetsIf(IsComposing(Ready(BeforeKey(c))))
    BY <1>2, Zenon DEF Closing
  <2> QED  BY <2>1, ForgetsType
<1>3. CASE Shift
  <2>1. ForgetsIf(TakesUp(IF spaceState = "PHANTOM" THEN Spaced(doc) ELSE doc))
    BY <1>3, Zenon DEF Shift
  <2> QED  BY <2>1, ForgetsType
<1>4. CASE Delete
  <2>1. LeavesBatch \/ ForgetsIf(TakesUp(doc) \/ IsComposing(composer'))
    BY <1>4, Zenon DEF Delete
  <2> QED  BY <2>1, ForgetsType
<1>5. CASE BatchDelete
  BY <1>5, ForgetsType DEF BatchDelete
<1>6. CASE Pick
  <2>1. Forgets \/ ForgetsIf(IsComposing(composer))
    BY <1>6, Zenon DEF Pick
  <2> QED  BY <2>1, ForgetsType
<1>7. CASE UNCHANGED strokeVars
  BY <1>7 DEF strokeVars, StrokeOK
<1> QED  BY <1>1, <1>2, <1>3, <1>4, <1>5, <1>6, <1>7 DEF Typed

LEMMA HandlerStrokeType ==
  ASSUME TypeOK, StrokeOK, Typed \/ Host \/ Load \/ Background
  PROVE  StrokeOK'
<1>1. CASE Typed
  <2>1. batch' \in BOOLEAN /\ points' \in BOOLEAN
    BY <1>1, TypedStroke
  <2>2. unseen' \in BOOLEAN /\ left' \in BOOLEAN /\ fit' \in BOOLEAN
    BY <1>1, Zenon DEF Typed, Between
  <2> QED  BY <1>1, <2>1, <2>2 DEF StrokeOK, Typed, searchVars
<1>2. CASE Host
  <2>1. unseen' \in BOOLEAN /\ fit' \in BOOLEAN
    BY <1>2, Zenon DEF Host, Between
  <2> QED  BY <1>2, <2>1 DEF StrokeOK, Host, strokeVars, searchVars
<1>3. CASE Load
  <2>1. batch' \in BOOLEAN /\ points' \in BOOLEAN
    BY <1>3, ForgetsType DEF Load
  <2>2. unseen' \in BOOLEAN /\ fit' \in BOOLEAN
    <3>1. unseen' = unseen \/ unseen' = (field = "noauto")
      BY <1>3 DEF Load
    <3>2. (field = "noauto") \in BOOLEAN
      BY Zenon
    <3>3. fit' \in BOOLEAN
      BY <1>3, Zenon DEF Load
    <3> QED  BY <3>1, <3>2, <3>3 DEF StrokeOK
  <2> QED  BY <1>3, <2>1, <2>2 DEF StrokeOK, Load, searchVars
<1>4. CASE Background
  BY <1>4 DEF StrokeOK, Background, strokeVars, searchVars
<1> QED  BY <1>1, <1>2, <1>3, <1>4

LEMMA SetApartType ==
  ASSUME TypeOK, StrokeOK, SetApart
  PROVE  /\ composer' \in WordComposer /\ doc' \in Seq(Char)
         /\ spaceState' \in SpaceState /\ points' \in BOOLEAN
<1>1. doc \in Seq(Char) /\ Spaced(doc) \in Seq(Char)
  BY SpacedText DEF TypeOK
<1> QED  BY <1>1, EmptyComposerType DEF TypeOK, StrokeOK, SetApart, SpaceState

LEMMA StartGestureType ==
  ASSUME TypeOK, StrokeOK, StartGesture
  PROVE  TypeOK' /\ StrokeOK'
<1>1. /\ composer' \in WordComposer /\ doc' \in Seq(Char)
      /\ spaceState' \in SpaceState /\ points' \in BOOLEAN
  BY SetApartType DEF StartGesture
<1>2. FlagsOK /\ Frame
  BY TypeParts DEF StartGesture
<1>3. stale' \in BOOLEAN /\ drifted' \in BOOLEAN /\ fit' \in BOOLEAN
  BY Zenon DEF StartGesture
<1>4. TextOK'
  BY <1>1 DEF TextOK, StartGesture, TypeOK
<1>5. spaceTap' \in BOOLEAN /\ tapTimers' \in Nat /\ active' \in BOOLEAN
        /\ idleTimer' \in BOOLEAN /\ firstInit' \in BOOLEAN
  BY <1>2 DEF StartGesture, FlagsOK, tapVars
<1>6. TypeOK'
  BY <1>2, <1>3, <1>4, <1>5, FrameType DEF TypeOK, TextOK
<1>7. StrokeOK'
  BY <1>1, <1>3 DEF StrokeOK, StartGesture, searchVars
<1> QED  BY <1>6, <1>7

\* The steps of a stroke beside the first, and a drawn word that is deleted.
LEMMA StrokeTextType ==
  ASSUME TypeOK, StrokeOK,
         EndGesture \/ Abandon \/ StartDecode \/ DropDecode \/ StartUpdate
  PROVE  TypeOK' /\ StrokeOK'
<1>0. /\ <<>> \in Seq(Char) /\ GestureWords \subseteq Seq(Char)
      /\ NoSearch \in Search /\ Findings \subseteq Seq(Char)
      /\ composer \in WordComposer
  <2>1. <<>> \in Seq(Char) /\ GestureWords \subseteq Seq(Char)
    BY EmptySeq, GestureAssumption
  <2> QED  BY <2>1 DEF NoSearch, Search, Findings, TypeOK
<1>1. CASE EndGesture
  <2>1. TypeOK'
    BY <1>1 DEF EndGesture, EndBatchInput, TypeOK, textVars, tapVars, hostVars, history
  <2>2. StrokeOK'
    BY <1>1 DEF EndGesture, EndBatchInput, StrokeOK
  <2> QED  BY <2>1, <2>2
<1>2. CASE Abandon
  BY <1>2, TypeStep DEF Abandon, StrokeOK, strokeVars, searchVars
<1>3. CASE StartDecode
  <2>1. lookup' \in Lookup /\ decoding' \in Search
    <3>1. CASE batch
      <4>1. PICK w \in Findings :
              decoding' = [at |-> "search", commits |-> TRUE, word |-> w]
        BY <1>3, <3>1 DEF StartDecode
      <4> QED  BY <1>0, <1>3, <3>1, <4>1 DEF StartDecode, TypeOK, Search
    <3>2. CASE ~batch
      <4>1. (~composer.resumed /\ ~composer.digits) \in BOOLEAN
        BY Zenon
      <4>2. Idle \in Lookup
        BY <1>0 DEF Idle, Lookup
      <4>3. [word |-> composer.typed, eligible |-> ~composer.resumed /\ ~composer.digits]
              \in Lookup
        BY <1>0, <4>1 DEF Lookup, WordComposer
      <4> QED  BY <1>3, <3>2, <4>2, <4>3 DEF StartDecode, StrokeOK
    <3> QED  BY <3>1, <3>2
  <2>2. TypeOK'
    BY <1>3, <2>1 DEF StartDecode, TypeOK, textVars, tapVars, sessionVars, hostVars, history
  <2>3. StrokeOK'
    BY <1>3, <2>1 DEF StartDecode, StrokeOK, strokeVars
  <2> QED  BY <2>2, <2>3
<1>4. CASE DropDecode
  BY <1>4, TypeStep DEF DropDecode, StrokeOK, strokeVars
<1>5. CASE StartUpdate
  <2>1. PICK w \in Findings : decoding' = [at |-> "search", commits |-> FALSE, word |-> w]
    BY <1>5 DEF StartUpdate
  <2>2. decoding' \in Search
    BY <1>0, <2>1 DEF Search
  <2> QED  BY <1>5, <2>2, TypeStep DEF StartUpdate, StrokeOK, strokeVars
<1> QED  BY <1>1, <1>2, <1>3, <1>4, <1>5

LEMMA WordType ==
  ASSUME TypeOK, StrokeOK, Answer \/ SetWord \/ CommitWord
  PROVE  TypeOK' /\ StrokeOK'
<1>0. /\ <<>> \in Seq(Char) /\ NoSearch \in Search
      /\ decoding \in Search /\ decoding.word \in Seq(Char)
      /\ composer \in WordComposer /\ doc \in Seq(Char)
  BY EmptySeq DEF NoSearch, Search, TypeOK, StrokeOK
<1>1. CASE Answer
  <2>1. composer' \in WordComposer
    BY <1>0, <1>1 DEF Answer, WordComposer
  <2>2. decoding' \in Search
    BY <1>0, <1>1 DEF Answer, Search
  <2> QED  BY <1>1, <2>1, <2>2 DEF Answer, TypeOK, StrokeOK, tapVars, sessionVars, hostVars,
              history, strokeVars
<1>2. CASE SetWord
  <2>1. (\E i \in DOMAIN decoding.word : decoding.word[i] \in Digits) \in BOOLEAN
    BY Zenon
  <2>2. composer' \in WordComposer
    BY <1>0, <1>2, <2>1 DEF SetWord, WordComposer
  <2>3. decoding' \in Search /\ fit' \in BOOLEAN
    BY <1>0, <1>2 DEF SetWord, Search, StrokeOK
  <2> QED  BY <1>2, <2>2, <2>3 DEF SetWord, TypeOK, StrokeOK, tapVars, sessionVars, hostVars
<1>3. CASE CommitWord
  <2>1. doc' \in Seq(Char)
    BY <1>0, <1>3, ConcatProperties DEF CommitWord
  <2>2. stale' \in BOOLEAN /\ unseen' \in BOOLEAN
    BY <1>3, Zenon DEF CommitWord
  <2> QED  BY <1>0, <1>3, <2>1, <2>2 DEF CommitWord, TypeOK, StrokeOK, tapVars, sessionVars,
              hostVars, strokeVars
<1> QED  BY <1>1, <1>2, <1>3

LEMMA BatchDeleteType ==
  ASSUME TypeOK, BatchDelete
  PROVE  TypeOK'
<1>1. TextOK /\ FlagsOK /\ doc \in Seq(Char) /\ composer.typed \in Seq(Char)
  BY TypeParts DEF TextOK, WordComposer
<1>2. doc' \in Seq(Char)
  BY <1>1, DeleteLastText, LenProperties DEF BatchDelete, Rejected
<1>3. TextOK'
  BY <1>2, EmptyComposerType DEF TextOK, BatchDelete, SpaceState
<1> QED  BY <1>1, <1>3, SessionType, SameTapType, HandledKeyType DEF BatchDelete

LEMMA GestureTypeStep ==
  ASSUME GestureTypeOK, [GestureNext]_gestureVars
  PROVE  GestureTypeOK'
<1> SUFFICES TypeOK' /\ StrokeOK'
  BY DEF GestureTypeOK, StrokeOK
<1>0. TypeOK /\ StrokeOK
  BY GestureTypeParts
<1>1. CASE Handlers
  BY <1>0, <1>1, HandlerIsStep, TypeStep, HandlerStrokeType DEF Handlers
<1>2. CASE Typed /\ BatchDelete
  BY <1>0, <1>2, BatchDeleteType, HandlerStrokeType
<1>3. CASE StartGesture
  BY <1>0, <1>3, StartGestureType
<1>4. CASE EndGesture \/ Abandon \/ StartDecode \/ DropDecode \/ StartUpdate
  BY <1>0, <1>4, StrokeTextType
<1>5. CASE Answer \/ SetWord \/ CommitWord
  BY <1>0, <1>5, WordType
<1>6. CASE UNCHANGED gestureVars
  BY <1>0, <1>6, TypeStep DEF StrokeOK, gestureVars, strokeVars, searchVars
<1> QED  BY <1>1, <1>2, <1>3, <1>4, <1>5, <1>6, StepKinds

\* Every variable stays in its range, whatever strokes the handlers of
\* InputLogic meet.
THEOREM GestureTypeCorrect == GestureSpec => []GestureTypeOK
<1>1. GestureInit => GestureTypeOK
  <2> SUFFICES ASSUME GestureInit PROVE TypeOK /\ StrokeOK
    BY GestureTypeParts
  <2>1. TypeOK
    BY TypeInit DEF GestureInit
  <2>2. NoSearch \in Search
    BY EmptySeq DEF NoSearch, Search
  <2>3. unseen \in BOOLEAN
    BY DEF GestureInit
  <2> QED  BY <2>1, <2>2, <2>3 DEF GestureInit, StrokeOK
<1>2. GestureTypeOK /\ [GestureNext]_gestureVars => GestureTypeOK'
  BY GestureTypeStep
<1> QED  BY <1>1, <1>2, PTL DEF GestureSpec

-----------------------------------------------------------------------------
(* A key that leaves the text and the word alone.                          *)

\* What is appended shows.
LEMMA LongerText ==
  ASSUME NEW t \in Seq(Char)
  PROVE  /\ \A c \in Char : Append(t, c) # t
         /\ \A w \in Seq(Char) \ {<<>>} : t \o w # t
<1>1. Len(t) \in Nat
  BY LenProperties
<1>2. ASSUME NEW c \in Char PROVE Append(t, c) # t
  <2>1. Len(Append(t, c)) = Len(t) + 1
    BY AppendProperties
  <2> QED  BY <1>1, <2>1
<1>3. ASSUME NEW w \in Seq(Char) \ {<<>>} PROVE t \o w # t
  <2>1. Len(w) \in Nat /\ Len(w) # 0
    BY LenProperties, EmptySeq
  <2>2. Len(t \o w) = Len(t) + Len(w)
    BY ConcatProperties
  <2> QED  BY <1>1, <2>1, <2>2
<1> QED  BY <1>2, <1>3

\* Only the word that is composed is corrected: one that the first key takes
\* up has no correction.
LEMMA CorrectsComposed ==
  ASSUME TypeOK, NEW t \in Seq(Char), Correctable(Ready(t))
  PROVE  IsComposing(composer)
<1> SUFFICES ASSUME ~IsComposing(composer) PROVE FALSE
  OBVIOUS
<1>1. composer \in WordComposer /\ Resumed(composer, t) \in WordComposer
  BY ResumedType DEF TypeOK
<1>2. firstInit /\ Ready(t) = [Resumed(composer, t) EXCEPT !.resumed = FALSE]
  BY DEF Ready, Correctable, IsComposing
<1>3. Ready(t).typed = Resumed(composer, t).typed
        /\ Ready(t).correction = Resumed(composer, t).correction
  BY <1>1, <1>2 DEF WordComposer
<1>4. CASE TrailingWord(t) = <<>>
  BY <1>3, <1>4 DEF Resumed, Correctable, IsComposing
<1>5. CASE TrailingWord(t) # <<>>
  BY <1>3, <1>5 DEF Resumed, EmptyComposer, Correctable
<1> QED  BY <1>4, <1>5

\* A word that is taken up is composed.
LEMMA TakenUp ==
  ASSUME TypeOK, NEW t \in Seq(Char), TakesUp(t)
  PROVE  IsComposing(Ready(t))
<1>1. Resumed(composer, t) \in WordComposer
  BY ResumedType DEF TypeOK
<1>2. Ready(t).typed = Resumed(composer, t).typed
  BY <1>1 DEF Ready, TakesUp, WordComposer
<1> QED  BY <1>2 DEF TakesUp, Resumed, IsComposing

\* A commit that no correction and no letter shows is none.
LEMMA CommitShows ==
  ASSUME TypeOK, NEW sep, NEW trailing, NEW c \in Char, NEW space,
         \/ Correctable(Ready(doc)) /\ CommitCorrection(Ready(doc), doc, sep, trailing)
         \/ CommitTyped(Ready(doc), doc, c, space)
  PROVE  doc' # doc \/ composer'.typed # composer.typed
<1>0. doc \in Seq(Char)
  BY DEF TypeOK
<1>1. CASE Correctable(Ready(doc)) /\ CommitCorrection(Ready(doc), doc, sep, trailing)
  <2>1. IsComposing(composer)
    BY <1>0, <1>1, CorrectsComposed
  <2>2. composer' = EmptyComposer
    BY <1>1 DEF CommitCorrection
  <2> QED  BY <2>1, <2>2 DEF IsComposing, EmptyComposer
<1>2. CASE CommitTyped(Ready(doc), doc, c, space)
  BY <1>0, <1>2, LongerText DEF CommitTyped
<1> QED  BY <1>1, <1>2

LEMMA QuietClosing ==
  ASSUME TypeOK, Closing, spaceState # "PHANTOM"
  PROVE  doc' # doc \/ composer'.typed # composer.typed
<1>0. doc \in Seq(Char)
  BY DEF TypeOK
<1>1. ASSUME NEW c \in Separators \cup OtherSymbols, SeparatorKey(c)
      PROVE  doc' # doc \/ composer'.typed # composer.typed
  <2> DEFINE trailing == IF c \in ClosingMarks THEN <<c>> ELSE <<>>
  <2>1. BeforeKey(c) = doc /\ c \in Char
    BY CharTypes DEF BeforeKey
  <2>2. \/ /\ Correctable(Ready(doc))
           /\ CommitCorrection(Ready(doc), doc, <<c>>, trailing)
        \/ CommitTyped(Ready(doc), doc, c, SpaceStateBeforeKey(c))
    BY <1>1, <2>1, Zenon DEF SeparatorKey
  <2> HIDE DEF trailing
  <2> QED  BY <2>1, <2>2, CommitShows
<1>2. CASE SpaceKey
  <2> DEFINE doubled == DoubleSpacePeriod /\ spaceTap /\ PeriodAllowed(doc)
             before  == IF doubled THEN Append(DeleteLast(doc, 1), Period) ELSE doc
  <2>1. before = doc /\ Space \in Char
    BY GestureAssumption, CharTypes
  <2>2. \/ Correctable(Ready(doc)) /\ CommitCorrection(Ready(doc), before, <<>>, <<>>)
        \/ CommitTyped(Ready(doc), before, Space, SpaceStateAfterSpace(doubled))
    BY <1>2, Zenon DEF SpaceKey
  <2> HIDE DEF before, doubled
  <2> QED  BY <2>1, <2>2, CommitShows
<1>3. CASE EnterKey
  BY <1>0, <1>3, CharTypes, LongerText DEF EnterKey
<1> QED  BY <1>1, <1>2, <1>3 DEF Closing

LEMMA QuietDelete ==
  ASSUME TypeOK, Delete, doc' = doc, composer'.typed = composer.typed,
         ~IsComposing(composer)
  PROVE  UNCHANGED strokeVars
<1>1. doc \in Seq(Char) /\ Len(doc) \in Nat
  BY LenProperties DEF TypeOK
<1>2. ~TakesUp(doc)
  <2> SUFFICES ASSUME TakesUp(doc) PROVE FALSE
    OBVIOUS
  <2>1. doc' = DeleteLast(doc, 1)
    BY <1>1, TakenUp DEF Delete, DeleteKey
  <2>2. Len(doc) # 0
    <3>1. TrailingWord(doc) \in Seq(Char) /\ Len(TrailingWord(doc)) <= Len(doc)
      BY <1>1, TrailingWordText DEF IsSuffix
    <3>2. Len(TrailingWord(doc)) \in Nat /\ Len(TrailingWord(doc)) # 0
      BY <3>1, LenProperties, EmptySeq DEF TakesUp
    <3> QED  BY <1>1, <3>1, <3>2
  <2>3. Len(DeleteLast(doc, 1)) = IF 1 <= Len(doc) THEN Len(doc) - 1 ELSE 0
    BY <1>1, DeleteLastText
  <2> QED  BY <1>1, <2>1, <2>2, <2>3
<1>3. ~IsComposing(composer')
  BY DEF IsComposing
<1> QED  BY <1>2, <1>3 DEF Delete, ForgetsIf

LEMMA QuietPick ==
  ASSUME TypeOK, Pick, spaceState # "PHANTOM", doc' = doc,
         composer'.typed = composer.typed
  PROVE  spaceState' # "PHANTOM" /\ (~IsComposing(composer) => UNCHANGED strokeVars)
<1>0. doc \in Seq(Char) /\ Len(doc) \in Nat /\ composer.typed \in Seq(Char)
  BY LenProperties DEF TypeOK, WordComposer
<1>1. ASSUME NEW w \in SuggestedWords, PickSuggestion(w) PROVE FALSE
  <2>1. ~IsComposing(composer)
    BY <1>1 DEF PickSuggestion, IsComposing, EmptyComposer
  <2>2. Len(composer.typed) = 0
    BY <2>1, EmptySeq DEF IsComposing
  <2>3. BeforePick = DeleteLast(doc, 0)
    BY <2>2 DEF BeforePick
  <2>4. Len(BeforePick) = Len(doc) /\ BeforePick \in Seq(Char)
    <3>1. /\ DeleteLast(doc, 0) \in Seq(Char)
          /\ Len(DeleteLast(doc, 0)) = IF 0 <= Len(doc) THEN Len(doc) - 0 ELSE 0
      BY <1>0, DeleteLastText
    <3> QED  BY <1>0, <2>3, <3>1
  <2>5. w \in Seq(Char) /\ Len(w) \in Nat /\ Len(w) # 0
    BY TextAssumption, LenProperties, EmptySeq
  <2>6. Len(doc') = Len(BeforePick) + Len(w)
    BY <1>1, <2>4, <2>5, ConcatProperties DEF PickSuggestion
  <2> QED  BY <1>0, <2>4, <2>5, <2>6
<1>2. ASSUME NEW w \in SuggestedWords, PickInUrlField(w) PROVE FALSE
  BY <1>0, <1>2, TextAssumption, LongerText DEF PickInUrlField
<1>3. ASSUME NEW e \in Emojis, PickEmoji(e), ForgetsIf(IsComposing(composer))
      PROVE  spaceState' # "PHANTOM" /\ (~IsComposing(composer) => UNCHANGED strokeVars)
  BY <1>3 DEF PickEmoji, SpaceStateAfterEmoji, ForgetsIf
<1> QED  BY <1>1, <1>2, <1>3 DEF Pick

\* A key that changes neither the text nor the word owes no space where none
\* was owed, and where no word is composed it leaves the stroke alone.
LEMMA QuietKey ==
  ASSUME TypeOK, Typed, spaceState # "PHANTOM", doc' = doc,
         composer'.typed = composer.typed
  PROVE  spaceState' # "PHANTOM" /\ (~IsComposing(composer) => UNCHANGED strokeVars)
<1>0. doc \in Seq(Char)
  BY DEF TypeOK
<1>1. ASSUME NEW c \in WordChars \cup Digits, Letter(c) PROVE FALSE
  <2>1. c \in Char /\ doc' = Append(doc, c)
    BY <1>1, CharTypes DEF Letter, NonSeparatorKey, BeforeKey, WordChars
  <2> QED  BY <1>0, <2>1, LongerText
<1>2. CASE Closing
  BY <1>2, QuietClosing
<1>3. CASE Shift
  <2>1. spaceState' = spaceState /\ composer' = Ready(doc) /\ ForgetsIf(TakesUp(doc))
    BY <1>3 DEF Shift, ShiftKey
  <2>2. ASSUME ~IsComposing(composer) PROVE ~TakesUp(doc)
    BY <1>0, <2>1, <2>2, TakenUp DEF IsComposing
  <2> QED  BY <2>1, <2>2 DEF ForgetsIf
<1>4. CASE Delete
  BY <1>4, QuietDelete DEF Delete, DeleteKey
<1>5. CASE BatchDelete
  BY <1>5 DEF BatchDelete, RejectsBatch
<1>6. CASE Pick
  BY <1>6, QuietPick
<1>7. CASE RawKey /\ UNCHANGED strokeVars
  BY <1>7 DEF RawKey
<1> QED  BY <1>1, <1>2, <1>3, <1>4, <1>5, <1>6, <1>7 DEF Typed
-----------------------------------------------------------------------------
(* A stroke with nothing between its start and now.                        *)

\* It owes no space, and until its word is looked up nothing is composed.
FitApart ==
  /\ fit => spaceState # "PHANTOM"
  /\ fit /\ (drawing \/ asked) => ~IsComposing(composer)

\* A handler that does not come between leaves the word and the stroke.
LEMMA HandlerFits ==
  ASSUME TypeOK, FitApart, Handlers \/ Typed, fit'
  PROVE  /\ fit /\ spaceState' # "PHANTOM" /\ composer'.typed = composer.typed
         /\ ~IsComposing(composer) => UNCHANGED strokeVars
         /\ UNCHANGED <<drawing, asked>>
<1>1. CASE Typed
  <2>1. fit /\ doc' = doc /\ composer'.typed = composer.typed
    BY <1>1 DEF Typed, Between
  <2>2. UNCHANGED <<drawing, asked>>
    BY <1>1 DEF Typed, searchVars
  <2> QED  BY <1>1, <2>1, <2>2, QuietKey DEF FitApart
<1>2. CASE Host
  BY <1>2 DEF Host, HostEdit, Between, FitApart, searchVars
<1>3. CASE Load
  BY <1>3 DEF Load, LoadKeyboard, ForgetsIf, FitApart, searchVars
<1>4. CASE Background
  <2>1. composer'.typed = composer.typed /\ spaceState' = spaceState
    BY <1>4 DEF Background, IdleTimeout, StartLookup, FinishLookup, textVars, TypeOK,
                WordComposer
  <2> QED  BY <1>4, <2>1 DEF Background, FitApart, searchVars
<1> QED  BY <1>1, <1>2, <1>3, <1>4 DEF Handlers

\* A new stroke finds nothing composed and no space owed.
LEMMA SetApartClears ==
  ASSUME SetApart
  PROVE  ~IsComposing(composer') /\ spaceState' # "PHANTOM"
BY EmptyNotComposing DEF SetApart

LEMMA FitStep ==
  ASSUME TypeOK, FitApart, [GestureNext]_gestureVars
  PROVE  FitApart'
<1> SUFFICES ASSUME fit'
             PROVE  /\ spaceState' # "PHANTOM"
                    /\ drawing' \/ asked' => ~IsComposing(composer')
  BY DEF FitApart, IsComposing
<1> DEFINE Goal == /\ spaceState' # "PHANTOM"
                   /\ drawing' \/ asked' => ~IsComposing(composer')
<1>1. CASE Handlers \/ (Typed /\ BatchDelete)
  BY <1>1, HandlerFits DEF FitApart, IsComposing
<1>2. CASE StartGesture
  BY <1>2, SetApartClears DEF StartGesture
<1>3. CASE EndGesture
  BY <1>3 DEF EndGesture, textVars, FitApart
<1>4. CASE Abandon
  BY <1>4 DEF Abandon
<1>5. CASE StartDecode \/ DropDecode \/ StartUpdate
  <2>1. spaceState' = spaceState /\ composer' = composer /\ drawing' = drawing
    BY <1>5 DEF StartDecode, DropDecode, StartUpdate, vars, textVars
  <2>2. fit' = fit /\ (asked' = asked \/ asked' = FALSE)
    BY <1>5 DEF StartDecode, DropDecode, StartUpdate
  <2> QED  BY <2>1, <2>2 DEF FitApart, IsComposing
<1>6. CASE Answer
  <2>1. composer'.typed = composer.typed
    BY <1>6 DEF Answer, TypeOK, WordComposer
  <2> QED  BY <1>6, <2>1 DEF Answer, FitApart, IsComposing
<1>7. CASE SetWord
  BY <1>7 DEF SetWord, FitApart
<1>8. CASE CommitWord
  BY <1>8 DEF CommitWord
<1>9. CASE UNCHANGED gestureVars
  BY <1>9 DEF gestureVars, vars, textVars, searchVars, FitApart
<1> QED
  BY <1>1, <1>2, <1>3, <1>4, <1>5, <1>6, <1>7, <1>8, <1>9, StepKinds

\* From the start of a stroke on, while nothing comes between, no space is owed
\* and no word is composed before the lookup.
THEOREM FitStrokeApart == GestureSpec => []FitApart
<1>1. GestureInit => FitApart
  BY DEF GestureInit, FitApart
<1>2. GestureTypeOK /\ FitApart /\ [GestureNext]_gestureVars => FitApart'
  BY FitStep DEF GestureTypeOK
<1> QED  BY <1>1, <1>2, GestureTypeCorrect, PTL DEF GestureSpec

\* The stroke that an operation of the suggestion queue will look up is still in
\* the composer when it gets there, if no key, pick, cursor or load came between.
THEOREM StrokeIsKept == GestureSpec => []StrokeWaits
<1>1. GestureInit => StrokeWaits
  BY DEF GestureInit, StrokeWaits
<1>2. GestureTypeOK /\ FitApart /\ StrokeWaits /\ [GestureNext]_gestureVars
        => StrokeWaits'
  <2> SUFFICES ASSUME TypeOK, FitApart, StrokeWaits, [GestureNext]_gestureVars,
                      asked', ~drawing', fit'
               PROVE  batch' /\ points'
    BY DEF StrokeWaits, GestureTypeOK
  <2>1. CASE Handlers \/ (Typed /\ BatchDelete)
    <3>1. /\ fit /\ UNCHANGED <<drawing, asked>>
          /\ ~IsComposing(composer) => UNCHANGED strokeVars
      BY <2>1, HandlerFits
    <3>2. asked /\ ~drawing
      BY <3>1
    <3> QED  BY <3>1, <3>2 DEF FitApart, StrokeWaits, strokeVars
  <2>2. CASE StartGesture \/ Abandon \/ CommitWord
    BY <2>2 DEF StartGesture, Abandon, CommitWord
  <2>3. CASE EndGesture
    BY <2>3 DEF EndGesture, EndBatchInput
  <2>4. CASE StartDecode \/ DropDecode
    BY <2>4 DEF StartDecode, DropDecode
  <2>5. CASE StartUpdate \/ Answer
    BY <2>5 DEF StartUpdate, Answer, strokeVars, StrokeWaits
  <2>6. CASE SetWord
    BY <2>6 DEF SetWord
  <2>7. CASE UNCHANGED gestureVars
    BY <2>7 DEF gestureVars, searchVars, strokeVars, StrokeWaits
  <2> QED  BY <2>1, <2>2, <2>3, <2>4, <2>5, <2>6, <2>7, StepKinds
<1> QED  BY <1>1, <1>2, GestureTypeCorrect, FitStrokeApart, PTL DEF GestureSpec
-----------------------------------------------------------------------------
(* The drawn word and the text.                                            *)

\* What the steps of a stroke beside the first and the last leave alone.
LEMMA StrokeSteps ==
  ASSUME TypeOK,
         \/ EndGesture \/ Abandon \/ StartDecode \/ DropDecode \/ StartUpdate
         \/ Answer \/ UNCHANGED gestureVars
  PROVE  /\ doc' = doc /\ composer'.typed = composer.typed
         /\ spaceState' = spaceState /\ stale' = stale
<1>1. CASE \/ EndGesture \/ Abandon \/ StartDecode \/ DropDecode \/ StartUpdate
           \/ UNCHANGED gestureVars
  BY <1>1 DEF EndGesture, Abandon, StartDecode, DropDecode, StartUpdate, gestureVars,
              vars, textVars, history
<1>2. CASE Answer
  BY <1>2 DEF Answer, TypeOK, WordComposer, history
<1> QED  BY <1>1, <1>2

\* A word that stays composed when it is written is the word that is written,
\* and no space is owed before it.
LEMMA CommittedWord ==
  ASSUME FitApart, CommitWord, IsComposing(composer'), ~stale'
  PROVE  composer'.typed = decoding.word /\ spaceState' # "PHANTOM"
BY DEF CommitWord, FitApart

\* A drawn word does not bring back the phantom space inside a word: where the
\* lookup answers behind the text, the composer is known not to fit it.
THEOREM NoSpaceInDrawnWord == GestureSpec => []NoSpaceOwedInWord
<1>1. GestureInit => NoSpaceOwedInWord
  BY EmptyNotComposing DEF GestureInit, Init, NoSpaceOwedInWord
<1>2. GestureTypeOK /\ FitApart /\ NoSpaceOwedInWord /\ [GestureNext]_gestureVars
        => NoSpaceOwedInWord'
  <2> SUFFICES ASSUME TypeOK, FitApart, OwedApart, [GestureNext]_gestureVars,
                      IsComposing(composer'), ~stale'
               PROVE  spaceState' # "PHANTOM"
    BY DEF NoSpaceOwedInWord, OwedApart, GestureTypeOK, IsComposing
  <2>1. CASE Handlers
    BY <2>1, HandlerIsStep, OwedStep DEF OwedApart, IsComposing
  <2>2. CASE Typed /\ BatchDelete
    BY <2>2 DEF BatchDelete
  <2>3. CASE StartGesture
    BY <2>3, SetApartClears DEF StartGesture
  <2>4. CASE \/ EndGesture \/ Abandon \/ StartDecode \/ DropDecode \/ StartUpdate
             \/ Answer \/ UNCHANGED gestureVars
    BY <2>4, StrokeSteps DEF OwedApart, IsComposing
  <2>5. CASE SetWord
    BY <2>5 DEF SetWord
  <2>6. CASE CommitWord
    BY <2>6, CommittedWord
  <2> QED  BY <2>1, <2>2, <2>3, <2>4, <2>5, <2>6, StepKinds
<1> QED  BY <1>1, <1>2, GestureTypeCorrect, FitStrokeApart, PTL DEF GestureSpec

\* Drawn or typed, the word the composer holds is the word at the cursor, unless
\* the text changed behind its back.
THEOREM DrawnWordAtCursor == GestureSpec => []ComposerMatchesText
<1>1. GestureInit => ComposerMatchesText
  BY EmptyNotComposing DEF GestureInit, Init, ComposerMatchesText
<1>2. GestureTypeOK /\ FitApart /\ NoSpaceOwedInWord /\ ComposerMatchesText
        /\ [GestureNext]_gestureVars => ComposerMatchesText'
  <2> SUFFICES ASSUME GestureTypeOK, FitApart, OwedApart, ComposerMatchesText,
                      [GestureNext]_gestureVars, IsComposing(composer'), ~stale'
               PROVE  IsSuffix(composer'.typed, doc')
    BY DEF NoSpaceOwedInWord, OwedApart, ComposerMatchesText, IsComposing
  <2>0. TypeOK /\ StrokeOK
    BY GestureTypeParts
  <2>1. CASE Handlers
    BY <2>0, <2>1, HandlerIsStep, ComposerStep DEF ComposerMatchesText, IsComposing
  <2>2. CASE Typed /\ BatchDelete
    BY <2>2, EmptyNotComposing DEF BatchDelete
  <2>3. CASE StartGesture
    BY <2>3, SetApartClears DEF StartGesture
  <2>4. CASE \/ EndGesture \/ Abandon \/ StartDecode \/ DropDecode \/ StartUpdate
             \/ Answer \/ UNCHANGED gestureVars
    BY <2>0, <2>4, StrokeSteps DEF ComposerMatchesText, IsComposing
  <2>5. CASE SetWord
    BY <2>5 DEF SetWord
  <2>6. CASE CommitWord
    <3>1. doc \in Seq(Char) /\ decoding.word \in Seq(Char)
      BY <2>0 DEF TypeOK, StrokeOK, Search
    <3>2. doc' = doc \o decoding.word /\ composer'.typed = decoding.word
      BY <2>6, CommittedWord DEF CommitWord
    <3> QED  BY <3>1, <3>2, SuffixConcat
  <2> QED  BY <2>1, <2>2, <2>3, <2>4, <2>5, <2>6, StepKinds
<1> QED
  BY <1>1, <1>2, GestureTypeCorrect, FitStrokeApart, NoSpaceInDrawnWord, PTL
     DEF GestureSpec

\* The text before the word in a step of a stroke.
LEMMA StrokeTextStep ==
  ASSUME TypeOK, TypeOK', StrokeOK, ComposerMatchesText,
         \/ BatchDelete \/ StartGesture \/ CommitWord \/ doc' = doc,
         IsComposing(composer), ~stale
  PROVE  BeforeWordStays
<1> SUFFICES DeleteLast(doc, Len(composer.typed)) =
               SubSeq(doc', 1, Len(DeleteLast(doc, Len(composer.typed))))
  BY DEF BeforeWordStays
<1> DEFINE n == Len(composer.typed)
           k == Len(doc) - n
           Kept == Keeps(k, doc, doc')
<1>1. doc \in Seq(Char) /\ doc' \in Seq(Char) /\ composer.typed \in Seq(Char)
  BY DEF TypeOK, WordComposer
<1>2. n \in Nat /\ Len(doc) \in Nat /\ k = Len(doc) - n
  BY <1>1, LenProperties
<1> HIDE DEF n, k
<1>3. n <= Len(doc) /\ k \in Nat /\ Keeps(k, doc, doc)
  <2>1. n <= Len(doc)
    BY DEF ComposerMatchesText, IsSuffix, n
  <2> QED  BY <1>2, <2>1 DEF Keeps
<1>4. ASSUME BatchDelete PROVE Kept
  <2>1. doc' = DeleteLast(doc, n)
    BY <1>4 DEF BatchDelete, Rejected, n
  <2>2. k + n <= Len(doc)
    BY <1>2, <1>3
  <2> QED  BY <1>1, <1>2, <1>3, <2>1, <2>2, KeepsDelete
<1>5. ASSUME StartGesture PROVE Kept
  <2>1. doc' = Append(doc, Space) \/ doc' = doc
    BY <1>5 DEF StartGesture, SetApart, Spaced
  <2> QED  BY <1>1, <1>3, <2>1, CharTypes, KeepsAppend
<1>6. ASSUME CommitWord PROVE Kept
  <2>1. doc' = doc \o decoding.word /\ decoding.word \in Seq(Char)
    BY <1>6 DEF CommitWord, StrokeOK, Search
  <2> QED  BY <1>1, <1>3, <2>1, KeepsConcat
<1>7. ASSUME doc' = doc PROVE Kept
  BY <1>3, <1>7
<1> QED  BY <1>1, <1>2, <1>3, <1>4, <1>5, <1>6, <1>7, KeepsPrefix DEF n
\* Whatever is drawn over a word, and whatever then becomes of the drawn word,
\* the text before it is not touched: the delete that rejects it takes no more
\* than was written.
THEOREM TextBeforeDrawnWord == GestureSpec => TextBeforeWordKept
<1> DEFINE Goal == IsComposing(composer) /\ ~stale /\ ~stale' => BeforeWordStays
<1>1. GestureTypeOK /\ GestureTypeOK' /\ NoSpaceOwedInWord /\ ComposerMatchesText
        /\ [GestureNext]_gestureVars => [Goal]_vars
  <2> SUFFICES ASSUME GestureTypeOK, TypeOK', OwedApart, ComposerMatchesText,
                      [GestureNext]_gestureVars,
                      IsComposing(composer), ~stale, ~stale'
               PROVE  BeforeWordStays
    BY DEF NoSpaceOwedInWord, OwedApart, GestureTypeOK
  <2>0. TypeOK /\ StrokeOK
    BY GestureTypeParts
  <2>1. CASE Handlers
    BY <2>0, <2>1, HandlerIsStep, TextStep
  <2>2. CASE (Typed /\ BatchDelete) \/ StartGesture \/ CommitWord
    BY <2>0, <2>2, StrokeTextStep
  <2>3. CASE \/ EndGesture \/ Abandon \/ StartDecode \/ DropDecode \/ StartUpdate
             \/ Answer \/ UNCHANGED gestureVars
    BY <2>0, <2>3, StrokeSteps, StrokeTextStep
  <2>4. CASE SetWord
    BY <2>4 DEF SetWord
  <2> QED  BY <2>1, <2>2, <2>3, <2>4, StepKinds
<1> HIDE DEF Goal
<1>2. GestureSpec => [][Goal]_vars
  BY <1>1, GestureTypeCorrect, NoSpaceInDrawnWord, DrawnWordAtCursor, PTL
     DEF GestureSpec
<1> QED  BY <1>2 DEF TextBeforeWordKept, Goal, BeforeWordStays

-----------------------------------------------------------------------------
(* The session.                                                            *)

\* A key, a pick or a host leaves the session closed, about to end, as it was,
\* or left open as noted.
LEMMA HandlerSession ==
  ASSUME Handlers \/ (Typed /\ BatchDelete), SessionEndsOrDraws
  PROVE  SessionEndsOrDraws'
<1>1. ASSUME UNCHANGED <<sessionVars, drawing, left>> PROVE SessionEndsOrDraws'
  BY <1>1 DEF sessionVars, SessionEndsOrDraws
<1>2. CASE Typed
  <2>1. ASSUME NEW c, NonSeparatorKey(c) \/ SeparatorKey(c) PROVE idleTimer' = TRUE
    BY <2>1 DEF NonSeparatorKey, SeparatorKey, Session
  <2>2. CASE SpaceKey \/ EnterKey \/ DeleteKey \/ ShiftKey \/ RawKey \/ BatchDelete
    BY <2>2 DEF SpaceKey, EnterKey, DeleteKey, ShiftKey, RawKey, BatchDelete, Session,
                SessionEndsOrDraws
  <2>3. ASSUME NEW w, PickSuggestion(w) \/ PickEmoji(w) PROVE idleTimer' = TRUE
    BY <2>3 DEF PickSuggestion, PickEmoji, Session
  <2>4. ASSUME NEW w, PickInUrlField(w) PROVE left'
    BY <1>2, <2>4 DEF PickInUrlField, Typed
  <2>5. \/ \E c : NonSeparatorKey(c) \/ SeparatorKey(c)
        \/ SpaceKey \/ EnterKey \/ DeleteKey \/ ShiftKey \/ RawKey \/ BatchDelete
        \/ \E w : PickSuggestion(w) \/ PickEmoji(w)
        \/ \E w : PickInUrlField(w)
    BY <1>2, Zenon DEF Typed, Letter, Closing, Shift, Delete, Pick
  <2> QED  BY <2>1, <2>2, <2>3, <2>4, <2>5 DEF SessionEndsOrDraws
<1>3. CASE Host
  BY <1>1, <1>3 DEF Host, HostEdit
<1>4. CASE Load
  BY <1>1, <1>4 DEF Load, LoadKeyboard
<1>5. CASE Background
  <2>1. CASE IdleTimeout
    BY <2>1 DEF IdleTimeout, SessionEndsOrDraws
  <2>2. CASE StartLookup \/ FinishLookup
    BY <1>1, <1>5, <2>2 DEF Background, StartLookup, FinishLookup
  <2> QED  BY <1>5, <2>1, <2>2 DEF Background
<1> QED  BY <1>2, <1>3, <1>4, <1>5 DEF Handlers

\* The text of the host is listened to again, but where a stroke is given up or
\* a word is picked in a field for addresses: a stroke that begins cancels the
\* end of the session, and only its own end schedules another.
THEOREM SessionIsClosed == GestureSpec => []SessionEndsOrDraws
<1>1. GestureInit => SessionEndsOrDraws
  BY DEF GestureInit, Init, SessionEndsOrDraws
<1>2. SessionEndsOrDraws /\ [GestureNext]_gestureVars => SessionEndsOrDraws'
  <2> SUFFICES ASSUME SessionEndsOrDraws, [GestureNext]_gestureVars
               PROVE  SessionEndsOrDraws'
    OBVIOUS
  <2>1. CASE Handlers \/ (Typed /\ BatchDelete)
    BY <2>1, HandlerSession
  <2>2. CASE StartGesture
    BY <2>2 DEF StartGesture, SessionEndsOrDraws
  <2>3. CASE EndGesture
    BY <2>3 DEF EndGesture, EndBatchInput, SessionEndsOrDraws
  <2>4. CASE Abandon
    BY <2>4 DEF Abandon, SessionEndsOrDraws
  <2>5. CASE \/ StartDecode \/ DropDecode \/ StartUpdate
             \/ Answer \/ SetWord \/ CommitWord \/ UNCHANGED gestureVars
    BY <2>5 DEF StartDecode, DropDecode, StartUpdate, Answer, SetWord, CommitWord,
                gestureVars, vars, sessionVars, SessionEndsOrDraws
  <2> QED  BY <2>1, <2>2, <2>3, <2>4, <2>5, StepKinds
<1> QED  BY <1>1, <1>2, PTL DEF GestureSpec
-----------------------------------------------------------------------------
(* Where a word may stand.                                                 *)

\* The text before what a composer holds has a gap at its end.
ApartIn(comp, text) == Gap(DeleteLast(text, Len(comp.typed)))

\* A word starts at a gap, and without one there is a gap already: unless the
\* text was not seen, or a lookup is about to write behind it, or a space is
\* owed.
Apart ==
  /\ ~unseen
  /\ IsComposing(composer) => ~stale
  /\ ~IsComposing(composer) => spaceState # "PHANTOM"
  => ApartIn(composer, doc)

LEMMA NoLetter ==
  /\ Space \notin Letters /\ Newline \notin Letters
  /\ \A c \in Digits \cup Separators \cup OtherSymbols : c \notin Letters
BY CharAssumption DEF WordChars

\* Deleting from a text that was extended, and deleting in two parts.
LEMMA DeleteAppended ==
  ASSUME NEW t \in Seq(Char), NEW c \in Char, NEW n \in Nat
  PROVE  DeleteLast(Append(t, c), n + 1) = DeleteLast(t, n)
<1> DEFINE u == Append(t, c)
           a == DeleteLast(u, n + 1)
           b == DeleteLast(t, n)
<1>1. Len(t) \in Nat
  BY LenProperties
<1>2. u \in Seq(Char) /\ Len(u) = Len(t) + 1 /\ \A i \in 1..Len(t) : u[i] = t[i]
  BY <1>1, AppendProperties
<1> HIDE DEF u
<1>3. /\ a \in Seq(Char) /\ Len(a) = IF n + 1 <= Len(u) THEN Len(u) - (n + 1) ELSE 0
      /\ \A i \in 1..Len(a) : a[i] = u[i]
  BY <1>2, DeleteLastText
<1>4. /\ b \in Seq(Char) /\ Len(b) = IF n <= Len(t) THEN Len(t) - n ELSE 0
      /\ \A i \in 1..Len(b) : b[i] = t[i]
  BY DeleteLastText
<1> HIDE DEF a, b
<1>5. Len(a) = Len(b) /\ Len(b) <= Len(t)
  BY <1>1, <1>2, <1>3, <1>4
<1>6. ASSUME NEW i \in 1..Len(a) PROVE a[i] = b[i]
  <2>1. i \in 1..Len(t) /\ i \in 1..Len(b)
    BY <1>1, <1>3, <1>4, <1>5, LenProperties
  <2> QED  BY <1>2, <1>3, <1>4, <2>1
<1>7. a = b
  BY <1>3, <1>4, <1>5, <1>6, SeqEqual
<1> QED  BY <1>7 DEF a, b, u

LEMMA DeleteParts ==
  ASSUME NEW t \in Seq(Char), NEW n \in Nat \ {0}
  PROVE  DeleteLast(DeleteLast(t, 1), n - 1) = DeleteLast(t, n)
<1> DEFINE u == DeleteLast(t, 1)
           a == DeleteLast(u, n - 1)
           b == DeleteLast(t, n)
<1>1. Len(t) \in Nat /\ n - 1 \in Nat
  BY LenProperties
<1>2. /\ u \in Seq(Char) /\ Len(u) = IF 1 <= Len(t) THEN Len(t) - 1 ELSE 0
      /\ \A i \in 1..Len(u) : u[i] = t[i]
  BY DeleteLastText
<1> HIDE DEF u
<1>3. /\ a \in Seq(Char) /\ Len(a) = IF n - 1 <= Len(u) THEN Len(u) - (n - 1) ELSE 0
      /\ \A i \in 1..Len(a) : a[i] = u[i]
  BY <1>1, <1>2, DeleteLastText
<1>4. /\ b \in Seq(Char) /\ Len(b) = IF n <= Len(t) THEN Len(t) - n ELSE 0
      /\ \A i \in 1..Len(b) : b[i] = t[i]
  BY DeleteLastText
<1> HIDE DEF a, b
<1>5. Len(a) = Len(b) /\ Len(a) <= Len(u)
  BY <1>1, <1>2, <1>3, <1>4
<1>6. ASSUME NEW i \in 1..Len(a) PROVE a[i] = b[i]
  <2>1. i \in 1..Len(u) /\ i \in 1..Len(b)
    BY <1>2, <1>3, <1>4, <1>5, LenProperties
  <2> QED  BY <1>2, <1>3, <1>4, <2>1
<1>7. a = b
  BY <1>3, <1>4, <1>5, <1>6, SeqEqual
<1> QED  BY <1>7 DEF a, b, u

LEMMA DeleteConcat ==
  ASSUME NEW t \in Seq(Char), NEW w \in Seq(Char)
  PROVE  DeleteLast(t \o w, Len(w)) = t
<1> DEFINE u == t \o w
           a == DeleteLast(u, Len(w))
<1>1. Len(t) \in Nat /\ Len(w) \in Nat
  BY LenProperties
<1>2. u \in Seq(Char) /\ Len(u) = Len(t) + Len(w) /\ \A i \in 1..Len(t) : u[i] = t[i]
  BY <1>1, ConcatProperties
<1> HIDE DEF u
<1>3. /\ a \in Seq(Char) /\ Len(a) = IF Len(w) <= Len(u) THEN Len(u) - Len(w) ELSE 0
      /\ \A i \in 1..Len(a) : a[i] = u[i]
  BY <1>1, <1>2, DeleteLastText
<1> HIDE DEF a
<1>4. Len(a) = Len(t)
  BY <1>1, <1>2, <1>3
<1>5. a = t
  BY <1>2, <1>3, <1>4, SeqEqual
<1> QED  BY <1>5 DEF a, u

LEMMA DeleteNone ==
  ASSUME NEW t \in Seq(Char)
  PROVE  DeleteLast(t, 0) = t
<1>1. Len(t) \in Nat
  BY LenProperties
<1>2. /\ DeleteLast(t, 0) \in Seq(Char)
      /\ Len(DeleteLast(t, 0)) = IF 0 <= Len(t) THEN Len(t) - 0 ELSE 0
      /\ \A i \in 1..Len(DeleteLast(t, 0)) : DeleteLast(t, 0)[i] = t[i]
  BY DeleteLastText
<1>3. Len(DeleteLast(t, 0)) = Len(t)
  BY <1>1, <1>2
<1> QED  BY <1>2, <1>3, SeqEqual

\* Without a word it is the whole text that ends in a gap.
LEMMA NoWordApart ==
  ASSUME NEW comp, NEW t \in Seq(Char), ~IsComposing(comp)
  PROVE  ApartIn(comp, t) <=> Gap(t)
<1>1. Len(comp.typed) = 0
  BY EmptySeq DEF IsComposing
<1> QED  BY <1>1, DeleteNone DEF ApartIn

\* What makes a gap: a last character that is no letter, a space that is put in,
\* the start of a word.
LEMMA GapAppended ==
  ASSUME NEW t \in Seq(Char), NEW c \in Char, c \notin Letters
  PROVE  Gap(Append(t, c))
BY LenProperties, AppendProperties DEF Gap

LEMMA SpacedGap ==
  ASSUME NEW t \in Seq(Char) PROVE Gap(Spaced(t))
BY NoLetter, CharTypes, GapAppended DEF Spaced, Gap

LEMMA TrailingGap ==
  ASSUME NEW t \in Seq(Char)
  PROVE  Gap(DeleteLast(t, Len(TrailingWord(t))))
<1> DEFINE k == WordStart(t)
           d == DeleteLast(t, Len(TrailingWord(t)))
<1>1. Len(t) \in Nat /\ k \in 0..Len(t) /\ (k > 0 => t[k] \notin WordChars)
  BY LenProperties, WordStartExists
<1> HIDE DEF k
<1>2. Len(TrailingWord(t)) = Len(t) - k
  BY <1>1, SuffixFrom DEF TrailingWord, k
<1>3. Len(t) - k \in Nat /\ Len(t) - k <= Len(t) /\ Len(t) - (Len(t) - k) = k
  BY <1>1
<1>4. /\ d \in Seq(Char) /\ Len(d) = k
      /\ \A i \in 1..Len(d) : d[i] = t[i]
  BY <1>2, <1>3, DeleteLastText
<1> HIDE DEF d
<1>5. ASSUME k = 0 PROVE Gap(d)
  BY <1>4, <1>5, EmptySeq DEF Gap
<1>6. ASSUME k > 0 PROVE Gap(d)
  <2>1. k \in 1..Len(d) /\ t[k] \notin Letters
    BY <1>1, <1>4, <1>6 DEF WordChars
  <2> QED  BY <1>4, <2>1 DEF Gap
<1>7. Gap(d)
  BY <1>1, <1>5, <1>6
<1> QED  BY <1>7 DEF d
\* What the composer does keeps the gap before its word.
LEMMA ResumedApart ==
  ASSUME NEW comp, NEW t \in Seq(Char), ApartIn(comp, t) \/ ~IsComposing(comp)
  PROVE  ApartIn(Resumed(comp, t), t)
<1>1. CASE TrailingWord(t) # <<>>
  <2>1. Resumed(comp, t).typed = TrailingWord(t)
    BY <1>1 DEF Resumed, EmptyComposer
  <2> QED  BY <2>1, TrailingGap DEF ApartIn
<1>2. CASE TrailingWord(t) = <<>>
  <2>1. Resumed(comp, t) = comp
    BY <1>2 DEF Resumed
  <2>2. CASE ~IsComposing(comp)
    <3>1. Len(TrailingWord(t)) = Len(comp.typed)
      BY <1>2, <2>2 DEF IsComposing
    <3> QED  BY <2>1, <3>1, TrailingGap DEF ApartIn
  <2> QED  BY <2>1, <2>2
<1> QED  BY <1>1, <1>2

LEMMA ReadyApart ==
  ASSUME TypeOK, NEW t \in Seq(Char), ApartIn(composer, t)
  PROVE  ApartIn(Ready(t), t)
<1>1. CASE ~firstInit
  BY <1>1 DEF Ready
<1>2. CASE firstInit
  <2>1. Resumed(composer, t) \in WordComposer
    BY ResumedType DEF TypeOK
  <2>2. Ready(t).typed = Resumed(composer, t).typed
    BY <1>2, <2>1 DEF Ready, WordComposer
  <2> QED  BY <2>2, ResumedApart DEF ApartIn
<1> QED  BY <1>1, <1>2 DEF TypeOK

LEMMA ExtendedApart ==
  ASSUME NEW comp \in WordComposer, NEW t \in Seq(Char), NEW c \in Char, ApartIn(comp, t)
  PROVE  ApartIn(Extended(comp, c), Append(t, c))
<1>1. Extended(comp, c).typed = Append(comp.typed, c) /\ comp.typed \in Seq(Char)
  BY DEF Extended, WordComposer
<1>2. Len(Append(comp.typed, c)) = Len(comp.typed) + 1 /\ Len(comp.typed) \in Nat
  BY <1>1, AppendProperties, LenProperties
<1> QED  BY <1>1, <1>2, DeleteAppended DEF ApartIn

LEMMA ShortenedApart ==
  ASSUME NEW comp \in WordComposer, NEW t \in Seq(Char), IsComposing(comp),
         ApartIn(comp, t)
  PROVE  ApartIn(Shortened(comp), DeleteLast(t, 1))
<1> DEFINE n == Len(comp.typed)
<1>1. Shortened(comp).typed = DeleteLast(comp.typed, 1) /\ comp.typed \in Seq(Char)
  BY DEF Shortened, WordComposer
<1>2. n \in Nat \ {0}
  BY <1>1, LenProperties, EmptySeq DEF IsComposing
<1>3. Len(DeleteLast(comp.typed, 1)) = IF 1 <= n THEN n - 1 ELSE 0
  BY <1>1, DeleteLastText
<1> HIDE DEF n
<1>4. Len(Shortened(comp).typed) = n - 1
  BY <1>1, <1>2, <1>3
<1>5. DeleteLast(DeleteLast(t, 1), n - 1) = DeleteLast(t, n)
  BY <1>2, DeleteParts
<1> QED  BY <1>4, <1>5 DEF ApartIn, n

\* A key finds the word at a gap, or puts one before it.
LEMMA FoundApart ==
  ASSUME TypeOK, Apart, OwedApart, Typed, ~unseen'
  PROVE  /\ ~unseen /\ ~stale
         /\ IsComposing(composer) => spaceState # "PHANTOM"
         /\ spaceState # "PHANTOM" => ApartIn(composer, doc)
         /\ model = "text"
BY DEF Typed, Apart, OwedApart

LEMMA BeforeApart ==
  ASSUME TypeOK, Apart, OwedApart, Typed, ~unseen'
  PROVE  ApartIn(composer, IF spaceState = "PHANTOM" THEN Spaced(doc) ELSE doc)
<1>1. doc \in Seq(Char) /\ Spaced(doc) \in Seq(Char)
  BY SpacedText DEF TypeOK
<1>2. CASE spaceState = "PHANTOM"
  BY <1>1, <1>2, FoundApart, SpacedGap, NoWordApart
<1>3. CASE spaceState # "PHANTOM"
  BY <1>3, FoundApart
<1> QED  BY <1>2, <1>3

LEMMA LetterApart ==
  ASSUME TypeOK, NEW c \in WordChars \cup Digits, NonSeparatorKey(c),
         NEW t \in Seq(Char), t = BeforeKey(c), ApartIn(composer, t)
  PROVE  ApartIn(composer', doc')
<1> DEFINE comp == Ready(t)
<1>1. /\ doc' = Append(t, c)
      /\ composer' = CASE IsComposing(comp) -> Extended(comp, c)
               [] ~IsComposing(comp) /\ c \in Letters -> Extended(EmptyComposer, c)
               [] ~IsComposing(comp) /\ c \in Connectors -> EmptyComposer
               [] OTHER -> comp
  BY DEF NonSeparatorKey
<1>2. comp \in WordComposer /\ ApartIn(comp, t) /\ c \in Char
  BY ReadyType, ReadyApart, CharTypes DEF WordChars
<1> HIDE DEF comp
<1>3. CASE IsComposing(comp)
  <2>1. composer' = Extended(comp, c)
    BY <1>1, <1>3
  <2> QED  BY <1>1, <1>2, <2>1, ExtendedApart
<1>4. CASE ~IsComposing(comp) /\ c \in Letters
  <2>1. composer' = Extended(EmptyComposer, c)
    BY <1>1, <1>4, GestureAssumption
  <2>2. ApartIn(EmptyComposer, t)
    BY <1>2, <1>4, EmptyNotComposing, NoWordApart
  <2> QED  BY <1>1, <1>2, <2>1, <2>2, EmptyComposerType, ExtendedApart
<1>5. CASE ~IsComposing(comp) /\ c \notin Letters
  <2>1. ~IsComposing(composer')
    <3>1. composer' = EmptyComposer \/ composer' = comp
      BY <1>1, <1>5
    <3> QED  BY <1>5, <3>1, EmptyNotComposing
  <2>2. Append(t, c) \in Seq(Char) /\ Gap(Append(t, c))
    BY <1>2, <1>5, GapAppended, AppendProperties
  <2> QED  BY <1>1, <2>1, <2>2, NoWordApart
<1> QED  BY <1>3, <1>4, <1>5

LEMMA DeleteApart ==
  ASSUME TypeOK, TypeOK', DeleteKey, ApartIn(composer, doc) \/ ~IsComposing(composer)
  PROVE  ApartIn(composer', doc')
<1> DEFINE comp == Ready(doc)
<1>1. doc \in Seq(Char) /\ doc' \in Seq(Char)
  BY DEF TypeOK
<1>2. comp \in WordComposer
  BY <1>1, ReadyType
<1>3. IsComposing(comp) => ApartIn(comp, doc)
  <2>1. CASE firstInit
    <3>1. Resumed(composer, doc) \in WordComposer
      BY <1>1, ResumedType DEF TypeOK
    <3>2. Ready(doc).typed = Resumed(composer, doc).typed
      BY <2>1, <3>1 DEF Ready, WordComposer
    <3> QED  BY <1>1, <3>2, ResumedApart DEF ApartIn
  <2>2. CASE ~firstInit
    BY <2>2 DEF Ready
  <2> QED  BY <2>1, <2>2 DEF TypeOK
<1>4. \/ /\ IsComposing(comp)
         /\ doc' = DeleteLast(doc, 1) /\ composer' = Shortened(comp)
      \/ ~IsComposing(comp) /\ composer' = Resumed(comp, doc')
  BY Zenon DEF DeleteKey
<1> HIDE DEF comp
<1> QED  BY <1>1, <1>2, <1>3, <1>4, ShortenedApart, ResumedApart

\* A word that is closed leaves a mark, or owes a space.
LEMMA ClosedApart ==
  ASSUME TypeOK, Closing
  PROVE  /\ ~IsComposing(composer')
         /\ spaceState' = "PHANTOM" \/ Gap(doc')
<1>0. doc \in Seq(Char) /\ \A c : BeforeKey(c) \in Seq(Char)
  BY TypeParts, BeforeKeyType DEF TypeOK
<1>1. ASSUME NEW c \in Separators \cup OtherSymbols, SeparatorKey(c)
      PROVE  spaceState' = "PHANTOM" \/ doc' = Append(BeforeKey(c), c)
  BY <1>1 DEF SeparatorKey, CommitCorrection, CommitTyped
<1>2. ASSUME SpaceKey PROVE spaceState' = "PHANTOM" \/ Gap(doc')
  <2>1. spaceState' = "PHANTOM" \/ doc' = Append(doc, Space)
    BY <1>2, GestureAssumption DEF SpaceKey, CommitCorrection, CommitTyped
  <2> QED  BY <1>0, <2>1, NoLetter, CharTypes, GapAppended
<1>3. ASSUME EnterKey PROVE Gap(doc')
  <2>1. doc' = Append(doc, Newline)
    BY <1>3 DEF EnterKey
  <2> QED  BY <1>0, <2>1, NoLetter, CharTypes, GapAppended
<1>4. ~IsComposing(composer')
  <2>1. ASSUME NEW c, SeparatorKey(c) PROVE ~IsComposing(composer')
    BY <2>1, CommitsEndWord DEF SeparatorKey
  <2>2. CASE SpaceKey
    BY <2>2, CommitsEndWord DEF SpaceKey
  <2>3. CASE EnterKey
    BY <2>3, EmptyNotComposing DEF EnterKey
  <2> QED  BY <2>1, <2>2, <2>3 DEF Closing
<1>5. ASSUME NEW c \in Separators \cup OtherSymbols PROVE c \in Char /\ c \notin Letters
  BY CharTypes, NoLetter
<1>6. ASSUME NEW c \in Separators \cup OtherSymbols, SeparatorKey(c)
      PROVE  spaceState' = "PHANTOM" \/ Gap(doc')
  BY <1>0, <1>1, <1>5, <1>6, GapAppended
<1> QED  BY <1>2, <1>3, <1>4, <1>6 DEF Closing
LEMMA GapEnds ==
  ASSUME NEW t \in Seq(Char), NEW u \in Seq(Char), u # <<>>, u[Len(u)] \notin Letters
  PROVE  Gap(t \o u)
<1>1. Len(t) \in Nat /\ Len(u) \in Nat \ {0}
  BY LenProperties, EmptySeq
<1>2. Len(t \o u) = Len(t) + Len(u) /\ (t \o u)[Len(t) + Len(u)] = u[Len(u)]
  BY <1>1, ConcatProperties
<1> QED  BY <1>2 DEF Gap

LEMMA PickApart ==
  ASSUME TypeOK, Pick, model = "text"
  PROVE  /\ ~IsComposing(composer')
         /\ spaceState' = "PHANTOM" \/ Gap(doc')
<1>1. ASSUME NEW w \in SuggestedWords, PickSuggestion(w)
      PROVE  ~IsComposing(composer') /\ spaceState' = "PHANTOM"
  BY <1>1, EmptyNotComposing DEF PickSuggestion
<1>2. ASSUME NEW w, PickInUrlField(w) PROVE FALSE
  BY <1>2 DEF PickInUrlField
<1>3. ASSUME NEW e \in Emojis, PickEmoji(e)
      PROVE  ~IsComposing(composer') /\ Gap(doc')
  <2>1. composer' = EmptyComposer \/ (~IsComposing(composer) /\ composer' = composer)
    BY <1>3 DEF PickEmoji
  <2>2. doc' = BeforePick \o <<e>> \/ doc' = BeforePick \o <<e, Space>>
    BY <1>3 DEF PickEmoji
  <2>3. BeforePick \in Seq(Char) /\ e \in Char /\ Space \in Char
    BY TypeParts, BeforePickType, CharTypes
  <2>4. e \notin Letters /\ Space \notin Letters
    BY NoLetter, CharAssumption
  <2>5. Gap(BeforePick \o <<e>>) /\ Gap(BeforePick \o <<e, Space>>)
    <3>1. /\ <<e>> \in Seq(Char) /\ <<e>> # <<>> /\ Len(<<e>>) = 1
          /\ <<e, Space>> \in Seq(Char) /\ <<e, Space>> # <<>> /\ Len(<<e, Space>>) = 2
      BY <2>3
    <3>2. <<e>>[1] = e /\ <<e, Space>>[2] = Space
      OBVIOUS
    <3> QED  BY <2>3, <2>4, <3>1, <3>2, GapEnds
  <2> QED  BY <2>1, <2>2, <2>5, EmptyNotComposing
<1> QED  BY <1>1, <1>2, <1>3 DEF Pick

LEMMA TypedApart ==
  ASSUME TypeOK, TypeOK', Apart, OwedApart, Typed
  PROVE  Apart'
<1> SUFFICES ASSUME ~unseen', ~IsComposing(composer') => spaceState' # "PHANTOM"
             PROVE  ApartIn(composer', doc')
  BY DEF Apart, IsComposing, ApartIn, Gap
<1>1. /\ IsComposing(composer) => spaceState # "PHANTOM"
      /\ spaceState # "PHANTOM" => ApartIn(composer, doc)
      /\ model = "text"
  BY FoundApart
<1>2. /\ doc \in Seq(Char) /\ Spaced(doc) \in Seq(Char) /\ doc' \in Seq(Char)
      /\ (IF spaceState = "PHANTOM" THEN Spaced(doc) ELSE doc) \in Seq(Char)
      /\ ApartIn(composer, IF spaceState = "PHANTOM" THEN Spaced(doc) ELSE doc)
  BY SpacedText, BeforeApart DEF TypeOK
<1>3. ASSUME NEW c \in WordChars \cup Digits, Letter(c) PROVE ApartIn(composer', doc')
  <2>1. BeforeKey(c) = IF spaceState = "PHANTOM" THEN Spaced(doc) ELSE doc
    BY WordKeyNoSeparator DEF BeforeKey
  <2>2. NonSeparatorKey(c)
    BY <1>3 DEF Letter
  <2> QED  BY <1>2, <2>1, <2>2, LetterApart
<1>4. CASE Closing \/ Pick
  BY <1>1, <1>2, <1>4, ClosedApart, PickApart, NoWordApart
<1>5. CASE Shift
  <2>1. /\ doc' = IF spaceState = "PHANTOM" THEN Spaced(doc) ELSE doc
        /\ composer' = Ready(doc')
    BY <1>5 DEF Shift, ShiftKey
  <2> QED  BY <1>2, <2>1, ReadyApart
<1>6. CASE Delete
  BY <1>1, <1>6, DeleteApart DEF Delete
<1>7. CASE BatchDelete
  <2>1. doc' = DeleteLast(doc, Len(composer.typed)) /\ composer' = EmptyComposer
    BY <1>7 DEF BatchDelete, Rejected
  <2>2. IsComposing(composer)
    BY <1>7 DEF BatchDelete, RejectsBatch
  <2> QED  BY <1>1, <1>2, <2>1, <2>2, NoWordApart, EmptyNotComposing DEF ApartIn
<1>8. CASE RawKey
  BY <1>1, <1>8 DEF RawKey
<1> QED  BY <1>3, <1>4, <1>5, <1>6, <1>7, <1>8 DEF Typed
\* What a lookup is about to compose is a word.
WordFound == decoding.at = "set" => decoding.word # <<>>

LEMMA WordFoundStep ==
  ASSUME StrokeOK, WordFound, [GestureNext]_gestureVars
  PROVE  WordFound'
<1>1. CASE \/ Handlers \/ (Typed /\ BatchDelete) \/ StartGesture \/ EndGesture
           \/ Abandon \/ DropDecode \/ UNCHANGED gestureVars
  <2>1. decoding' = decoding
    BY <1>1 DEF Handlers, Typed, Host, Load, Background, StartGesture, EndGesture,
                Abandon, DropDecode, gestureVars, searchVars
  <2> QED  BY <2>1 DEF WordFound
<1>2. CASE StartDecode \/ StartUpdate
  BY <1>2 DEF StartDecode, StartUpdate, WordFound
<1>3. CASE Answer
  BY <1>3 DEF Answer, WordFound, NoSearch, StrokeOK, Search
<1>4. CASE SetWord \/ CommitWord
  BY <1>4 DEF SetWord, CommitWord, WordFound, NoSearch, StrokeOK, Search
<1> QED  BY <1>1, <1>2, <1>3, <1>4, StepKinds

LEMMA ApartStep ==
  ASSUME GestureTypeOK, TypeOK', Apart, OwedApart, WordFound, [GestureNext]_gestureVars
  PROVE  Apart'
<1>0. TypeOK /\ StrokeOK /\ doc \in Seq(Char) /\ doc' \in Seq(Char)
  BY GestureTypeParts DEF TypeOK
<1>1. CASE Typed
  BY <1>0, <1>1, TypedApart
<1> SUFFICES ASSUME ~unseen', IsComposing(composer') => ~stale',
                    ~IsComposing(composer') => spaceState' # "PHANTOM", ~Typed
             PROVE  ApartIn(composer', doc')
  BY <1>1 DEF Apart, IsComposing, ApartIn, Gap
<1>2. ASSUME /\ doc' = doc /\ composer'.typed = composer.typed
             /\ spaceState' = spaceState /\ stale' = stale /\ unseen' = unseen
      PROVE  ApartIn(composer', doc')
  BY <1>2 DEF Apart, ApartIn, IsComposing
<1>3. CASE Host
  BY <1>3 DEF Host
<1>4. CASE Load
  <2>1. CASE active
    BY <1>2, <1>4, <2>1 DEF Load, LoadKeyboard
  <2>2. CASE ~active
    <3>1. composer' = Resumed(EmptyComposer, doc) /\ doc' = doc
      BY <1>4, <2>2 DEF Load, LoadKeyboard, Restarted
    <3> QED  BY <1>0, <3>1, ResumedApart, EmptyNotComposing
  <2> QED  BY <2>1, <2>2
<1>5. CASE Background
  <2>1. /\ doc' = doc /\ composer'.typed = composer.typed
        /\ spaceState' = spaceState /\ stale' = stale
    BY <1>0, <1>5 DEF Background, IdleTimeout, StartLookup, FinishLookup, textVars, history,
                      TypeOK, WordComposer
  <2> QED  BY <1>2, <1>5, <2>1 DEF Background
<1>6. CASE StartGesture
  <2>1. ~IsComposing(composer') /\ unseen' = unseen
    BY <1>6, SetApartClears DEF StartGesture
  <2>2. CASE IsComposing(composer) \/ spaceState = "PHANTOM"
    <3>1. doc' = Spaced(doc)
      BY <1>6, <2>2 DEF StartGesture, SetApart
    <3> QED  BY <1>0, <2>1, <3>1, SpacedGap, NoWordApart
  <2>3. CASE ~IsComposing(composer) /\ spaceState # "PHANTOM"
    <3>1. doc' = doc /\ composer' = composer
      BY <1>6, <2>3 DEF StartGesture, SetApart
    <3> QED  BY <2>1, <2>3, <3>1 DEF Apart
  <2> QED  BY <2>2, <2>3
<1>7. CASE \/ EndGesture \/ Abandon \/ StartDecode \/ DropDecode \/ StartUpdate
           \/ Answer \/ UNCHANGED gestureVars
  <2>1. unseen' = unseen
    BY <1>7 DEF EndGesture, Abandon, StartDecode, DropDecode, StartUpdate, Answer,
                gestureVars
  <2> QED  BY <1>0, <1>2, <1>7, <2>1, StrokeSteps
<1>8. CASE SetWord
  BY <1>8 DEF SetWord, WordFound, IsComposing
<1>9. CASE CommitWord
  <2>1. doc' = doc \o decoding.word /\ composer'.typed = decoding.word /\ Gap(doc)
    BY <1>9 DEF CommitWord
  <2>2. decoding.word \in Seq(Char)
    BY <1>0 DEF StrokeOK, Search
  <2> QED  BY <1>0, <2>1, <2>2, DeleteConcat DEF ApartIn
<1> QED
  BY <1>3, <1>4, <1>5, <1>6, <1>7, <1>8, <1>9, StepKinds DEF Handlers

LEMMA WordsApart == GestureSpec => [](Apart /\ WordFound)
<1>1. GestureInit => Apart /\ WordFound
  <2> SUFFICES ASSUME GestureInit PROVE Apart /\ WordFound
    OBVIOUS
  <2>1. ~unseen => doc = <<>> /\ ~IsComposing(composer)
    BY EmptyNotComposing DEF GestureInit, Init
  <2>2. Gap(<<>>) /\ <<>> \in Seq(Char)
    BY EmptySeq DEF Gap
  <2> QED  BY <2>1, <2>2, NoWordApart DEF Apart, WordFound, GestureInit, NoSearch
<1>2. GestureTypeOK /\ GestureTypeOK' /\ NoSpaceOwedInWord /\ Apart /\ WordFound
        /\ [GestureNext]_gestureVars => Apart' /\ WordFound'
  BY ApartStep, WordFoundStep, GestureTypeParts
     DEF NoSpaceOwedInWord, OwedApart, GestureTypeOK
<1> QED
  BY <1>1, <1>2, GestureTypeCorrect, NoSpaceInDrawnWord, PTL DEF GestureSpec

\* Whatever keys, deletes, reverts, picks and strokes came, where nothing is
\* composed and no space is owed a stroke may follow at once.
THEOREM GapAlwaysKept == GestureSpec => []GapKept
<1>1. GestureTypeOK /\ Apart => GapKept
  BY NoWordApart DEF GestureTypeOK, TypeOK, Apart, GapKept
<1> QED  BY <1>1, WordsApart, GestureTypeCorrect, PTL

\* From the start of a stroke on, while nothing comes between, the text ends in
\* a gap: a stroke sets itself apart from a word, and else finds a gap.
FitGap == fit => Gap(doc)

\* The word of a stroke is not joined to the word before it, if nothing came
\* between its start and its commit.
THEOREM DrawnWordApart == GestureSpec => GestureWordApart
<1>1. GestureInit => FitGap
  BY DEF GestureInit, FitGap
<1>2. GestureTypeOK /\ GapKept /\ FitGap /\ [GestureNext]_gestureVars => FitGap'
  <2> SUFFICES ASSUME TypeOK, GapKept, FitGap, [GestureNext]_gestureVars, fit'
               PROVE  Gap(doc')
    BY DEF GestureTypeOK, FitGap, Gap
  <2>0. doc \in Seq(Char)
    BY DEF TypeOK
  <2>1. ASSUME fit, doc' = doc PROVE Gap(doc')
    BY <2>1 DEF FitGap
  <2>2. CASE Typed \/ Host
    BY <2>1, <2>2 DEF Typed, Host, Between
  <2>3. CASE Load
    BY <2>1, <2>3 DEF Load, LoadKeyboard
  <2>4. CASE Background
    BY <2>1, <2>4 DEF Background, IdleTimeout, StartLookup, FinishLookup, textVars
  <2>5. CASE StartGesture
    <3>1. \/ doc' = Spaced(doc)
          \/ doc' = doc /\ ~IsComposing(composer) /\ spaceState # "PHANTOM"
      BY <2>5 DEF StartGesture, SetApart
    <3>2. ~unseen
      BY <2>5 DEF StartGesture
    <3> QED  BY <2>0, <3>1, <3>2, SpacedGap DEF GapKept
  <2>6. CASE \/ EndGesture \/ Abandon \/ StartDecode \/ DropDecode \/ StartUpdate
             \/ Answer \/ UNCHANGED gestureVars
    <3>1. fit
      BY <2>6 DEF EndGesture, Abandon, StartDecode, DropDecode, StartUpdate, Answer,
                  gestureVars
    <3> QED  BY <2>1, <2>6, <3>1, StrokeSteps
  <2>7. CASE SetWord
    BY <2>1, <2>7 DEF SetWord
  <2>8. CASE CommitWord
    BY <2>8 DEF CommitWord
  <2> QED
    BY <2>2, <2>3, <2>4, <2>5, <2>6, <2>7, <2>8, StepKinds DEF Handlers
<1>3. GestureSpec => []FitGap
  BY <1>1, <1>2, GestureTypeCorrect, GapAlwaysKept, PTL DEF GestureSpec
<1> DEFINE Goal == decoding.at = "commit" /\ decoding'.at = "none" /\ fit => Gap(doc)
<1>4. FitGap => [Goal]_gestureVars
  BY DEF FitGap
<1> HIDE DEF Goal
<1>5. GestureSpec => [][Goal]_gestureVars
  BY <1>3, <1>4, PTL
<1> QED  BY <1>5 DEF GestureWordApart, Goal
=============================================================================
