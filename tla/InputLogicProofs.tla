-------------------------- MODULE InputLogicProofs --------------------------
(***************************************************************************)
(* What InputLogic keeps for every alphabet, suggester and bound.          *)
(***************************************************************************)
EXTENDS InputLogic, SequenceTheorems, WellFoundedInduction, TLAPS

(***************************************************************************)
(* Text.                                                                   *)
(***************************************************************************)

\* A nonempty set of natural numbers has a least element.
LEMMA LeastNat ==
  ASSUME NEW T, T \subseteq Nat, T # {}
  PROVE  \E x \in T : \A y \in T : x <= y
<1>1. IsWellFoundedOn(OpToRel(<, Nat), Nat)
  BY NatLessThanWellFounded
<1>2. PICK x \in T : \A y \in T : ~ (<<y, x>> \in OpToRel(<, Nat))
  BY <1>1, WFMin
<1>3. \A y \in T : ~ (y < x)
  BY <1>2, Zenon DEF OpToRel
<1> QED  BY <1>3

\* Deleting leaves a text, shorter by what was deleted.
LEMMA DeleteLastText ==
  ASSUME NEW t \in Seq(Char), NEW n \in Nat
  PROVE  /\ DeleteLast(t, n) \in Seq(Char)
         /\ Len(DeleteLast(t, n)) = IF n <= Len(t) THEN Len(t) - n ELSE 0
         /\ \A i \in 1..Len(DeleteLast(t, n)) : DeleteLast(t, n)[i] = t[i]
<1>1. Len(t) - n \in Int /\ \A i \in 1..(Len(t) - n) : t[i] \in Char
  BY LenProperties, ElementOfSeq
<1>2. /\ SubSeq(t, 1, Len(t) - n) \in Seq(Char)
      /\ Len(SubSeq(t, 1, Len(t) - n)) =
           IF 1 <= Len(t) - n THEN (Len(t) - n) - 1 + 1 ELSE 0
      /\ \A i \in 1..((Len(t) - n) - 1 + 1) :
           SubSeq(t, 1, Len(t) - n)[i] = t[1 + i - 1]
  BY <1>1, SubSeqProperties
<1>3. Len(SubSeq(t, 1, Len(t) - n)) = IF n <= Len(t) THEN Len(t) - n ELSE 0
  BY <1>2, LenProperties
<1>4. \A i \in 1..Len(SubSeq(t, 1, Len(t) - n)) : SubSeq(t, 1, Len(t) - n)[i] = t[i]
  BY <1>1, <1>2, <1>3, LenProperties
<1> QED  BY <1>2, <1>3, <1>4 DEF DeleteLast

LEMMA DeleteTwoText ==
  ASSUME NEW t \in Seq(Char), NEW u \in Seq(Char), NEW v \in Seq(Char)
  PROVE  DeleteLast(t, Len(u) + Len(v)) \in Seq(Char)
<1>1. Len(u) \in Nat /\ Len(v) \in Nat
  BY LenProperties
<1>2. Len(u) + Len(v) \in Nat
  BY <1>1
<1> QED  BY <1>2, DeleteLastText

\* The start of the word at the end of a text exists.
LEMMA WordStartExists ==
  ASSUME NEW t \in Seq(Char)
  PROVE  /\ WordStart(t) \in 0..Len(t)
         /\ \A j \in (WordStart(t) + 1)..Len(t) : t[j] \in WordChars
         /\ WordStart(t) > 0 => t[WordStart(t)] \notin WordChars
<1> DEFINE T == {i \in 0..Len(t) : \A j \in (i + 1)..Len(t) : t[j] \in WordChars}
<1>1. Len(t) \in Nat
  BY LenProperties
<1>2. T \subseteq Nat /\ Len(t) \in T
  BY <1>1
<1>3. PICK m \in T : \A i \in T : m <= i
  BY <1>2, LeastNat
<1>4. m \in 0..Len(t) /\ \A j \in (m + 1)..Len(t) : t[j] \in WordChars
  OBVIOUS
<1>5. ASSUME m > 0, t[m] \in WordChars PROVE FALSE
  <2>1. \A j \in ((m - 1) + 1)..Len(t) : t[j] \in WordChars
    BY <1>1, <1>4, <1>5
  <2>2. m - 1 \in 0..Len(t)
    BY <1>1, <1>4, <1>5
  <2>3. m - 1 \in T
    BY <2>1, <2>2
  <2> HIDE DEF T
  <2> QED  BY <1>1, <1>3, <1>4, <2>3
<1>6. \E i \in 0..Len(t) :
        /\ \A j \in (i + 1)..Len(t) : t[j] \in WordChars
        /\ i > 0 => t[i] \notin WordChars
  BY <1>1, <1>4, <1>5
<1> QED  BY <1>6 DEF WordStart

\* What is left of a text from some place on ends it.
LEMMA SuffixFrom ==
  ASSUME NEW t \in Seq(Char), NEW k \in 0..Len(t)
  PROVE  /\ SubSeq(t, k + 1, Len(t)) \in Seq(Char)
         /\ Len(SubSeq(t, k + 1, Len(t))) = Len(t) - k
         /\ IsSuffix(SubSeq(t, k + 1, Len(t)), t)
<1> DEFINE w == SubSeq(t, k + 1, Len(t))
<1>1. Len(t) \in Nat /\ k \in Nat /\ k <= Len(t)
  BY LenProperties
<1>2. \A i \in (k + 1)..Len(t) : t[i] \in Char
  BY <1>1, ElementOfSeq
<1>3. /\ w \in Seq(Char)
      /\ Len(w) = IF k + 1 <= Len(t) THEN Len(t) - (k + 1) + 1 ELSE 0
  BY <1>1, <1>2, SubSeqProperties
<1>4. w = SubSeq(t, k + 1, Len(t))
  OBVIOUS
<1> HIDE DEF w
<1>5. Len(w) = Len(t) - k
  BY <1>1, <1>3
<1>6. Len(w) <= Len(t) /\ Len(t) - Len(w) + 1 = k + 1
  BY <1>1, <1>5
<1>7. IsSuffix(w, t)
  BY <1>4, <1>6 DEF IsSuffix
<1> QED  BY <1>3, <1>4, <1>5, <1>7

\* The word at the end of a text ends it.
LEMMA TrailingWordText ==
  ASSUME NEW t \in Seq(Char)
  PROVE  /\ TrailingWord(t) \in Seq(Char)
         /\ IsSuffix(TrailingWord(t), t)
BY WordStartExists, SuffixFrom DEF TrailingWord

(***************************************************************************)
(* The operations on the composer and the text are well typed.             *)
(***************************************************************************)
LEMMA CharTypes ==
  /\ Letters \subseteq Char /\ Connectors \subseteq Char /\ Digits \subseteq Char
  /\ Separators \subseteq Char /\ OtherSymbols \subseteq Char /\ Emojis \subseteq Char
  /\ ClosingMarks \subseteq Char
  /\ Space \in Char /\ Newline \in Char /\ Period \in Char
BY CharAssumption DEF Char, WordChars

LEMMA SingletonText ==
  ASSUME NEW c \in Char PROVE <<c>> \in Seq(Char) /\ <<>> \in Seq(Char)
BY EmptySeq

LEMMA SpacedText ==
  ASSUME NEW t \in Seq(Char) PROVE Spaced(t) \in Seq(Char)
BY CharTypes, AppendProperties DEF Spaced

LEMMA EmptyComposerType ==
  EmptyComposer \in WordComposer /\ NoLastWord \in LastComposedWord
BY EmptySeq DEF EmptyComposer, NoLastWord, WordComposer, LastComposedWord

LEMMA ExtendedType ==
  ASSUME NEW comp \in WordComposer, NEW c \in Char
  PROVE  Extended(comp, c) \in WordComposer
<1>1. Append(comp.typed, c) \in Seq(Char) /\ <<>> \in Seq(Char)
  BY AppendProperties, EmptySeq DEF WordComposer
<1>2. (comp.digits \/ c \in Digits) \in BOOLEAN
  BY Zenon
<1> QED  BY <1>1, <1>2 DEF Extended, WordComposer

LEMMA ShortenedType ==
  ASSUME NEW comp \in WordComposer PROVE Shortened(comp) \in WordComposer
<1>1. DeleteLast(comp.typed, 1) \in Seq(Char) /\ <<>> \in Seq(Char)
  BY DeleteLastText, EmptySeq DEF WordComposer
<1> QED  BY <1>1 DEF Shortened, WordComposer

LEMMA ResumedType ==
  ASSUME NEW comp \in WordComposer, NEW t \in Seq(Char)
  PROVE  Resumed(comp, t) \in WordComposer
BY TrailingWordText, EmptyComposerType DEF Resumed, WordComposer, EmptyComposer

LEMMA ReadyType ==
  ASSUME TypeOK, NEW t \in Seq(Char)
  PROVE  Ready(t) \in WordComposer
<1>1. composer \in WordComposer
  BY DEF TypeOK
<1>2. Resumed(composer, t) \in WordComposer
  BY <1>1, ResumedType
<1> QED  BY <1>1, <1>2 DEF Ready, WordComposer

(***************************************************************************)
(* TypeOK is inductive.                                                    *)
(***************************************************************************)
TextOK ==
  /\ doc \in Seq(Char)
  /\ composer \in WordComposer
  /\ lastWord \in LastComposedWord
  /\ spaceState \in SpaceState
FlagsOK ==
  /\ spaceTap \in BOOLEAN /\ tapTimers \in Nat
  /\ active \in BOOLEAN /\ idleTimer \in BOOLEAN /\ firstInit \in BOOLEAN
  /\ field \in Kinds /\ model \in Kinds /\ reload \in BOOLEAN
  /\ lookup \in Lookup
  /\ stale \in BOOLEAN /\ moved \in BOOLEAN /\ drifted \in BOOLEAN

LEMMA TypeParts == TypeOK <=> TextOK /\ FlagsOK
BY DEF TypeOK, TextOK, FlagsOK

\* What the frames, the sessions and the tap timers leave is well typed.
LEMMA FrameType ==
  ASSUME FlagsOK, Frame
  PROVE  /\ field' \in Kinds /\ model' \in Kinds /\ lookup' \in Lookup
         /\ reload' \in BOOLEAN /\ moved' \in BOOLEAN
BY Zenon DEF FlagsOK, Frame, hostVars

LEMMA HandledType ==
  ASSUME FlagsOK, Handled
  PROVE  /\ field' \in Kinds /\ model' \in Kinds /\ lookup' \in Lookup
         /\ reload' \in BOOLEAN /\ moved' \in BOOLEAN
         /\ firstInit' \in BOOLEAN /\ stale' \in BOOLEAN /\ drifted' \in BOOLEAN
<1>1. Frame
  BY DEF Handled
<1>2. firstInit' \in BOOLEAN /\ stale' \in BOOLEAN /\ drifted' \in BOOLEAN
  BY Zenon DEF Handled
<1> QED  BY <1>1, <1>2, FrameType

LEMMA SessionType ==
  ASSUME Session PROVE active' \in BOOLEAN /\ idleTimer' \in BOOLEAN
BY DEF Session

LEMMA SameTapType ==
  ASSUME FlagsOK, UNCHANGED tapVars PROVE spaceTap' \in BOOLEAN /\ tapTimers' \in Nat
BY DEF FlagsOK, tapVars

LEMMA DetectType ==
  ASSUME FlagsOK, NEW doubled \in BOOLEAN, DetectDoubleSpaceTapped(doubled)
  PROVE  spaceTap' \in BOOLEAN /\ tapTimers' \in Nat
<1>1. spaceTap \in BOOLEAN /\ tapTimers \in Nat
  BY DEF FlagsOK
<1>2. CASE ~DoubleSpacePeriod
  BY <1>1, <1>2 DEF DetectDoubleSpaceTapped, tapVars
<1>3. CASE DoubleSpacePeriod
  <2>1. spaceTap' = ~spaceTap
    BY <1>3 DEF DetectDoubleSpaceTapped
  <2>2. tapTimers' = CASE ~spaceTap -> tapTimers + 1
                       [] doubled   -> tapTimers
                       [] OTHER     -> 0
    BY <1>3 DEF DetectDoubleSpaceTapped
  <2>3. tapTimers' \in Nat
    BY <1>1, <2>2
  <2> QED  BY <1>1, <2>1, <2>3
<1> QED  BY <1>2, <1>3

\* A key that is handled keeps the types when it leaves a well typed text.
LEMMA HandledKeyType ==
  ASSUME FlagsOK, Handled, TextOK', active' \in BOOLEAN, idleTimer' \in BOOLEAN,
         spaceTap' \in BOOLEAN, tapTimers' \in Nat
  PROVE  TypeOK'
BY HandledType DEF TypeOK, TextOK

LEMMA BeforeKeyType ==
  ASSUME TextOK, NEW c
  PROVE  BeforeKey(c) \in Seq(Char) /\ SpaceStateBeforeKey(c) \in SpaceState
BY SpacedText DEF TextOK, BeforeKey, SpaceStateBeforeKey, SpaceState

LEMMA NonSeparatorKeyType ==
  ASSUME TypeOK, NEW c \in WordChars \cup Digits, NonSeparatorKey(c)
  PROVE  TypeOK'
<1> DEFINE comp == Ready(BeforeKey(c))
<1>1. TextOK /\ FlagsOK /\ c \in Char
  BY TypeParts, CharTypes DEF WordChars
<1>2. BeforeKey(c) \in Seq(Char) /\ SpaceStateBeforeKey(c) \in SpaceState
  BY <1>1, BeforeKeyType
<1>3. comp \in WordComposer
  BY <1>2, ReadyType
<1>4. doc' \in Seq(Char)
  BY <1>1, <1>2, AppendProperties DEF NonSeparatorKey
<1>5. composer' \in {Extended(comp, c), Extended(EmptyComposer, c), EmptyComposer, comp}
  <2> HIDE DEF comp
  <2>1. composer' = CASE IsComposing(comp) -> Extended(comp, c)
                   [] ~IsComposing(comp) /\ c \in Letters -> Extended(EmptyComposer, c)
                   [] ~IsComposing(comp) /\ c \in Connectors -> EmptyComposer
                   [] OTHER -> comp
    BY DEF NonSeparatorKey, comp
  <2> QED  BY <2>1
<1>6. composer' \in WordComposer
  <2>1. Extended(comp, c) \in WordComposer
    BY <1>1, <1>3, ExtendedType
  <2>2. Extended(EmptyComposer, c) \in WordComposer
    BY <1>1, EmptyComposerType, ExtendedType
  <2> QED  BY <1>3, <1>5, <2>1, <2>2, EmptyComposerType
<1>7. lastWord' \in LastComposedWord /\ spaceState' \in SpaceState
  BY <1>2, EmptyComposerType DEF NonSeparatorKey, LastWordAfterKey
<1>8. TextOK'
  BY <1>4, <1>6, <1>7 DEF TextOK
<1>9. Handled /\ Session /\ UNCHANGED tapVars
  BY DEF NonSeparatorKey
<1> QED  BY <1>1, <1>8, <1>9, SessionType, SameTapType, HandledKeyType

LEMMA CommitCorrectionType ==
  ASSUME NEW comp \in WordComposer, NEW before \in Seq(Char), NEW sep \in Seq(Char),
         NEW trailing \in Seq(Char), CommitCorrection(comp, before, sep, trailing)
  PROVE  TextOK'
<1>1. comp.typed \in Seq(Char) /\ comp.correction \in Seq(Char)
  BY DEF WordComposer
<1>2. DeleteLast(before, Len(comp.typed)) \in Seq(Char)
  BY <1>1, DeleteLastText, LenProperties
<1>3. DeleteLast(before, Len(comp.typed)) \o comp.correction \in Seq(Char)
  BY <1>1, <1>2, ConcatProperties
<1>4. DeleteLast(before, Len(comp.typed)) \o comp.correction \o trailing \in Seq(Char)
  BY <1>3, ConcatProperties
<1>5. doc' \in Seq(Char)
  BY <1>4 DEF CommitCorrection
<1>6. composer' \in WordComposer
  BY EmptyComposerType DEF CommitCorrection
<1>7. lastWord' \in LastComposedWord
  BY <1>1 DEF CommitCorrection, LastComposedWord
<1>8. spaceState' \in SpaceState
  BY DEF CommitCorrection, SpaceState
<1> QED  BY <1>5, <1>6, <1>7, <1>8 DEF TextOK

LEMMA CommitTypedType ==
  ASSUME NEW comp \in WordComposer, NEW before \in Seq(Char), NEW c \in Char,
         NEW space \in SpaceState, CommitTyped(comp, before, c, space)
  PROVE  TextOK'
<1>1. doc' \in Seq(Char)
  BY AppendProperties DEF CommitTyped
<1>2. composer' \in WordComposer
  BY EmptyComposerType DEF CommitTyped
<1> QED  BY <1>1, <1>2, EmptyComposerType DEF TextOK, CommitTyped

LEMMA SeparatorKeyType ==
  ASSUME TypeOK, NEW c \in Separators \cup OtherSymbols, SeparatorKey(c)
  PROVE  TypeOK'
<1> DEFINE comp == Ready(BeforeKey(c))
           trailing == IF c \in ClosingMarks THEN <<c>> ELSE <<>>
<1>1. TextOK /\ FlagsOK /\ c \in Char
  BY TypeParts, CharTypes
<1>2. BeforeKey(c) \in Seq(Char) /\ SpaceStateBeforeKey(c) \in SpaceState
  BY <1>1, BeforeKeyType
<1>3. comp \in WordComposer
  BY <1>2, ReadyType
<1>4. <<c>> \in Seq(Char) /\ trailing \in Seq(Char)
  BY <1>1, SingletonText
<1>5. \/ CommitCorrection(comp, BeforeKey(c), <<c>>, trailing)
      \/ CommitTyped(comp, BeforeKey(c), c, SpaceStateBeforeKey(c))
  BY DEF SeparatorKey
<1>6. TextOK'
  <2> HIDE DEF comp, trailing
  <2>1. CASE CommitCorrection(comp, BeforeKey(c), <<c>>, trailing)
    BY <1>2, <1>3, <1>4, <2>1, CommitCorrectionType
  <2>2. CASE CommitTyped(comp, BeforeKey(c), c, SpaceStateBeforeKey(c))
    BY <1>1, <1>2, <1>3, <2>2, CommitTypedType
  <2> QED  BY <1>5, <2>1, <2>2
<1>7. Handled /\ Session /\ UNCHANGED tapVars
  BY DEF SeparatorKey
<1> QED  BY <1>1, <1>6, <1>7, SessionType, SameTapType, HandledKeyType

LEMMA SpaceKeyType ==
  ASSUME TypeOK, SpaceKey
  PROVE  TypeOK'
<1> DEFINE comp    == Ready(doc)
           doubled == DoubleSpacePeriod /\ spaceTap /\ PeriodAllowed(doc)
           before  == IF doubled THEN Append(DeleteLast(doc, 1), Period) ELSE doc
<1>1. TextOK /\ FlagsOK /\ doc \in Seq(Char)
  BY TypeParts DEF TextOK
<1>2. comp \in WordComposer
  BY <1>1, ReadyType
<1>3. before \in Seq(Char)
  <2>1. Append(DeleteLast(doc, 1), Period) \in Seq(Char)
    BY <1>1, CharTypes, DeleteLastText, AppendProperties
  <2> QED  BY <1>1, <2>1
<1>4. doubled \in BOOLEAN
  BY Zenon
<1>5. SpaceStateAfterSpace(doubled) \in SpaceState
  BY DEF SpaceStateAfterSpace, SpaceState
<1>6. \/ CommitCorrection(comp, before, <<>>, <<>>)
      \/ CommitTyped(comp, before, Space, SpaceStateAfterSpace(doubled))
  BY Zenon DEF SpaceKey
<1>7. DetectDoubleSpaceTapped(doubled)
  BY DEF SpaceKey
<1> HIDE DEF comp, doubled, before
<1>8. TextOK'
  <2>1. CASE CommitCorrection(comp, before, <<>>, <<>>)
    BY <1>2, <1>3, <2>1, CommitCorrectionType, EmptySeq
  <2>2. CASE CommitTyped(comp, before, Space, SpaceStateAfterSpace(doubled))
    BY <1>2, <1>3, <1>5, <2>2, CommitTypedType, CharTypes
  <2> QED  BY <1>6, <2>1, <2>2
<1>9. Handled /\ Session
  BY DEF SpaceKey
<1> QED  BY <1>1, <1>4, <1>7, <1>8, <1>9, SessionType, DetectType, HandledKeyType

LEMMA EnterKeyType ==
  ASSUME TypeOK, EnterKey
  PROVE  TypeOK'
<1>1. TextOK /\ FlagsOK
  BY TypeParts
<1>2. doc' \in Seq(Char)
  BY <1>1, CharTypes, AppendProperties DEF TextOK, EnterKey
<1>3. TextOK'
  BY <1>1, <1>2, EmptyComposerType DEF TextOK, EnterKey, LastWordAfterKey
<1>4. Handled /\ UNCHANGED tapVars /\ active' \in BOOLEAN /\ idleTimer' \in BOOLEAN
  BY DEF EnterKey
<1> QED  BY <1>1, <1>3, <1>4, SameTapType, HandledKeyType

LEMMA DeleteKeyType ==
  ASSUME TypeOK, DeleteKey
  PROVE  TypeOK'
<1> DEFINE comp == Ready(doc)
           kept == DeleteLast(doc, Len(lastWord.committed) + Len(lastWord.sep))
           reverted == kept \o lastWord.typed \o lastWord.sep
<1>1. TextOK /\ FlagsOK /\ doc \in Seq(Char)
  BY TypeParts DEF TextOK
<1>2. comp \in WordComposer
  BY <1>1, ReadyType
<1>3. lastWord.typed \in Seq(Char) /\ lastWord.committed \in Seq(Char)
        /\ lastWord.sep \in Seq(Char)
  BY <1>1 DEF TextOK, LastComposedWord
<1>4. reverted \in Seq(Char)
  <2>1. kept \in Seq(Char)
    BY <1>1, <1>3, DeleteTwoText
  <2> HIDE DEF kept
  <2>2. kept \o lastWord.typed \in Seq(Char)
    BY <1>3, <2>1, ConcatProperties
  <2> QED  BY <1>3, <2>2, ConcatProperties
<1>5. DeleteLast(doc, 1) \in Seq(Char)
  BY <1>1, DeleteLastText
<1>6. \/ doc' = DeleteLast(doc, 1) /\ composer' = Shortened(comp)
      \/ doc' = reverted /\ composer' = Resumed(comp, reverted)
      \/ doc' = DeleteLast(doc, 1) /\ composer' = Resumed(comp, DeleteLast(doc, 1))
  BY Zenon DEF DeleteKey
<1>7. doc' \in Seq(Char) /\ composer' \in WordComposer
  <2> HIDE DEF comp, kept, reverted
  <2>1. Shortened(comp) \in WordComposer
    BY <1>2, ShortenedType
  <2>2. Resumed(comp, reverted) \in WordComposer
    BY <1>2, <1>4, ResumedType
  <2>3. Resumed(comp, DeleteLast(doc, 1)) \in WordComposer
    BY <1>2, <1>5, ResumedType
  <2> QED  BY <1>4, <1>5, <1>6, <2>1, <2>2, <2>3
<1>8. TextOK'
  BY <1>7, EmptyComposerType DEF TextOK, DeleteKey, SpaceState
<1>9. Handled /\ Session /\ UNCHANGED tapVars
  BY DEF DeleteKey
<1> QED  BY <1>1, <1>8, <1>9, SessionType, SameTapType, HandledKeyType

LEMMA ShiftKeyType ==
  ASSUME TypeOK, ShiftKey
  PROVE  TypeOK'
<1> DEFINE before == IF spaceState = "PHANTOM" THEN Spaced(doc) ELSE doc
<1>1. TextOK /\ FlagsOK /\ doc \in Seq(Char)
  BY TypeParts DEF TextOK
<1>2. before \in Seq(Char)
  BY <1>1, SpacedText
<1>3. Ready(before) \in WordComposer
  BY <1>2, ReadyType
<1>4. TextOK'
  BY <1>1, <1>2, <1>3 DEF TextOK, ShiftKey, SpaceState
<1>5. Handled /\ Session /\ UNCHANGED tapVars
  BY DEF ShiftKey
<1> QED  BY <1>1, <1>4, <1>5, SessionType, SameTapType, HandledKeyType

LEMMA RawKeyType ==
  ASSUME TypeOK, RawKey
  PROVE  TypeOK'
<1>1. TextOK /\ FlagsOK /\ doc \in Seq(Char)
  BY TypeParts DEF TextOK
<1>2. doc' \in Seq(Char)
  <2>1. CASE \E c \in Char : doc' = Append(doc, c)
    BY <1>1, <2>1, AppendProperties
  <2>2. CASE doc' = DeleteLast(doc, 1)
    BY <1>1, <2>2, DeleteLastText
  <2> QED  BY <2>1, <2>2 DEF RawKey
<1>3. TextOK'
  BY <1>1, <1>2, EmptyComposerType DEF TextOK, RawKey, LastWordAfterKey
<1>4. Frame /\ Session /\ UNCHANGED tapVars
  BY DEF RawKey
<1>5. firstInit' \in BOOLEAN /\ stale' \in BOOLEAN /\ drifted' \in BOOLEAN
  BY <1>1 DEF RawKey, FlagsOK, IsComposing
<1> QED  BY <1>1, <1>3, <1>4, <1>5, FrameType, SessionType, SameTapType
         DEF TypeOK, TextOK

\* What a pick leaves is well typed when its text is.
LEMMA PickedType ==
  ASSUME FlagsOK, Picked, TextOK', active' \in BOOLEAN, idleTimer' \in BOOLEAN
  PROVE  TypeOK'
<1>1. Frame /\ UNCHANGED tapVars
  BY DEF Picked
<1>2. firstInit' \in BOOLEAN
  BY DEF Picked, FlagsOK
<1>3. stale' \in BOOLEAN /\ drifted' \in BOOLEAN
  BY Zenon DEF Picked
<1> QED  BY <1>1, <1>2, <1>3, FrameType, SameTapType DEF TypeOK, TextOK

LEMMA BeforePickType ==
  ASSUME TextOK PROVE BeforePick \in Seq(Char)
<1>1. doc \in Seq(Char) /\ composer.typed \in Seq(Char)
  BY DEF TextOK, WordComposer
<1>2. Len(composer.typed) \in Nat
  BY <1>1, LenProperties
<1>3. (IF spaceState = "PHANTOM" THEN Spaced(doc) ELSE doc) \in Seq(Char)
  BY <1>1, SpacedText
<1> QED  BY <1>2, <1>3, DeleteLastText DEF BeforePick

LEMMA PickSuggestionType ==
  ASSUME TypeOK, NEW w \in SuggestedWords, PickSuggestion(w)
  PROVE  TypeOK'
<1>1. TextOK /\ FlagsOK /\ w \in Seq(Char)
  BY TypeParts, TextAssumption
<1>2. doc' \in Seq(Char)
  BY <1>1, BeforePickType, ConcatProperties DEF PickSuggestion
<1>3. TextOK'
  BY <1>1, <1>2, EmptyComposerType DEF TextOK, PickSuggestion, SpaceState
<1> QED  BY <1>1, <1>3, PickedType, SessionType DEF PickSuggestion

LEMMA PickEmojiType ==
  ASSUME TypeOK, NEW e \in Emojis, PickEmoji(e)
  PROVE  TypeOK'
<1> DEFINE before == IF spaceState = "PHANTOM" THEN Spaced(doc) ELSE doc
           commit == IF LooksLikeURL(before) THEN <<e>> ELSE <<e, Space>>
<1>1. TextOK /\ FlagsOK /\ e \in Char
  BY TypeParts, CharTypes
<1>2. commit \in Seq(Char)
  BY <1>1, CharTypes
<1>3. doc' \in Seq(Char)
  BY <1>1, <1>2, BeforePickType, ConcatProperties DEF PickEmoji
<1>4. \/ /\ composer' = EmptyComposer
         /\ lastWord' = [active |-> TRUE, typed |-> composer.typed,
                         committed |-> commit, sep |-> <<>>]
      \/ lastWord' = NoLastWord /\ composer' = composer
  BY DEF PickEmoji
<1>5. spaceState' \in SpaceState
  BY <1>1 DEF PickEmoji, SpaceStateAfterEmoji, SpaceState, TextOK
<1> HIDE DEF commit
<1>6. composer' \in WordComposer /\ lastWord' \in LastComposedWord
  <2>1. composer \in WordComposer /\ composer.typed \in Seq(Char)
    BY <1>1 DEF TextOK, WordComposer
  <2>2. [active |-> TRUE, typed |-> composer.typed, committed |-> commit, sep |-> <<>>]
          \in LastComposedWord
    BY <1>2, <2>1, EmptySeq DEF LastComposedWord
  <2> QED  BY <1>4, <2>1, <2>2, EmptyComposerType
<1>7. TextOK'
  BY <1>3, <1>5, <1>6 DEF TextOK
<1> QED  BY <1>1, <1>7, PickedType, SessionType DEF PickEmoji

LEMMA PickInUrlFieldType ==
  ASSUME TypeOK, NEW w \in SuggestedWords, PickInUrlField(w)
  PROVE  TypeOK'
<1>1. TextOK /\ FlagsOK /\ w \in Seq(Char)
  BY TypeParts, TextAssumption
<1>2. TextOK'
  BY <1>1, ConcatProperties, EmptyComposerType DEF TextOK, PickInUrlField
<1> QED  BY <1>1, <1>2, PickedType DEF PickInUrlField

LEMMA HostEditType ==
  ASSUME TypeOK, NEW text \in HostTexts, NEW kind \in Kinds, HostEdit(text, kind)
  PROVE  TypeOK'
BY TextAssumption DEF TypeOK, HostEdit, IsComposing, tapVars, sessionVars

LEMMA LoadKeyboardType ==
  ASSUME TypeOK, LoadKeyboard
  PROVE  TypeOK'
<1>1. doc \in Seq(Char) /\ composer \in WordComposer
  BY DEF TypeOK
<1>2. Restarted(doc) \in WordComposer
  BY <1>1, ResumedType, EmptyComposerType DEF Restarted
<1>3. composer' \in {composer, EmptyComposer, Restarted(doc)}
      /\ spaceState' \in {spaceState, "NONE"} /\ stale' \in {stale, FALSE}
  BY DEF LoadKeyboard
<1> QED  BY <1>1, <1>2, <1>3, EmptyComposerType
         DEF TypeOK, LoadKeyboard, tapVars, sessionVars, SpaceState

LEMMA TimerType ==
  ASSUME TypeOK, IdleTimeout \/ DoubleSpaceTimeout
  PROVE  TypeOK'
<1>1. CASE IdleTimeout
  BY <1>1 DEF TypeOK, IdleTimeout, textVars, tapVars, hostVars, history
<1>2. CASE DoubleSpaceTimeout
  <2>1. tapTimers' \in Nat
    BY <1>2 DEF TypeOK, DoubleSpaceTimeout
  <2> QED  BY <1>2, <2>1
           DEF TypeOK, DoubleSpaceTimeout, textVars, sessionVars, hostVars, history
<1> QED  BY <1>1, <1>2

LEMMA LookupType ==
  ASSUME TypeOK, StartLookup \/ FinishLookup
  PROVE  TypeOK'
<1>1. composer \in WordComposer /\ lookup \in Lookup
  BY DEF TypeOK
<1>2. CASE StartLookup
  <2>1. (~composer.resumed /\ ~composer.digits) \in BOOLEAN
    BY Zenon
  <2>2. lookup' \in Lookup
    BY <1>1, <1>2, <2>1 DEF StartLookup, Lookup, WordComposer
  <2> QED  BY <1>2, <2>2
           DEF TypeOK, StartLookup, textVars, tapVars, sessionVars, hostVars, history
<1>3. CASE FinishLookup
  <2>1. lookup' \in Lookup
    BY <1>3, EmptySeq DEF FinishLookup, Lookup, Idle
  <2>2. composer' \in WordComposer
    <3>1. \/ composer' = composer
          \/ \E found \in Seq(Char) : composer' = [composer EXCEPT !.correction = found]
      BY <1>3, EmptySeq, TextAssumption DEF FinishLookup
    <3> QED  BY <1>1, <3>1 DEF WordComposer
  <2> QED  BY <1>3, <2>1, <2>2
           DEF TypeOK, FinishLookup, tapVars, sessionVars, hostVars, history
<1> QED  BY <1>2, <1>3

\* The types hold to begin with.
LEMMA TypeInit ==
  ASSUME Init
  PROVE  TypeOK
<1>1. Idle \in Lookup
  BY EmptySeq DEF Idle, Lookup
<1>2. TextOK
  BY TextAssumption, EmptyComposerType DEF Init, TextOK, SpaceState
<1>3. FlagsOK
  <2>1. lookup \in Lookup /\ field \in Kinds /\ model \in Kinds
    BY <1>1 DEF Init
  <2>2. spaceTap \in BOOLEAN /\ tapTimers \in Nat /\ active \in BOOLEAN
          /\ idleTimer \in BOOLEAN /\ firstInit \in BOOLEAN
    BY DEF Init
  <2>3. reload \in BOOLEAN /\ stale \in BOOLEAN /\ moved \in BOOLEAN
          /\ drifted \in BOOLEAN
    BY DEF Init
  <2> QED  BY <2>1, <2>2, <2>3 DEF FlagsOK
<1> QED  BY <1>2, <1>3, TypeParts

\* No step takes a variable out of its range.
LEMMA TypeStep ==
  ASSUME TypeOK, [Next]_vars
  PROVE  TypeOK'
<1>1. ASSUME NEW c \in WordChars \cup Digits, NonSeparatorKey(c) PROVE TypeOK'
  BY <1>1, NonSeparatorKeyType
<1>2. ASSUME NEW c \in Separators \cup OtherSymbols, SeparatorKey(c) PROVE TypeOK'
  BY <1>2, SeparatorKeyType
<1>3. CASE SpaceKey \/ EnterKey \/ DeleteKey \/ ShiftKey \/ RawKey
  BY <1>3, SpaceKeyType, EnterKeyType, DeleteKeyType, ShiftKeyType, RawKeyType
<1>4. ASSUME NEW w \in SuggestedWords, PickSuggestion(w) \/ PickInUrlField(w)
      PROVE  TypeOK'
  BY <1>4, PickSuggestionType, PickInUrlFieldType
<1>5. ASSUME NEW e \in Emojis, PickEmoji(e) PROVE TypeOK'
  BY <1>5, PickEmojiType
<1>6. ASSUME NEW text \in HostTexts, NEW kind \in Kinds, HostEdit(text, kind)
      PROVE  TypeOK'
  BY <1>6, HostEditType
<1>7. CASE LoadKeyboard \/ IdleTimeout \/ DoubleSpaceTimeout
  BY <1>7, LoadKeyboardType, TimerType
<1>8. CASE StartLookup \/ FinishLookup
  BY <1>8, LookupType
<1>9. CASE UNCHANGED vars
  BY <1>9 DEF vars, textVars, tapVars, sessionVars, hostVars, history, TypeOK
<1> QED  BY <1>1, <1>2, <1>3, <1>4, <1>5, <1>6, <1>7, <1>8, <1>9 DEF Next

\* Every variable stays in its range, for every alphabet and bound.
THEOREM TypeCorrect == Spec => []TypeOK
<1>1. Init => TypeOK
  BY TypeInit
<1>2. TypeOK /\ [Next]_vars => TypeOK'
  BY TypeStep
<1> QED  BY <1>1, <1>2, PTL DEF Spec

(***************************************************************************)
(* The double-tap window of the space key.                                 *)
(***************************************************************************)

\* No second tap, whatever it finds before the cursor, leaves a window open
\* with no doubleTapSpaceKey pending that would close it.
THEOREM TapWindowAlwaysCloses == Spec => []TapWindowCloses
<1>1. Init => TapWindowCloses
  BY DEF Init, TapWindowCloses
<1>2. TypeOK /\ TapWindowCloses /\ [Next]_vars => TapWindowCloses'
  <2> SUFFICES ASSUME TypeOK, TapWindowCloses, [Next]_vars PROVE TapWindowCloses'
    OBVIOUS
  <2> spaceTap \in BOOLEAN /\ tapTimers \in Nat
    BY DEF TypeOK
  <2>1. UNCHANGED tapVars => TapWindowCloses'
    BY DEF tapVars, TapWindowCloses
  <2>2. CASE SpaceKey
    <3> DEFINE doubled == DoubleSpacePeriod /\ spaceTap /\ PeriodAllowed(doc)
    <3>1. DetectDoubleSpaceTapped(doubled)
      BY <2>2 DEF SpaceKey
    <3> HIDE DEF doubled
    <3>2. CASE ~DoubleSpacePeriod
      BY <2>1, <3>1, <3>2 DEF DetectDoubleSpaceTapped
    <3>3. CASE DoubleSpacePeriod /\ spaceTap
      BY <3>1, <3>3 DEF DetectDoubleSpaceTapped, TapWindowCloses
    <3>4. CASE DoubleSpacePeriod /\ ~spaceTap
      <4>1. tapTimers' = CASE ~spaceTap -> tapTimers + 1
                           [] doubled   -> tapTimers
                           [] OTHER     -> 0
        BY <3>1, <3>4 DEF DetectDoubleSpaceTapped
      <4>2. ~doubled
        BY <3>4 DEF doubled
      <4>3. tapTimers' = tapTimers + 1
        BY <3>4, <4>1, <4>2
      <4> QED  BY <4>3 DEF TapWindowCloses
    <3> QED  BY <3>2, <3>3, <3>4
  <2>3. CASE DoubleSpaceTimeout
    BY <2>3 DEF DoubleSpaceTimeout, TapWindowCloses
  <2>4. ASSUME NEW c, NonSeparatorKey(c) \/ SeparatorKey(c) PROVE UNCHANGED tapVars
    BY <2>4 DEF NonSeparatorKey, SeparatorKey
  <2>5. CASE EnterKey \/ DeleteKey \/ ShiftKey \/ RawKey
    BY <2>1, <2>5 DEF EnterKey, DeleteKey, ShiftKey, RawKey
  <2>6. ASSUME NEW w, PickSuggestion(w) \/ PickInUrlField(w) \/ PickEmoji(w)
        PROVE  UNCHANGED tapVars
    BY <2>6 DEF PickSuggestion, PickInUrlField, PickEmoji, Picked, tapVars
  <2>7. ASSUME NEW text, NEW kind, HostEdit(text, kind) PROVE UNCHANGED tapVars
    BY <2>7 DEF HostEdit, tapVars
  <2>8. CASE LoadKeyboard \/ IdleTimeout \/ StartLookup \/ FinishLookup
    BY <2>1, <2>8 DEF LoadKeyboard, IdleTimeout, StartLookup, FinishLookup
  <2>9. CASE UNCHANGED vars
    BY <2>1, <2>9 DEF vars
  <2> QED
    BY <2>1, <2>2, <2>3, <2>4, <2>5, <2>6, <2>7, <2>8, <2>9 DEF Next
<1> QED  BY <1>1, <1>2, TypeCorrect, PTL DEF Spec

(***************************************************************************)
(* Suffixes of a text.                                                     *)
(***************************************************************************)
LEMMA SuffixPointwise ==
  ASSUME NEW w \in Seq(Char), NEW t \in Seq(Char)
  PROVE  IsSuffix(w, t) <=>
           /\ Len(w) <= Len(t)
           /\ \A i \in 1..Len(w) : w[i] = t[Len(t) - Len(w) + i]
<1>1. CASE ~(Len(w) <= Len(t))
  BY <1>1 DEF IsSuffix
<1>2. CASE Len(w) <= Len(t)
  <2> DEFINE k == Len(t) - Len(w)
             u == SubSeq(t, k + 1, Len(t))
  <2>1. Len(t) \in Nat /\ Len(w) \in Nat
    BY LenProperties
  <2>2. k \in 0..Len(t)
    BY <1>2, <2>1
  <2>3. \A i \in (k + 1)..Len(t) : t[i] \in Char
    BY <2>1, <2>2, ElementOfSeq
  <2>4. /\ u \in Seq(Char)
        /\ \A i \in 1..(Len(t) - (k + 1) + 1) : u[i] = t[(k + 1) + i - 1]
    BY <2>1, <2>2, <2>3, SubSeqProperties
  <2>5. Len(u) = Len(t) - k
    BY <2>2, SuffixFrom
  <2> HIDE DEF u
  <2>6. Len(u) = Len(w)
    BY <2>1, <2>5
  <2>7. \A i \in 1..Len(w) : u[i] = t[k + i]
    BY <2>1, <2>2, <2>4
  <2>8. w = u <=> \A i \in 1..Len(w) : w[i] = u[i]
    BY <2>4, <2>6, SeqEqual
  <2>9. IsSuffix(w, t) <=> w = u
    BY <1>2 DEF IsSuffix, u
  <2> QED  BY <1>2, <2>7, <2>8, <2>9
<1> QED  BY <1>1, <1>2

LEMMA EmptySuffix ==
  ASSUME NEW t \in Seq(Char) PROVE IsSuffix(<<>>, t)
<1>1. Len(t) \in Nat /\ SubSeq(t, Len(t) + 1, Len(t)) = <<>>
  BY LenProperties, SubSeqEmpty
<1>2. Len(t) \in 0..Len(t)
  BY <1>1
<1>3. IsSuffix(SubSeq(t, Len(t) + 1, Len(t)), t)
  BY <1>2, SuffixFrom
<1> QED  BY <1>1, <1>3

LEMMA SuffixAppend ==
  ASSUME NEW w \in Seq(Char), NEW t \in Seq(Char), NEW c \in Char, IsSuffix(w, t)
  PROVE  IsSuffix(Append(w, c), Append(t, c))
<1> DEFINE w1 == Append(w, c)
           t1 == Append(t, c)
<1>1. Len(w) \in Nat /\ Len(t) \in Nat
  BY LenProperties
<1>2. /\ w1 \in Seq(Char) /\ Len(w1) = Len(w) + 1 /\ w1[Len(w) + 1] = c
      /\ \A i \in 1..Len(w) : w1[i] = w[i]
      /\ t1 \in Seq(Char) /\ Len(t1) = Len(t) + 1 /\ t1[Len(t) + 1] = c
      /\ \A i \in 1..Len(t) : t1[i] = t[i]
  BY AppendProperties
<1>3. Len(w) <= Len(t) /\ \A i \in 1..Len(w) : w[i] = t[Len(t) - Len(w) + i]
  BY SuffixPointwise
<1> HIDE DEF w1, t1
<1>4. ASSUME NEW i \in 1..Len(w1) PROVE w1[i] = t1[Len(t1) - Len(w1) + i]
  <2>1. Len(t1) - Len(w1) + i = Len(t) - Len(w) + i
    BY <1>1, <1>2
  <2>2. CASE i <= Len(w)
    <3>1. i \in 1..Len(w) /\ Len(t) - Len(w) + i \in 1..Len(t)
      BY <1>1, <1>2, <1>3, <2>2
    <3> QED  BY <1>2, <1>3, <2>1, <3>1
  <2>3. CASE i = Len(w) + 1
    <3>1. Len(t) - Len(w) + i = Len(t) + 1
      BY <1>1, <2>3
    <3> QED  BY <1>2, <2>1, <2>3, <3>1
  <2> QED  BY <1>1, <1>2, <2>2, <2>3
<1>5. Len(w1) <= Len(t1)
  BY <1>1, <1>2, <1>3
<1>6. IsSuffix(w1, t1)
  BY <1>2, <1>4, <1>5, SuffixPointwise
<1> QED  BY <1>6 DEF w1, t1

LEMMA SuffixDelete ==
  ASSUME NEW w \in Seq(Char), NEW t \in Seq(Char), w # <<>>, IsSuffix(w, t)
  PROVE  IsSuffix(DeleteLast(w, 1), DeleteLast(t, 1))
<1> DEFINE w1 == DeleteLast(w, 1)
           t1 == DeleteLast(t, 1)
<1>1. Len(w) \in Nat \ {0} /\ Len(t) \in Nat
  BY LenProperties, EmptySeq
<1>2. /\ w1 \in Seq(Char) /\ Len(w1) = IF 1 <= Len(w) THEN Len(w) - 1 ELSE 0
      /\ \A i \in 1..Len(w1) : w1[i] = w[i]
      /\ t1 \in Seq(Char) /\ Len(t1) = IF 1 <= Len(t) THEN Len(t) - 1 ELSE 0
      /\ \A i \in 1..Len(t1) : t1[i] = t[i]
  BY DeleteLastText
<1>3. Len(w) <= Len(t) /\ \A i \in 1..Len(w) : w[i] = t[Len(t) - Len(w) + i]
  BY SuffixPointwise
<1> HIDE DEF w1, t1
<1>4. Len(w1) = Len(w) - 1 /\ Len(t1) = Len(t) - 1
  BY <1>1, <1>2, <1>3
<1>5. ASSUME NEW i \in 1..Len(w1) PROVE w1[i] = t1[Len(t1) - Len(w1) + i]
  <2>1. Len(t1) - Len(w1) + i = Len(t) - Len(w) + i
    BY <1>1, <1>4
  <2>2. i \in 1..Len(w) /\ Len(t) - Len(w) + i \in 1..Len(t1)
    BY <1>1, <1>3, <1>4
  <2> QED  BY <1>2, <1>3, <2>1, <2>2
<1>6. Len(w1) <= Len(t1)
  BY <1>1, <1>3, <1>4
<1>7. IsSuffix(w1, t1)
  BY <1>2, <1>5, <1>6, SuffixPointwise
<1> QED  BY <1>7 DEF w1, t1

\* What is added to a text ends it.
LEMMA SuffixConcat ==
  ASSUME NEW t \in Seq(Char), NEW w \in Seq(Char)
  PROVE  IsSuffix(w, t \o w)
<1> DEFINE u == t \o w
<1>1. Len(t) \in Nat /\ Len(w) \in Nat
  BY LenProperties
<1>2. /\ u \in Seq(Char) /\ Len(u) = Len(t) + Len(w)
      /\ \A i \in 1..Len(w) : u[Len(t) + i] = w[i]
  BY <1>1, ConcatProperties
<1> HIDE DEF u
<1>3. Len(u) - Len(w) = Len(t) /\ Len(w) <= Len(u)
  BY <1>1, <1>2
<1>4. \A i \in 1..Len(w) : w[i] = u[Len(u) - Len(w) + i]
  BY <1>2, <1>3
<1>5. IsSuffix(w, u)
  BY <1>2, <1>3, <1>4, SuffixPointwise
<1> QED  BY <1>5 DEF u

(***************************************************************************)
(* Phantom spaces and the word being composed.                             *)
(***************************************************************************)
LEMMA EmptyNotComposing == ~IsComposing(EmptyComposer)
BY DEF IsComposing, EmptyComposer

LEMMA WordKeyNoSeparator ==
  ASSUME NEW c \in WordChars \cup Digits PROVE c \notin Separators
BY CharAssumption

LEMMA CommitsEndWord ==
  ASSUME NEW comp, NEW before, NEW c, NEW d, NEW e,
         CommitCorrection(comp, before, c, d) \/ CommitTyped(comp, before, c, e)
  PROVE  ~IsComposing(composer')
<1>1. composer' = EmptyComposer \/ (~IsComposing(comp) /\ composer' = comp)
  BY DEF CommitCorrection, CommitTyped
<1> QED  BY <1>1, EmptyNotComposing

\* No key, pick or reload leaves a word being composed while a phantom space is
\* owed: the space could then be inserted into the word.
THEOREM PhantomBetweenWords == Spec => []PhantomOnlyBetweenWords
<1>1. Init => PhantomOnlyBetweenWords
  BY EmptyNotComposing DEF Init, PhantomOnlyBetweenWords
<1>2. TypeOK /\ PhantomOnlyBetweenWords /\ [Next]_vars => PhantomOnlyBetweenWords'
  <2> SUFFICES ASSUME TypeOK, PhantomOnlyBetweenWords, [Next]_vars
               PROVE  IsComposing(composer') => spaceState' # "PHANTOM"
    BY DEF PhantomOnlyBetweenWords, IsComposing
  <2>0. IsComposing(composer) => spaceState # "PHANTOM"
    BY DEF PhantomOnlyBetweenWords
  <2> DEFINE Goal == IsComposing(composer') => spaceState' # "PHANTOM"
  <2>1. ASSUME NEW c \in WordChars \cup Digits, NonSeparatorKey(c) PROVE Goal
    BY <2>1, WordKeyNoSeparator DEF NonSeparatorKey, SpaceStateBeforeKey
  <2>2. ASSUME NEW c, SeparatorKey(c) PROVE Goal
    BY <2>2, CommitsEndWord DEF SeparatorKey
  <2>3. CASE SpaceKey
    BY <2>3, CommitsEndWord DEF SpaceKey
  <2>4. CASE EnterKey
    BY <2>4, EmptyNotComposing DEF EnterKey
  <2>5. CASE DeleteKey \/ ShiftKey
    BY <2>5 DEF DeleteKey, ShiftKey
  <2>6. CASE RawKey
    BY <2>0, <2>6 DEF RawKey
  <2>7. ASSUME NEW w, PickSuggestion(w) \/ PickInUrlField(w) PROVE Goal
    BY <2>7, EmptyNotComposing DEF PickSuggestion, PickInUrlField
  <2>8. ASSUME NEW e, PickEmoji(e) PROVE Goal
    <3>1. composer' = EmptyComposer \/ (~IsComposing(composer) /\ composer' = composer)
      BY <2>8 DEF PickEmoji
    <3> QED  BY <3>1, EmptyNotComposing
  <2>9. ASSUME NEW text, NEW kind, HostEdit(text, kind) PROVE Goal
    BY <2>0, <2>9 DEF HostEdit
  <2>10. CASE LoadKeyboard
    BY <2>0, <2>10, EmptyNotComposing DEF LoadKeyboard
  <2>11. CASE IdleTimeout \/ DoubleSpaceTimeout \/ StartLookup
    BY <2>0, <2>11 DEF IdleTimeout, DoubleSpaceTimeout, StartLookup, textVars
  <2>12. CASE FinishLookup
    <3>1. composer'.typed = composer.typed /\ spaceState' = spaceState
      BY <2>12 DEF FinishLookup, TypeOK, WordComposer
    <3> QED  BY <2>0, <3>1 DEF IsComposing
  <2>13. CASE UNCHANGED vars
    BY <2>0, <2>13 DEF vars, textVars
  <2> QED
    BY <2>1, <2>2, <2>3, <2>4, <2>5, <2>6, <2>7, <2>8, <2>9, <2>10, <2>11, <2>12, <2>13
       DEF Next
<1> QED  BY <1>1, <1>2, TypeCorrect, PTL DEF Spec

\* What of this survives a word that is written behind the text: a space is
\* owed inside a word only where the text changed behind it.
OwedApart == IsComposing(composer) /\ ~stale => spaceState # "PHANTOM"

LEMMA OwedStep ==
  ASSUME TypeOK, OwedApart, [Next]_vars
  PROVE  OwedApart'
<1> SUFFICES ASSUME IsComposing(composer'), ~stale' PROVE spaceState' # "PHANTOM"
  BY DEF OwedApart, IsComposing
<1> DEFINE Goal == spaceState' # "PHANTOM"
<1>0. IsComposing(composer) /\ ~stale => spaceState # "PHANTOM"
  BY DEF OwedApart
<1>1. ASSUME NEW c \in WordChars \cup Digits, NonSeparatorKey(c) PROVE Goal
  BY <1>1, WordKeyNoSeparator DEF NonSeparatorKey, SpaceStateBeforeKey
<1>2. ASSUME NEW c, SeparatorKey(c) PROVE Goal
  BY <1>2, CommitsEndWord DEF SeparatorKey
<1>3. CASE SpaceKey
  BY <1>3, CommitsEndWord DEF SpaceKey
<1>4. CASE EnterKey
  BY <1>4, EmptyNotComposing DEF EnterKey
<1>5. CASE DeleteKey \/ ShiftKey
  BY <1>5 DEF DeleteKey, ShiftKey
<1>6. CASE RawKey
  BY <1>6 DEF RawKey
<1>7. ASSUME NEW w, PickSuggestion(w) \/ PickInUrlField(w) PROVE Goal
  BY <1>7, EmptyNotComposing DEF PickSuggestion, PickInUrlField
<1>8. ASSUME NEW e, PickEmoji(e) PROVE Goal
  <2>1. composer' = EmptyComposer \/ (~IsComposing(composer) /\ composer' = composer)
    BY <1>8 DEF PickEmoji
  <2> QED  BY <2>1, EmptyNotComposing
<1>9. ASSUME NEW text, NEW kind, HostEdit(text, kind) PROVE Goal
  BY <1>9 DEF HostEdit
<1>10. CASE LoadKeyboard
  BY <1>0, <1>10, EmptyNotComposing DEF LoadKeyboard
<1>11. CASE IdleTimeout \/ DoubleSpaceTimeout \/ StartLookup
  BY <1>0, <1>11 DEF IdleTimeout, DoubleSpaceTimeout, StartLookup, textVars, history
<1>12. CASE FinishLookup
  <2>1. composer'.typed = composer.typed /\ spaceState' = spaceState /\ stale' = stale
    BY <1>12 DEF FinishLookup, TypeOK, WordComposer, history
  <2> QED  BY <1>0, <2>1 DEF IsComposing
<1>13. CASE UNCHANGED vars
  BY <1>0, <1>13 DEF vars, textVars, history
<1> QED
  BY <1>1, <1>2, <1>3, <1>4, <1>5, <1>6, <1>7, <1>8, <1>9, <1>10, <1>11, <1>12, <1>13
     DEF Next

(***************************************************************************)
(* The word being composed and the text.                                   *)
(***************************************************************************)

\* The word a composer holds ends the text.
Matches(comp, text) == IsComposing(comp) => IsSuffix(comp.typed, text)

LEMMA NotComposingMatches ==
  ASSUME NEW comp, NEW text, ~IsComposing(comp) PROVE Matches(comp, text)
BY DEF Matches

\* Taking up the word at the end of a text.
LEMMA ResumedMatches ==
  ASSUME NEW comp, NEW t \in Seq(Char), Matches(comp, t)
  PROVE  Matches(Resumed(comp, t), t)
<1>1. CASE TrailingWord(t) = <<>>
  BY <1>1 DEF Resumed
<1>2. CASE TrailingWord(t) # <<>>
  <2>1. Resumed(comp, t).typed = TrailingWord(t)
    BY <1>2 DEF Resumed, EmptyComposer
  <2> QED  BY <2>1, TrailingWordText DEF Matches
<1> QED  BY <1>1, <1>2

\* A first key takes the word up, every other finds the composer as it is.
LEMMA ReadyMatches ==
  ASSUME TypeOK, NEW t \in Seq(Char), Matches(composer, t)
  PROVE  Matches(Ready(t), t)
<1>1. CASE ~firstInit
  BY <1>1 DEF Ready
<1>2. CASE firstInit
  <2>1. Resumed(composer, t) \in WordComposer
    BY ResumedType DEF TypeOK
  <2>2. Ready(t).typed = Resumed(composer, t).typed
    BY <1>2, <2>1 DEF Ready, WordComposer
  <2>3. Matches(Resumed(composer, t), t)
    BY ResumedMatches
  <2> QED  BY <2>2, <2>3 DEF Matches, IsComposing
<1> QED  BY <1>1, <1>2 DEF TypeOK

LEMMA ExtendedMatches ==
  ASSUME NEW comp \in WordComposer, NEW t \in Seq(Char), NEW c \in Char,
         IsSuffix(comp.typed, t)
  PROVE  Matches(Extended(comp, c), Append(t, c))
<1>1. Extended(comp, c).typed = Append(comp.typed, c) /\ comp.typed \in Seq(Char)
  BY DEF Extended, WordComposer
<1> QED  BY <1>1, SuffixAppend DEF Matches

LEMMA ShortenedMatches ==
  ASSUME NEW comp \in WordComposer, NEW t \in Seq(Char), IsComposing(comp),
         Matches(comp, t)
  PROVE  Matches(Shortened(comp), DeleteLast(t, 1))
<1>1. Shortened(comp).typed = DeleteLast(comp.typed, 1) /\ comp.typed \in Seq(Char)
  BY DEF Shortened, WordComposer
<1> QED  BY <1>1, SuffixDelete DEF Matches, IsComposing

\* Every step leaves the word that is composed at the end of the text.  A space
\* that is owed is what could come between the two.
LEMMA ComposerStep ==
  ASSUME TypeOK, OwedApart, ComposerMatchesText, [Next]_vars
  PROVE  ComposerMatchesText'
<1> SUFFICES ASSUME ~stale', IsComposing(composer')
             PROVE  Matches(composer', doc')
  BY DEF ComposerMatchesText, Matches, IsComposing
<1> DEFINE Goal == Matches(composer', doc')
<1>0. /\ doc \in Seq(Char) /\ composer \in WordComposer /\ TextOK
      /\ ~stale => Matches(composer, doc)
  BY TypeParts DEF TypeOK, ComposerMatchesText, Matches
<1>1. ASSUME Handled, NEW t \in Seq(Char), IsComposing(composer) => t = doc
      PROVE  Matches(Ready(t), t)
  <2>1. ~stale
    BY <1>1 DEF Handled
  <2>2. Matches(composer, t)
    BY <1>0, <1>1, <2>1 DEF Matches
  <2> QED  BY <2>2, ReadyMatches
<1>2. ASSUME NEW c \in WordChars \cup Digits, NonSeparatorKey(c) PROVE Goal
  <2> DEFINE t == BeforeKey(c)
             comp == Ready(t)
  <2>0. IsComposing(composer) => spaceState # "PHANTOM"
    BY <1>2 DEF NonSeparatorKey, Handled, OwedApart
  <2>1. t \in Seq(Char) /\ c \in Char /\ (IsComposing(composer) => t = doc)
    BY <1>0, <2>0, BeforeKeyType, CharTypes DEF WordChars, BeforeKey
  <2>2. Matches(comp, t)
    BY <1>1, <1>2, <2>1 DEF NonSeparatorKey
  <2>3. comp \in WordComposer
    BY <2>1, ReadyType
  <2>4. /\ doc' = Append(t, c)
        /\ composer' = CASE IsComposing(comp) -> Extended(comp, c)
                 [] ~IsComposing(comp) /\ c \in Letters -> Extended(EmptyComposer, c)
                 [] ~IsComposing(comp) /\ c \in Connectors -> EmptyComposer
                 [] OTHER -> comp
    BY <1>2 DEF NonSeparatorKey
  <2> HIDE DEF comp, t
  <2>5. CASE IsComposing(comp)
    <3>1. composer' = Extended(comp, c)
      BY <2>4, <2>5
    <3> QED  BY <2>1, <2>2, <2>3, <2>4, <2>5, <3>1, ExtendedMatches DEF Matches
  <2>6. CASE ~IsComposing(comp)
    <3>1. composer' = Extended(EmptyComposer, c)
      BY <2>4, <2>6, EmptyNotComposing
    <3>2. EmptyComposer \in WordComposer /\ IsSuffix(EmptyComposer.typed, t)
      BY <2>1, EmptyComposerType, EmptySuffix DEF EmptyComposer
    <3> QED  BY <2>1, <2>4, <3>1, <3>2, ExtendedMatches
  <2> QED  BY <2>5, <2>6
<1>3. ASSUME NEW c, SeparatorKey(c) PROVE Goal
  BY <1>3, CommitsEndWord DEF SeparatorKey
<1>4. CASE SpaceKey
  BY <1>4, CommitsEndWord DEF SpaceKey
<1>5. CASE EnterKey
  BY <1>5, EmptyNotComposing DEF EnterKey
<1>6. CASE DeleteKey
  <2> DEFINE comp == Ready(doc)
             kept == DeleteLast(doc, Len(lastWord.committed) + Len(lastWord.sep))
             reverted == kept \o lastWord.typed \o lastWord.sep
  <2>1. Matches(comp, doc) /\ comp \in WordComposer
    BY <1>0, <1>1, <1>6, ReadyType DEF DeleteKey
  <2>2. reverted \in Seq(Char) /\ DeleteLast(doc, 1) \in Seq(Char)
    <3>1. doc' \in Seq(Char) /\ DeleteLast(doc, 1) \in Seq(Char)
      BY <1>0, <1>6, DeleteKeyType, DeleteLastText DEF TypeOK
    <3>2. lastWord.typed \in Seq(Char) /\ lastWord.committed \in Seq(Char)
            /\ lastWord.sep \in Seq(Char)
      BY <1>0 DEF TextOK, LastComposedWord
    <3>3. kept \in Seq(Char)
      BY <1>0, <3>2, DeleteTwoText
    <3> HIDE DEF kept
    <3>4. kept \o lastWord.typed \in Seq(Char)
      BY <3>2, <3>3, ConcatProperties
    <3> QED  BY <3>1, <3>2, <3>4, ConcatProperties
  <2>3. \/ /\ IsComposing(comp)
           /\ doc' = DeleteLast(doc, 1) /\ composer' = Shortened(comp)
        \/ /\ ~IsComposing(comp)
           /\ doc' = reverted /\ composer' = Resumed(comp, reverted)
        \/ /\ ~IsComposing(comp)
           /\ doc' = DeleteLast(doc, 1)
           /\ composer' = Resumed(comp, DeleteLast(doc, 1))
    BY <1>6, Zenon DEF DeleteKey
  <2> HIDE DEF comp, kept, reverted
  <2>4. ASSUME NEW t \in Seq(Char), ~IsComposing(comp)
        PROVE  Matches(Resumed(comp, t), t)
    BY <2>4, ResumedMatches, NotComposingMatches
  <2> QED  BY <1>0, <2>1, <2>2, <2>3, <2>4, ShortenedMatches
<1>7. CASE ShiftKey
  <2> DEFINE t == IF spaceState = "PHANTOM" THEN Spaced(doc) ELSE doc
  <2>1. t \in Seq(Char) /\ (IsComposing(composer) => t = doc)
    BY <1>0, <1>7, SpacedText DEF ShiftKey, Handled, OwedApart
  <2>2. Matches(Ready(t), t)
    BY <1>1, <1>7, <2>1 DEF ShiftKey
  <2> QED  BY <1>7, <2>2 DEF ShiftKey
<1>8. CASE RawKey
  BY <1>8 DEF RawKey
<1>9. ASSUME NEW w, PickSuggestion(w) \/ PickInUrlField(w) PROVE Goal
  BY <1>9, EmptyNotComposing DEF PickSuggestion, PickInUrlField
<1>10. ASSUME NEW e, PickEmoji(e) PROVE Goal
  <2>1. composer' = EmptyComposer \/ (~IsComposing(composer) /\ composer' = composer)
    BY <1>10 DEF PickEmoji
  <2> QED  BY <2>1, EmptyNotComposing
<1>11. ASSUME NEW text, NEW kind, HostEdit(text, kind) PROVE Goal
  BY <1>11 DEF HostEdit
<1>12. CASE LoadKeyboard
  <2>1. CASE active
    BY <1>0, <1>12, <2>1 DEF LoadKeyboard
  <2>2. CASE ~active
    <3>1. composer' = Restarted(doc) /\ doc' = doc
      BY <1>12, <2>2, EmptyNotComposing DEF LoadKeyboard
    <3> QED  BY <1>0, <3>1, ResumedMatches, NotComposingMatches, EmptyNotComposing
             DEF Restarted
  <2> QED  BY <2>1, <2>2
<1>13. CASE IdleTimeout \/ DoubleSpaceTimeout \/ StartLookup
  BY <1>0, <1>13 DEF IdleTimeout, DoubleSpaceTimeout, StartLookup, textVars, history
<1>14. CASE FinishLookup
  <2>1. /\ composer'.typed = composer.typed
        /\ doc' = doc /\ stale' = stale
    BY <1>0, <1>14 DEF FinishLookup, WordComposer, history
  <2> QED  BY <1>0, <2>1 DEF Matches, IsComposing
<1>15. CASE UNCHANGED vars
  BY <1>0, <1>15 DEF vars, textVars, history
<1> QED
  BY <1>2, <1>3, <1>4, <1>5, <1>6, <1>7, <1>8, <1>9, <1>10, <1>11, <1>12, <1>13,
     <1>14, <1>15
     DEF Next

\* The edits of CMInputLogic and the commits of the view controller stay in
\* step: unless the text changed behind its back, the composer holds the word
\* at the cursor.
THEOREM ComposerAtCursor == Spec => []ComposerMatchesText
<1>1. Init => ComposerMatchesText
  BY EmptyNotComposing DEF Init, ComposerMatchesText
<1>2. TypeOK /\ PhantomOnlyBetweenWords /\ ComposerMatchesText /\ [Next]_vars
        => ComposerMatchesText'
  BY ComposerStep DEF PhantomOnlyBetweenWords, OwedApart
<1> QED  BY <1>1, <1>2, TypeCorrect, PhantomBetweenWords, PTL DEF Spec

(***************************************************************************)
(* The text before the word being composed.                                *)
(***************************************************************************)

\* The first k characters of t begin u too.
Keeps(k, t, u) == k <= Len(u) /\ \A i \in 1..k : u[i] = t[i]

LEMMA KeepsConcat ==
  ASSUME NEW t, NEW u \in Seq(Char), NEW v \in Seq(Char), NEW k \in Nat, Keeps(k, t, u)
  PROVE  Keeps(k, t, u \o v)
<1>1. Len(u) \in Nat /\ Len(v) \in Nat
  BY LenProperties
<1>2. Len(u \o v) = Len(u) + Len(v) /\ \A i \in 1..Len(u) : (u \o v)[i] = u[i]
  BY <1>1, ConcatProperties
<1> QED  BY <1>1, <1>2 DEF Keeps

LEMMA KeepsAppend ==
  ASSUME NEW t, NEW u \in Seq(Char), NEW c \in Char, NEW k \in Nat, Keeps(k, t, u)
  PROVE  Keeps(k, t, Append(u, c))
<1>1. Len(u) \in Nat
  BY LenProperties
<1>2. Len(Append(u, c)) = Len(u) + 1 /\ \A i \in 1..Len(u) : Append(u, c)[i] = u[i]
  BY <1>1, AppendProperties
<1> QED  BY <1>1, <1>2 DEF Keeps

LEMMA KeepsDelete ==
  ASSUME NEW t, NEW u \in Seq(Char), NEW n \in Nat, NEW k \in Nat, Keeps(k, t, u),
         k + n <= Len(u)
  PROVE  Keeps(k, t, DeleteLast(u, n))
<1> DEFINE d == DeleteLast(u, n)
<1>1. Len(u) \in Nat
  BY LenProperties
<1>2. Len(d) = (IF n <= Len(u) THEN Len(u) - n ELSE 0) /\ \A i \in 1..Len(d) : d[i] = u[i]
  BY DeleteLastText
<1> HIDE DEF d
<1>3. k <= Len(d)
  BY <1>1, <1>2
<1>4. Keeps(k, t, d)
  BY <1>1, <1>2, <1>3 DEF Keeps
<1> QED  BY <1>4 DEF d

LEMMA KeepsPrefix ==
  ASSUME NEW t \in Seq(Char), NEW u \in Seq(Char), NEW n \in Nat, n <= Len(t),
         Keeps(Len(t) - n, t, u)
  PROVE  DeleteLast(t, n) = SubSeq(u, 1, Len(DeleteLast(t, n)))
<1> DEFINE k == Len(t) - n
           d == DeleteLast(t, n)
           e == SubSeq(u, 1, k)
<1>1. Len(t) \in Nat /\ Len(u) \in Nat /\ k \in Nat
  BY LenProperties
<1>2. d \in Seq(Char) /\ Len(d) = k /\ \A i \in 1..Len(d) : d[i] = t[i]
  BY DeleteLastText
<1>3. \A i \in 1..k : u[i] \in Char
  BY <1>1, ElementOfSeq DEF Keeps
<1>4. /\ e \in Seq(Char)
      /\ Len(e) = IF 1 <= k THEN k - 1 + 1 ELSE 0
      /\ \A i \in 1..(k - 1 + 1) : e[i] = u[1 + i - 1]
  BY <1>1, <1>3, SubSeqProperties
<1>5. Keeps(k, t, u)
  OBVIOUS
<1> HIDE DEF k, d, e
<1>6. Len(e) = k /\ \A i \in 1..k : e[i] = u[i]
  BY <1>1, <1>4
<1>7. \A i \in 1..k : e[i] = d[i]
  BY <1>2, <1>5, <1>6 DEF Keeps
<1>8. d = e
  BY <1>2, <1>4, <1>6, <1>7, SeqEqual
<1> QED  BY <1>2, <1>8 DEF d, e

\* Where a word is composed a key finds it composed, and a correction it finds
\* is for that word.
LEMMA ReadyComposes ==
  ASSUME TypeOK, NEW t \in Seq(Char), IsComposing(composer)
  PROVE  /\ IsComposing(Ready(t))
         /\ Correctable(Ready(t)) => Ready(t).typed = composer.typed
<1>1. CASE ~firstInit
  BY <1>1 DEF Ready
<1>2. CASE firstInit
  <2>1. Resumed(composer, t) \in WordComposer /\ composer \in WordComposer
    BY ResumedType DEF TypeOK
  <2>2. Ready(t).typed = Resumed(composer, t).typed
          /\ Ready(t).correction = Resumed(composer, t).correction
    BY <1>2, <2>1 DEF Ready, WordComposer
  <2>3. CASE TrailingWord(t) = <<>>
    BY <2>2, <2>3 DEF Resumed, IsComposing
  <2>4. CASE TrailingWord(t) # <<>>
    BY <2>2, <2>4 DEF Resumed, IsComposing, Correctable, EmptyComposer
  <2> QED  BY <2>3, <2>4
<1> QED  BY <1>1, <1>2 DEF TypeOK

\* A separator or a space closes the word; it corrects that word only.
LEMMA CommitKeeps ==
  ASSUME TypeOK, IsComposing(composer), NEW t \in Seq(Char), NEW before \in Seq(Char),
         NEW k \in Nat, Keeps(k, doc, before), k + Len(composer.typed) <= Len(before),
         NEW sep, NEW trailing \in Seq(Char), NEW c \in Char, NEW space,
         \/ Correctable(Ready(t)) /\ CommitCorrection(Ready(t), before, sep, trailing)
         \/ CommitTyped(Ready(t), before, c, space)
  PROVE  Keeps(k, doc, doc')
<1> DEFINE comp == Ready(t)
<1>1. comp \in WordComposer /\ (Correctable(comp) => comp.typed = composer.typed)
  BY ReadyType, ReadyComposes
<1>2. Len(composer.typed) \in Nat
  BY LenProperties DEF TypeOK, WordComposer
<1>3. CASE Correctable(comp) /\ CommitCorrection(comp, before, sep, trailing)
  <2> DEFINE kept == DeleteLast(before, Len(composer.typed))
  <2>1. doc' = kept \o comp.correction \o trailing
    BY <1>1, <1>3 DEF CommitCorrection
  <2>2. kept \in Seq(Char) /\ Keeps(k, doc, kept)
    BY <1>2, DeleteLastText, KeepsDelete
  <2>3. comp.correction \in Seq(Char)
    BY <1>1 DEF WordComposer
  <2> HIDE DEF kept, comp
  <2>4. kept \o comp.correction \in Seq(Char) /\ Keeps(k, doc, kept \o comp.correction)
    BY <2>2, <2>3, ConcatProperties, KeepsConcat
  <2> QED  BY <2>1, <2>4, KeepsConcat
<1>4. CASE CommitTyped(comp, before, c, space)
  BY <1>4, KeepsAppend DEF CommitTyped
<1> QED  BY <1>3, <1>4

\* The text before the word, in a step that neither finds nor leaves a text the
\* composer was not told of.
BeforeWordStays ==
  LET before == DeleteLast(doc, Len(composer.typed)) IN
  before = SubSeq(doc', 1, Len(before))

LEMMA TextStep ==
  ASSUME TypeOK, TypeOK', OwedApart, ComposerMatchesText, [Next]_vars,
         IsComposing(composer), ~stale, ~stale'
  PROVE  BeforeWordStays
<1> SUFFICES DeleteLast(doc, Len(composer.typed)) =
               SubSeq(doc', 1, Len(DeleteLast(doc, Len(composer.typed))))
  BY DEF BeforeWordStays
<1> DEFINE n == Len(composer.typed)
           k == Len(doc) - n
           Kept == Keeps(k, doc, doc')
<1>1. doc \in Seq(Char) /\ doc' \in Seq(Char) /\ composer.typed \in Seq(Char)
  BY DEF TypeOK, WordComposer
<1>2. n \in Nat \ {0} /\ Len(doc) \in Nat
  BY <1>1, LenProperties, EmptySeq DEF IsComposing
<1>3. n <= Len(doc)
  BY DEF ComposerMatchesText, IsSuffix
<1>4. k \in Nat /\ k + n = Len(doc)
  BY <1>2, <1>3
<1> HIDE DEF n, k
<1>5. spaceState # "PHANTOM" /\ Keeps(k, doc, doc)
  BY <1>2, <1>4 DEF OwedApart, Keeps
<1>6. k + 1 <= Len(doc) /\ Keeps(k, doc, DeleteLast(doc, 1))
        /\ DeleteLast(doc, 1) \in Seq(Char)
        /\ Len(DeleteLast(doc, 1)) = Len(doc) - 1
  <2>1. k + 1 <= Len(doc)
    BY <1>2, <1>4
  <2>2. Len(DeleteLast(doc, 1)) = Len(doc) - 1
    <3>1. Len(DeleteLast(doc, 1)) = IF 1 <= Len(doc) THEN Len(doc) - 1 ELSE 0
      BY <1>1, DeleteLastText
    <3> QED  BY <1>2, <1>4, <2>1, <3>1
  <2> QED  BY <1>1, <1>4, <1>5, <2>1, <2>2, KeepsDelete, DeleteLastText
<1>7. ASSUME doc' = doc PROVE Kept
  BY <1>5, <1>7
<1>8. ASSUME NEW c \in WordChars \cup Digits, NonSeparatorKey(c) PROVE Kept
  <2>1. doc' = Append(doc, c) /\ c \in Char
    BY <1>5, <1>8, CharTypes DEF NonSeparatorKey, BeforeKey, WordChars
  <2> QED  BY <1>1, <1>4, <1>5, <2>1, KeepsAppend
<1>9. ASSUME NEW c \in Separators \cup OtherSymbols, SeparatorKey(c) PROVE Kept
  <2> DEFINE trailing == IF c \in ClosingMarks THEN <<c>> ELSE <<>>
  <2>1. c \in Char /\ trailing \in Seq(Char)
    BY CharTypes, SingletonText
  <2>2. BeforeKey(c) = doc
    BY <1>5 DEF BeforeKey
  <2>3. \/ /\ Correctable(Ready(doc))
           /\ CommitCorrection(Ready(doc), doc, <<c>>, trailing)
        \/ CommitTyped(Ready(doc), doc, c, SpaceStateBeforeKey(c))
    BY <1>9, <2>2, Zenon DEF SeparatorKey
  <2> HIDE DEF trailing
  <2>4. k + Len(composer.typed) <= Len(doc)
    BY <1>2, <1>4 DEF n
  <2> QED  BY <1>1, <1>4, <1>5, <2>1, <2>3, <2>4, CommitKeeps
<1>10. ASSUME SpaceKey PROVE Kept
  <2> DEFINE doubled == DoubleSpacePeriod /\ spaceTap /\ PeriodAllowed(doc)
             before  == IF doubled THEN Append(DeleteLast(doc, 1), Period) ELSE doc
  <2>1. Period \in Char /\ Space \in Char /\ <<>> \in Seq(Char)
    BY CharTypes, EmptySeq
  <2>2. before \in Seq(Char) /\ Len(before) = Len(doc) /\ Keeps(k, doc, before)
    <3>1. CASE ~doubled
      BY <1>1, <1>5, <3>1
    <3>2. CASE doubled
      <4>1. before = Append(DeleteLast(doc, 1), Period)
        BY <3>2
      <4> HIDE DEF before, doubled
      <4>2. Keeps(k, doc, before)
        BY <1>4, <1>6, <2>1, <4>1, KeepsAppend
      <4>3. before \in Seq(Char) /\ Len(before) = Len(DeleteLast(doc, 1)) + 1
        BY <1>6, <2>1, <4>1, AppendProperties
      <4> QED  BY <1>2, <1>6, <4>2, <4>3
    <3> QED  BY <3>1, <3>2
  <2>3. \/ Correctable(Ready(doc)) /\ CommitCorrection(Ready(doc), before, <<>>, <<>>)
        \/ CommitTyped(Ready(doc), before, Space, SpaceStateAfterSpace(doubled))
    BY <1>10, Zenon DEF SpaceKey
  <2> HIDE DEF before, doubled
  <2>4. k + Len(composer.typed) <= Len(before)
    BY <1>2, <1>4, <2>2 DEF n
  <2> QED  BY <1>1, <1>4, <2>1, <2>2, <2>3, <2>4, CommitKeeps
<1>11. ASSUME EnterKey PROVE Kept
  <2>1. doc' = Append(doc, Newline) /\ Newline \in Char
    BY <1>11, CharTypes DEF EnterKey
  <2> QED  BY <1>1, <1>4, <1>5, <2>1, KeepsAppend
<1>12. ASSUME DeleteKey PROVE Kept
  <2>1. IsComposing(Ready(doc))
    BY <1>1, ReadyComposes
  <2>2. doc' = DeleteLast(doc, 1)
    BY <1>12, <2>1 DEF DeleteKey
  <2> QED  BY <1>6, <2>2
<1>13. ASSUME ShiftKey PROVE Kept
  BY <1>5, <1>7, <1>13 DEF ShiftKey
<1>14. ASSUME RawKey PROVE Kept
  BY <1>14 DEF RawKey
<1>15. BeforePick \in Seq(Char) /\ Keeps(k, doc, BeforePick)
  <2>1. BeforePick = DeleteLast(doc, n)
    BY <1>5 DEF BeforePick, n
  <2> QED  BY <1>1, <1>2, <1>4, <1>5, <2>1, DeleteLastText, KeepsDelete
<1>16. ASSUME NEW w \in SuggestedWords, PickSuggestion(w) PROVE Kept
  BY <1>4, <1>15, <1>16, TextAssumption, KeepsConcat DEF PickSuggestion
<1>17. ASSUME NEW w \in SuggestedWords, PickInUrlField(w) PROVE Kept
  BY <1>1, <1>4, <1>5, <1>17, TextAssumption, KeepsConcat DEF PickInUrlField
<1>18. ASSUME NEW e \in Emojis, PickEmoji(e) PROVE Kept
  <2> DEFINE before == IF spaceState = "PHANTOM" THEN Spaced(doc) ELSE doc
             commit == IF LooksLikeURL(before) THEN <<e>> ELSE <<e, Space>>
  <2>1. commit \in Seq(Char)
    BY CharTypes
  <2>2. doc' = BeforePick \o commit
    BY <1>18 DEF PickEmoji
  <2> HIDE DEF commit
  <2> QED  BY <1>4, <1>15, <2>1, <2>2, KeepsConcat
<1>19. ASSUME NEW text, NEW kind, HostEdit(text, kind) PROVE Kept
  BY <1>19 DEF HostEdit
<1>20. ASSUME \/ LoadKeyboard \/ IdleTimeout \/ DoubleSpaceTimeout
              \/ StartLookup \/ FinishLookup
       PROVE  Kept
  BY <1>7, <1>20
     DEF LoadKeyboard, IdleTimeout, DoubleSpaceTimeout, StartLookup, FinishLookup, textVars
<1>21. ASSUME UNCHANGED vars PROVE Kept
  BY <1>7, <1>21 DEF vars, textVars
<1>22. Kept
  BY <1>8, <1>9, <1>10, <1>11, <1>12, <1>13, <1>14, <1>16, <1>17, <1>18, <1>19,
     <1>20, <1>21 DEF Next
<1>23. k = Len(doc) - n
  BY <1>2, <1>4
<1> QED  BY <1>1, <1>2, <1>3, <1>22, <1>23, KeepsPrefix DEF n

\* Whatever a key, a correction or a pick does to the word being composed, the
\* text before that word is not touched: the delete counts of the correction
\* and of the pick never reach past it.
THEOREM TextBeforeWordIsKept == Spec => TextBeforeWordKept
<1> DEFINE Goal == IsComposing(composer) /\ ~stale /\ ~stale' => BeforeWordStays
<1>1. TypeOK /\ TypeOK' /\ PhantomOnlyBetweenWords /\ ComposerMatchesText /\ [Next]_vars
        => [Goal]_vars
  BY TextStep DEF PhantomOnlyBetweenWords, OwedApart
<1> HIDE DEF Goal
<1>2. Spec => [][Goal]_vars
  BY <1>1, TypeCorrect, PhantomBetweenWords, ComposerAtCursor, PTL DEF Spec
<1> QED  BY <1>2 DEF TextBeforeWordKept, Goal, BeforeWordStays

(***************************************************************************)
(* The space that is owed, and the one that is there.                      *)
(***************************************************************************)
EndsInSpace(text) == text # <<>> /\ text[Len(text)] = Space

\* Neither a correction that waits nor a text that is owed a space ends in one.
OwedOnce ==
  /\ ~EndsInSpace(composer.correction)
  /\ spaceState = "PHANTOM" /\ ~drifted => ~EndsInSpace(doc)

LEMMA AppendedEnd ==
  ASSUME NEW t \in Seq(Char), NEW c \in Char, c # Space
  PROVE  ~EndsInSpace(Append(t, c))
BY LenProperties, AppendProperties DEF EndsInSpace

LEMMA ConcatEnd ==
  ASSUME NEW t \in Seq(Char), NEW u \in Seq(Char), u # <<>>, ~EndsInSpace(u)
  PROVE  ~EndsInSpace(t \o u)
<1>1. Len(t) \in Nat /\ Len(u) \in Nat \ {0}
  BY LenProperties, EmptySeq
<1>2. Len(t \o u) = Len(t) + Len(u) /\ (t \o u)[Len(t) + Len(u)] = u[Len(u)]
  BY <1>1, ConcatProperties
<1> QED  BY <1>2 DEF EndsInSpace

LEMMA WordEnds ==
  /\ \A w \in SuggestedWords : ~EndsInSpace(w)
  /\ \A w \in DOMAIN AutoCorrect : ~EndsInSpace(AutoCorrect[w])
  /\ ~EndsInSpace(<<>>) /\ ~EndsInSpace(EmptyComposer.correction)
BY SpaceAssumption DEF EndsInSpace, EmptyComposer

\* The composer a key finds waits for no other correction.
LEMMA ReadyCorrection ==
  ASSUME TypeOK, NEW t \in Seq(Char)
  PROVE  Ready(t).correction \in {composer.correction, <<>>}
<1>1. Resumed(composer, t) \in WordComposer
  BY ResumedType DEF TypeOK
<1>2. Resumed(composer, t).correction \in {composer.correction, <<>>}
  BY DEF Resumed, EmptyComposer
<1>3. CASE firstInit
  BY <1>1, <1>2, <1>3 DEF Ready, WordComposer
<1>4. CASE ~firstInit
  BY <1>4 DEF Ready
<1> QED  BY <1>3, <1>4 DEF TypeOK

\* A correction leaves its own end, or the mark that brought it about.
LEMMA CorrectedEnd ==
  ASSUME TypeOK, OwedOnce, NEW t \in Seq(Char), NEW before \in Seq(Char), NEW sep,
         NEW trailing \in Seq(Char), ~EndsInSpace(trailing),
         Correctable(Ready(t)), CommitCorrection(Ready(t), before, sep, trailing)
  PROVE  ~EndsInSpace(doc')
<1> DEFINE comp == Ready(t)
           kept == DeleteLast(before, Len(comp.typed))
<1>1. comp \in WordComposer /\ comp.correction # <<>> /\ ~EndsInSpace(comp.correction)
  BY ReadyType, ReadyCorrection DEF Correctable, OwedOnce
<1>2. comp.typed \in Seq(Char) /\ comp.correction \in Seq(Char)
  BY <1>1 DEF WordComposer
<1>3. doc' = kept \o comp.correction \o trailing
  BY DEF CommitCorrection
<1>4. kept \in Seq(Char)
  BY <1>2, DeleteLastText, LenProperties
<1> HIDE DEF kept, comp
<1>5. kept \o comp.correction \in Seq(Char) /\ ~EndsInSpace(kept \o comp.correction)
  BY <1>1, <1>2, <1>4, ConcatProperties, ConcatEnd
<1>6. CASE trailing = <<>>
  BY <1>3, <1>5, <1>6, ConcatEmptySeq
<1>7. CASE trailing # <<>>
  BY <1>3, <1>5, <1>7, ConcatEnd
<1> QED  BY <1>6, <1>7

\* What is composed after a step waits for a correction that was there, that
\* the suggester found, or for none.
LEMMA CorrectionStep ==
  ASSUME TypeOK, OwedOnce, [Next]_vars
  PROVE  ~EndsInSpace(composer'.correction)
<1> DEFINE Goal == ~EndsInSpace(composer'.correction)
<1>0. /\ composer \in WordComposer /\ ~EndsInSpace(composer.correction)
      /\ \A t \in Seq(Char) : Ready(t) \in WordComposer
                                /\ ~EndsInSpace(Ready(t).correction)
  BY ReadyType, ReadyCorrection, WordEnds DEF TypeOK, OwedOnce
<1>1. ASSUME NEW comp, NEW t, comp.correction \in {composer.correction, <<>>}
      PROVE  ~EndsInSpace(Resumed(comp, t).correction)
  BY <1>0, <1>1, WordEnds DEF Resumed, EmptyComposer
<1>2. ASSUME NEW comp, ~EndsInSpace(comp.correction), NEW before, NEW c, NEW d, NEW e,
             CommitCorrection(comp, before, c, d) \/ CommitTyped(comp, before, c, e)
      PROVE  Goal
  BY <1>2, WordEnds DEF CommitCorrection, CommitTyped
<1>3. /\ doc \in Seq(Char) /\ \A c : BeforeKey(c) \in Seq(Char)
      /\ (IF spaceState = "PHANTOM" THEN Spaced(doc) ELSE doc) \in Seq(Char)
  BY TypeParts, BeforeKeyType, SpacedText DEF TypeOK
<1>4. ASSUME NEW c \in WordChars \cup Digits, NonSeparatorKey(c) PROVE Goal
  <2> DEFINE comp == Ready(BeforeKey(c))
  <2>1. composer' = CASE IsComposing(comp) -> Extended(comp, c)
                  [] ~IsComposing(comp) /\ c \in Letters -> Extended(EmptyComposer, c)
                  [] ~IsComposing(comp) /\ c \in Connectors -> EmptyComposer
                  [] OTHER -> comp
    BY <1>4 DEF NonSeparatorKey
  <2>2. comp \in WordComposer /\ ~EndsInSpace(comp.correction)
    BY <1>0, <1>3
  <2> HIDE DEF comp
  <2>3. composer' \in {Extended(comp, c), Extended(EmptyComposer, c), EmptyComposer, comp}
    BY <2>1
  <2>4. \A x \in WordComposer : Extended(x, c).correction = <<>>
    BY DEF Extended, WordComposer
  <2> QED  BY <2>2, <2>3, <2>4, WordEnds, EmptyComposerType
<1>5. ASSUME NEW c, SeparatorKey(c) PROVE Goal
  BY <1>0, <1>2, <1>3, <1>5 DEF SeparatorKey
<1>6. CASE SpaceKey
  BY <1>0, <1>2, <1>3, <1>6 DEF SpaceKey
<1>7. CASE EnterKey
  BY <1>7, WordEnds DEF EnterKey
<1>8. CASE DeleteKey
  <2> DEFINE comp == Ready(doc)
  <2>1. comp \in WordComposer /\ comp.correction \in {composer.correction, <<>>}
    BY <1>0, <1>3, ReadyCorrection
  <2>2. composer' = Shortened(comp) \/ \E t : composer' = Resumed(comp, t)
    BY <1>8, Zenon DEF DeleteKey
  <2> HIDE DEF comp
  <2>3. Shortened(comp).correction = <<>>
    BY <2>1 DEF Shortened, WordComposer
  <2> QED  BY <1>1, <2>1, <2>2, <2>3, WordEnds
<1>9. CASE ShiftKey
  BY <1>0, <1>3, <1>9 DEF ShiftKey
<1>10. ASSUME NEW w, PickSuggestion(w) \/ PickInUrlField(w) \/ PickEmoji(w) PROVE Goal
  BY <1>0, <1>10, WordEnds DEF PickSuggestion, PickInUrlField, PickEmoji
<1>11. CASE LoadKeyboard
  BY <1>0, <1>1, <1>11, WordEnds DEF LoadKeyboard, Restarted, EmptyComposer
<1>12. CASE FinishLookup
  BY <1>0, <1>12, WordEnds DEF FinishLookup, WordComposer
<1>13. ASSUME composer' = composer PROVE Goal
  BY <1>0, <1>13
<1>14. CASE RawKey \/ IdleTimeout \/ DoubleSpaceTimeout \/ StartLookup \/ UNCHANGED vars
  BY <1>13, <1>14 DEF RawKey, IdleTimeout, DoubleSpaceTimeout, StartLookup, vars, textVars
<1>15. ASSUME NEW text, NEW kind, HostEdit(text, kind) PROVE Goal
  BY <1>13, <1>15 DEF HostEdit
<1> QED
  BY <1>4, <1>5, <1>6, <1>7, <1>8, <1>9, <1>10, <1>11, <1>12, <1>14, <1>15 DEF Next

LEMMA OwedOnceStep ==
  ASSUME TypeOK, OwedOnce, [Next]_vars
  PROVE  OwedOnce'
<1> SUFFICES ASSUME spaceState' = "PHANTOM", ~drifted' PROVE ~EndsInSpace(doc')
  BY CorrectionStep DEF OwedOnce, EndsInSpace
<1> DEFINE Goal == ~EndsInSpace(doc')
<1>0. /\ doc \in Seq(Char) /\ \A c : BeforeKey(c) \in Seq(Char)
      /\ BeforePick \in Seq(Char)
      /\ Space \notin Separators \cup OtherSymbols \cup {Newline}
  BY TypeParts, BeforeKeyType, BeforePickType, SpaceAssumption DEF TypeOK
<1>1. ASSUME doc' = doc, spaceState' = spaceState, drifted' = drifted PROVE Goal
  BY <1>1 DEF OwedOnce
<1>2. ASSUME NEW c \in WordChars \cup Digits, NonSeparatorKey(c) PROVE Goal
  BY <1>2, WordKeyNoSeparator DEF NonSeparatorKey, SpaceStateBeforeKey
<1>3. ASSUME NEW c \in Separators \cup OtherSymbols, SeparatorKey(c) PROVE Goal
  <2> DEFINE comp == Ready(BeforeKey(c))
             trailing == IF c \in ClosingMarks THEN <<c>> ELSE <<>>
  <2>1. c \in Char /\ c # Space
    BY <1>0, CharTypes
  <2>2. \/ Correctable(comp) /\ CommitCorrection(comp, BeforeKey(c), <<c>>, trailing)
        \/ doc' = Append(BeforeKey(c), c)
    BY <1>3 DEF SeparatorKey, CommitTyped
  <2>3. trailing \in Seq(Char) /\ ~EndsInSpace(trailing)
    BY <2>1, SingletonText DEF EndsInSpace
  <2> HIDE DEF trailing
  <2> QED  BY <1>0, <2>1, <2>2, <2>3, CorrectedEnd, AppendedEnd
<1>4. CASE SpaceKey
  <2> DEFINE doubled == DoubleSpacePeriod /\ spaceTap /\ PeriodAllowed(doc)
             before  == IF doubled THEN Append(DeleteLast(doc, 1), Period) ELSE doc
  <2>1. before \in Seq(Char)
    BY <1>0, CharTypes, DeleteLastText, AppendProperties
  <2>2. \/ Correctable(Ready(doc)) /\ CommitCorrection(Ready(doc), before, <<>>, <<>>)
        \/ spaceState' = SpaceStateAfterSpace(doubled)
    BY <1>4, Zenon DEF SpaceKey, CommitTyped
  <2> HIDE DEF before, doubled
  <2> QED  BY <1>0, <2>1, <2>2, CorrectedEnd, EmptySeq, WordEnds DEF SpaceStateAfterSpace
<1>5. CASE EnterKey
  BY <1>0, <1>5, AppendedEnd, CharTypes DEF EnterKey
<1>6. CASE DeleteKey \/ ShiftKey \/ RawKey
  BY <1>6 DEF DeleteKey, ShiftKey, RawKey
<1>7. ASSUME NEW w \in SuggestedWords, PickSuggestion(w) \/ PickInUrlField(w) PROVE Goal
  BY <1>0, <1>7, ConcatEnd, WordEnds, TextAssumption DEF PickSuggestion, PickInUrlField
<1>8. ASSUME NEW e \in Emojis, PickEmoji(e) PROVE Goal
  <2>1. doc' = BeforePick \o <<e>>
    BY <1>8 DEF PickEmoji, SpaceStateAfterEmoji
  <2>2. e \in Char /\ e # Space
    BY <1>0, CharTypes, CharAssumption
  <2>3. <<e>> \in Seq(Char) /\ <<e>> # <<>> /\ ~EndsInSpace(<<e>>)
    BY <2>2 DEF EndsInSpace
  <2> QED  BY <1>0, <2>1, <2>3, ConcatEnd
<1>9. ASSUME NEW text, NEW kind, HostEdit(text, kind) PROVE Goal
  BY <1>9 DEF HostEdit
<1>10. CASE LoadKeyboard
  BY <1>1, <1>10 DEF LoadKeyboard
<1>11. CASE IdleTimeout \/ DoubleSpaceTimeout \/ StartLookup \/ FinishLookup
  BY <1>1, <1>11 DEF IdleTimeout, DoubleSpaceTimeout, StartLookup, FinishLookup, textVars,
                     history
<1>12. CASE UNCHANGED vars
  BY <1>1, <1>12 DEF vars, textVars, history
<1> QED
  BY <1>2, <1>3, <1>4, <1>5, <1>6, <1>7, <1>8, <1>9, <1>10, <1>11, <1>12 DEF Next

\* The automatic space never lands behind another one, whatever separators,
\* deletes, corrections and picks came since it was owed.
THEOREM SpaceIsOwedOnce == Spec => []SpaceOwedOnce
<1>1. Init => OwedOnce
  BY WordEnds DEF Init, OwedOnce
<1>2. TypeOK /\ OwedOnce /\ [Next]_vars => OwedOnce'
  BY OwedOnceStep
<1>3. OwedOnce => SpaceOwedOnce
  BY DEF OwedOnce, EndsInSpace, SpaceOwedOnce
<1> QED  BY <1>1, <1>2, <1>3, TypeCorrect, PTL DEF Spec

(***************************************************************************)
(* The session.                                                            *)
(***************************************************************************)

\* Where no field is for URLs or addresses, every session that ignores the
\* host's text changes has the call pending that ends it.
THEOREM SessionAlwaysEnds == "url" \notin Kinds => (Spec => []ActiveInputEnds)
<1> SUFFICES ASSUME "url" \notin Kinds PROVE Spec => []ActiveInputEnds
  OBVIOUS
<1>1. Init => ActiveInputEnds
  BY DEF Init, ActiveInputEnds
<1>2. TypeOK /\ ActiveInputEnds /\ [Next]_vars => ActiveInputEnds'
  <2> SUFFICES ASSUME TypeOK, ActiveInputEnds, [Next]_vars PROVE ActiveInputEnds'
    OBVIOUS
  <2>1. ASSUME UNCHANGED sessionVars PROVE ActiveInputEnds'
    BY <2>1 DEF sessionVars, ActiveInputEnds
  <2>2. ASSUME Session PROVE ActiveInputEnds'
    BY <2>2 DEF Session, ActiveInputEnds
  <2>3. ASSUME NEW c, NonSeparatorKey(c) \/ SeparatorKey(c) PROVE Session
    BY <2>3 DEF NonSeparatorKey, SeparatorKey
  <2>4. CASE SpaceKey \/ DeleteKey \/ ShiftKey \/ RawKey
    BY <2>2, <2>4 DEF SpaceKey, DeleteKey, ShiftKey, RawKey
  <2>5. CASE EnterKey \/ IdleTimeout
    BY <2>5 DEF EnterKey, IdleTimeout, ActiveInputEnds
  <2>6. ASSUME NEW w, PickSuggestion(w) \/ PickEmoji(w) PROVE Session
    BY <2>6 DEF PickSuggestion, PickEmoji
  <2>7. ASSUME NEW w, PickInUrlField(w) PROVE FALSE
    BY <2>7 DEF PickInUrlField, TypeOK
  <2>8. ASSUME NEW text, NEW kind, HostEdit(text, kind) PROVE UNCHANGED sessionVars
    BY <2>8 DEF HostEdit
  <2>9. CASE LoadKeyboard \/ DoubleSpaceTimeout \/ StartLookup \/ FinishLookup
    BY <2>1, <2>9 DEF LoadKeyboard, DoubleSpaceTimeout, StartLookup, FinishLookup
  <2>10. CASE UNCHANGED vars
    BY <2>1, <2>10 DEF vars
  <2> QED
    BY <2>1, <2>2, <2>3, <2>4, <2>5, <2>6, <2>7, <2>8, <2>9, <2>10 DEF Next
<1> QED  BY <1>1, <1>2, TypeCorrect, PTL DEF Spec

(***************************************************************************)
(* What a backspace may revert.                                            *)
(***************************************************************************)

\* The committed word ends the text, or with one space that is no longer owed.
Stands ==
  \/ IsSuffix(CommittedText, doc)
  \/ spaceState # "PHANTOM" /\ IsSuffix(Append(CommittedText, Space), doc)

\* In a field the keyboard takes for one of URLs nothing becomes revertable, so
\* that the words picked there never come behind one that is.
RevertInv ==
  CanRevert /\ ~moved =>
    /\ model = "url" => field = "url"
    /\ model # "url" => Stands

LEMMA CommittedType ==
  ASSUME TypeOK PROVE CommittedText \in Seq(Char)
<1>1. lastWord.committed \in Seq(Char) /\ lastWord.sep \in Seq(Char) /\ <<>> \in Seq(Char)
  BY EmptySeq DEF TypeOK, LastComposedWord
<1> QED  BY <1>1, ConcatProperties DEF CommittedText

\* A correction puts in what its revert would take out.
LEMMA CorrectionStands ==
  ASSUME NEW comp \in WordComposer, NEW before \in Seq(Char),
         NEW c \in Char, NEW sep, NEW trailing,
         \/ sep = <<c>> /\ trailing = IF c \in ClosingMarks THEN <<c>> ELSE <<>>
         \/ sep = <<>> /\ trailing = <<>>,
         CommitCorrection(comp, before, sep, trailing)
  PROVE  Stands'
<1> DEFINE kept == DeleteLast(before, Len(comp.typed))
<1>1. comp.typed \in Seq(Char) /\ comp.correction \in Seq(Char)
  BY DEF WordComposer
<1>2. kept \in Seq(Char)
  BY <1>1, DeleteLastText, LenProperties
<1>3. trailing \in Seq(Char) /\ comp.correction \o trailing \in Seq(Char)
  <2>1. trailing \in Seq(Char)
    BY SingletonText
  <2> QED  BY <1>1, <2>1, ConcatProperties
<1>4. doc' = kept \o comp.correction \o trailing
  BY DEF CommitCorrection
<1>5. lastWord'.committed = comp.correction /\ lastWord'.sep = sep
  BY DEF CommitCorrection
<1>6. (IF \E d \in ClosingMarks : sep = <<d>> THEN sep ELSE <<>>) = trailing
  OBVIOUS
<1>7. CommittedText' = comp.correction \o trailing
  BY <1>5, <1>6 DEF CommittedText
<1> HIDE DEF kept
<1>8. doc' = kept \o (comp.correction \o trailing)
  <2>1. \A u, v, w \in Seq(Char) : (u \o v) \o w = u \o (v \o w)
    BY ConcatAssociative
  <2>2. doc' = (kept \o comp.correction) \o trailing
    BY <1>4
  <2> QED  BY <1>1, <1>2, <1>3, <2>1, <2>2, Zenon
<1>9. IsSuffix(CommittedText', doc')
  BY <1>2, <1>3, <1>7, <1>8, SuffixConcat
<1> QED  BY <1>9 DEF Stands, IsSuffix

LEMMA RevertStep ==
  ASSUME TypeOK, RevertInv, [Next]_vars
  PROVE  RevertInv'
<1>0. /\ doc \in Seq(Char) /\ \A c : BeforeKey(c) \in Seq(Char)
      /\ CommittedText \in Seq(Char) /\ BeforePick \in Seq(Char)
      /\ \A t \in Seq(Char) : Ready(t) \in WordComposer
  BY TypeParts, BeforeKeyType, BeforePickType, CommittedType, ReadyType DEF TypeOK
<1>1. ASSUME lastWord' = NoLastWord PROVE RevertInv'
  BY <1>1 DEF RevertInv, CanRevert, NoLastWord
<1>2. ASSUME Stands', model' # "url" PROVE RevertInv'
  BY <1>2 DEF RevertInv
<1>3. ASSUME UNCHANGED <<doc, lastWord, spaceState, moved, hostVars>> PROVE RevertInv'
  BY <1>3 DEF RevertInv, CanRevert, Stands, CommittedText, hostVars
<1>4. Handled => model' = "text"
  BY DEF Handled, Frame, hostVars
<1>5. ASSUME NEW c \in WordChars \cup Digits, NonSeparatorKey(c) PROVE RevertInv'
  BY <1>1, <1>5 DEF NonSeparatorKey, LastWordAfterKey
<1>6. ASSUME NEW c \in Separators \cup OtherSymbols, SeparatorKey(c) PROVE RevertInv'
  <2> DEFINE comp == Ready(BeforeKey(c))
             trailing == IF c \in ClosingMarks THEN <<c>> ELSE <<>>
  <2>1. \/ CommitCorrection(comp, BeforeKey(c), <<c>>, trailing)
        \/ lastWord' = NoLastWord
    BY <1>6 DEF SeparatorKey, CommitTyped
  <2>2. c \in Char /\ comp \in WordComposer /\ model' # "url"
    BY <1>0, <1>4, <1>6, CharTypes DEF SeparatorKey
  <2> HIDE DEF comp
  <2>3. CASE CommitCorrection(comp, BeforeKey(c), <<c>>, trailing)
    <3>1. Stands'
      BY <1>0, <2>2, <2>3, CorrectionStands
    <3> QED  BY <1>2, <2>2, <3>1
  <2> QED  BY <1>1, <2>1, <2>3
<1>7. CASE SpaceKey
  <2> DEFINE doubled == DoubleSpacePeriod /\ spaceTap /\ PeriodAllowed(doc)
             before  == IF doubled THEN Append(DeleteLast(doc, 1), Period) ELSE doc
  <2>1. before \in Seq(Char) /\ Space \in Char /\ Ready(doc) \in WordComposer
    BY <1>0, CharTypes, DeleteLastText, AppendProperties
  <2>2. CommitCorrection(Ready(doc), before, <<>>, <<>>) \/ lastWord' = NoLastWord
    BY <1>7, Zenon DEF SpaceKey, CommitTyped
  <2>3. model' # "url"
    BY <1>4, <1>7 DEF SpaceKey
  <2> HIDE DEF before, doubled
  <2>4. CASE CommitCorrection(Ready(doc), before, <<>>, <<>>)
    <3>1. Stands'
      BY <2>1, <2>4, CorrectionStands
    <3> QED  BY <1>2, <2>3, <3>1
  <2> QED  BY <1>1, <2>2, <2>4
<1>8. CASE EnterKey \/ DeleteKey \/ RawKey
  BY <1>1, <1>8 DEF EnterKey, DeleteKey, RawKey, LastWordAfterKey
<1>9. CASE ShiftKey
  <2>1. lastWord' = lastWord /\ model = "text" /\ model' = model /\ moved' = moved
    BY <1>9 DEF ShiftKey, Handled, Frame, hostVars, TypeOK
  <2>2. CASE ~CanRevert \/ moved
    BY <2>1, <2>2 DEF RevertInv, CanRevert
  <2>3. CASE Stands
    <3>1. CommittedText' = CommittedText
      BY <2>1 DEF CommittedText
    <3>2. CASE spaceState = "PHANTOM"
      <4>1. doc' = doc \/ doc' = Append(doc, Space)
        BY <1>9, <3>2 DEF ShiftKey, Spaced
      <4>2. spaceState' # "PHANTOM" /\ IsSuffix(CommittedText, doc)
        BY <1>9, <2>3, <3>2 DEF ShiftKey, Stands
      <4>3. IsSuffix(Append(CommittedText, Space), Append(doc, Space))
        BY <1>0, <4>2, SuffixAppend, CharTypes
      <4>4. Stands'
        BY <3>1, <4>1, <4>2, <4>3 DEF Stands
      <4> QED  BY <1>2, <2>1, <4>4
    <3>3. CASE spaceState # "PHANTOM"
      <4>1. doc' = doc /\ spaceState' = spaceState
        BY <1>9, <3>3 DEF ShiftKey
      <4>2. Stands'
        BY <2>3, <3>1, <4>1 DEF Stands
      <4> QED  BY <1>2, <2>1, <4>2
    <3> QED  BY <3>2, <3>3
  <2> QED  BY <2>1, <2>2, <2>3 DEF RevertInv
<1>10. ASSUME NEW w \in SuggestedWords, PickSuggestion(w) PROVE RevertInv'
  BY <1>1, <1>10 DEF PickSuggestion
<1>11. ASSUME NEW w \in SuggestedWords, PickInUrlField(w) PROVE RevertInv'
  <2>1. /\ lastWord' = lastWord /\ moved' = (moved /\ lastWord' = lastWord)
        /\ model = "url" /\ model' = model /\ field' = field
    BY <1>11 DEF PickInUrlField, Picked, Frame, hostVars
  <2> QED  BY <2>1 DEF RevertInv, CanRevert
<1>12. ASSUME NEW e \in Emojis, PickEmoji(e) PROVE RevertInv'
  <2> DEFINE before == IF spaceState = "PHANTOM" THEN Spaced(doc) ELSE doc
             commit == IF LooksLikeURL(before) THEN <<e>> ELSE <<e, Space>>
  <2>1. commit \in Seq(Char)
    BY CharTypes
  <2>2. /\ doc' = BeforePick \o commit /\ model' # "url"
        /\ \/ lastWord' = [active |-> TRUE, typed |-> composer.typed,
                           committed |-> commit, sep |-> <<>>]
           \/ lastWord' = NoLastWord
    BY <1>12 DEF PickEmoji, Picked, Frame, hostVars
  <2> HIDE DEF commit
  <2>3. CASE lastWord' = [active |-> TRUE, typed |-> composer.typed,
                          committed |-> commit, sep |-> <<>>]
    <3>1. lastWord'.committed = commit /\ lastWord'.sep = <<>>
      BY <2>3
    <3>2. CommittedText' = commit
      BY <2>1, <3>1, ConcatEmptySeq DEF CommittedText
    <3>3. IsSuffix(CommittedText', doc')
      BY <1>0, <2>1, <2>2, <3>2, SuffixConcat
    <3>4. Stands'
      BY <3>3 DEF Stands, IsSuffix
    <3> QED  BY <1>2, <2>2, <3>4
  <2> QED  BY <1>1, <2>2, <2>3
<1>13. ASSUME NEW text, NEW kind, HostEdit(text, kind) PROVE RevertInv'
  BY <1>13 DEF HostEdit, RevertInv
<1>14. CASE LoadKeyboard
  <2>1. /\ UNCHANGED <<doc, lastWord, moved, field>> /\ model' = field
        /\ spaceState' = spaceState \/ spaceState' = "NONE"
    BY <1>14 DEF LoadKeyboard
  <2>2. Stands => Stands'
    BY <2>1 DEF Stands, CommittedText
  <2> QED  BY <2>1, <2>2 DEF RevertInv, CanRevert
<1>15. CASE \/ IdleTimeout \/ DoubleSpaceTimeout \/ StartLookup \/ FinishLookup
            \/ UNCHANGED vars
  BY <1>3, <1>15 DEF IdleTimeout, DoubleSpaceTimeout, StartLookup, FinishLookup, textVars,
                     history, vars
<1> QED
  BY <1>5, <1>6, <1>7, <1>8, <1>9, <1>10, <1>11, <1>12, <1>13, <1>14, <1>15 DEF Next

\* The delete that reverts a correction or an emoji takes out what the commit put
\* in: nothing but the host, and one automatic space, comes behind the commit
\* while it can be reverted.
THEOREM RevertFindsCommit == Spec => []RevertTargetStands
<1>1. Init => RevertInv
  BY DEF Init, RevertInv, CanRevert, NoLastWord
<1>2. TypeOK /\ RevertInv /\ [Next]_vars => RevertInv'
  BY RevertStep
<1>3. RevertInv => RevertTargetStands
  BY DEF RevertInv, Stands, RevertTargetStands
<1> QED  BY <1>1, <1>2, <1>3, TypeCorrect, PTL DEF Spec

(***************************************************************************)
(* The repair of a word the host moved away from.                          *)
(***************************************************************************)

\* The text changed behind a word only while one is composed.
StaleComposes == stale => IsComposing(composer)

LEMMA StaleStep ==
  ASSUME TypeOK, StaleComposes, [Next]_vars
  PROVE  StaleComposes'
<1>1. ASSUME Handled \/ Picked PROVE StaleComposes'
  BY <1>1 DEF Handled, Picked, StaleComposes
<1>2. ASSUME IsComposing(composer') <=> IsComposing(composer), stale' = stale
      PROVE  StaleComposes'
  BY <1>2 DEF StaleComposes
<1>3. ASSUME NEW c, NonSeparatorKey(c) \/ SeparatorKey(c) PROVE Handled
  BY <1>3 DEF NonSeparatorKey, SeparatorKey
<1>4. ASSUME SpaceKey \/ EnterKey \/ DeleteKey \/ ShiftKey PROVE Handled
  BY <1>4 DEF SpaceKey, EnterKey, DeleteKey, ShiftKey
<1>5. ASSUME NEW w, PickSuggestion(w) \/ PickEmoji(w) \/ PickInUrlField(w) PROVE Picked
  BY <1>5 DEF PickSuggestion, PickEmoji, PickInUrlField
<1>6. CASE RawKey
  BY <1>6 DEF RawKey, StaleComposes
<1>7. ASSUME NEW text, NEW kind, HostEdit(text, kind) PROVE StaleComposes'
  BY <1>7 DEF HostEdit, StaleComposes
<1>8. CASE LoadKeyboard
  BY <1>8 DEF LoadKeyboard, StaleComposes
<1>9. CASE IdleTimeout \/ DoubleSpaceTimeout \/ StartLookup \/ UNCHANGED vars
  BY <1>2, <1>9 DEF IdleTimeout, DoubleSpaceTimeout, StartLookup, textVars, history, vars
<1>10. CASE FinishLookup
  <2>1. composer'.typed = composer.typed /\ stale' = stale
    BY <1>10 DEF FinishLookup, TypeOK, WordComposer, history
  <2> QED  BY <1>2, <2>1 DEF IsComposing
<1> QED
  BY <1>1, <1>3, <1>4, <1>5, <1>6, <1>7, <1>8, <1>9, <1>10 DEF Next

THEOREM StaleWordIsComposed == Spec => []StaleComposes
<1>1. Init => StaleComposes
  BY DEF Init, StaleComposes
<1>2. TypeOK /\ StaleComposes /\ [Next]_vars => StaleComposes'
  BY StaleStep
<1> QED  BY <1>1, <1>2, TypeCorrect, PTL DEF Spec

\* The composer holds another word than the text at the cursor, and no
\* loadKeyboard is pending that would take the right one up.
Astray == ~reload /\ ~Matches(composer, doc)

\* Only a loadKeyboard that runs during an input session, and takes nothing up,
\* leaves the composer astray: no key, pick, timer, lookup or edit of the host
\* does, and no loadKeyboard between sessions.
AstrayOnlyBySession == [][Astray' /\ ~Astray => LoadKeyboard /\ active]_vars

LEMMA AstrayStep ==
  ASSUME TypeOK, StaleComposes, ComposerMatchesText', [Next]_vars, Astray', ~Astray
  PROVE  LoadKeyboard /\ active
<1> SUFFICES ASSUME ~(LoadKeyboard /\ active) PROVE FALSE
  OBVIOUS
<1>0. /\ doc \in Seq(Char) /\ composer \in WordComposer
      /\ \A c : BeforeKey(c) \in Seq(Char)
  BY TypeParts, BeforeKeyType DEF TypeOK
<1>1. ~reload' /\ stale' /\ IsComposing(composer') /\ ~Matches(composer', doc')
  BY DEF Astray, Matches, ComposerMatchesText
<1>2. ASSUME composer'.typed = composer.typed, doc' = doc, reload' = reload PROVE FALSE
  BY <1>1, <1>2 DEF Astray, Matches, IsComposing
<1>3. ASSUME Frame PROVE doc' = doc /\ Matches(composer, doc)
  BY <1>1, <1>3 DEF Frame, Astray
<1>4. ASSUME Handled PROVE doc' = doc /\ Matches(composer, doc) /\ IsComposing(composer)
  BY <1>1, <1>3, <1>4 DEF Handled, StaleComposes
<1>5. ASSUME NEW c \in WordChars \cup Digits, NonSeparatorKey(c) PROVE FALSE
  <2>1. doc' = Append(BeforeKey(c), c) /\ doc' = doc /\ c \in Char
    BY <1>4, <1>5, CharTypes DEF NonSeparatorKey, WordChars
  <2>2. BeforeKey(c) = doc \/ BeforeKey(c) = Append(doc, Space)
    BY DEF BeforeKey, Spaced
  <2>3. Len(Append(BeforeKey(c), c)) = Len(BeforeKey(c)) + 1
    BY <1>0, <2>1, AppendProperties
  <2>4. Len(Append(doc, Space)) = Len(doc) + 1
    BY <1>0, CharTypes, AppendProperties
  <2>5. Len(doc) \in Nat
    BY <1>0, LenProperties
  <2> QED  BY <2>1, <2>2, <2>3, <2>4, <2>5
<1>6. ASSUME NEW c, SeparatorKey(c) PROVE FALSE
  BY <1>1, <1>6, CommitsEndWord DEF SeparatorKey
<1>7. CASE SpaceKey
  BY <1>1, <1>7, CommitsEndWord DEF SpaceKey
<1>8. CASE EnterKey
  BY <1>1, <1>8, EmptyNotComposing DEF EnterKey
<1>9. CASE DeleteKey
  <2>1. doc' = doc /\ IsComposing(Ready(doc)) /\ Matches(Ready(doc), doc)
    BY <1>0, <1>4, <1>9, ReadyMatches, ReadyComposes DEF DeleteKey
  <2>2. doc' = DeleteLast(doc, 1) /\ composer' = Shortened(Ready(doc))
    BY <1>9, <2>1 DEF DeleteKey
  <2> QED  BY <1>0, <1>1, <2>1, <2>2, ReadyType, ShortenedMatches
<1>10. CASE ShiftKey
  <2>1. doc' = doc /\ composer' = Ready(doc') /\ Matches(composer, doc)
    BY <1>4, <1>10 DEF ShiftKey
  <2> QED  BY <1>0, <1>1, <2>1, ReadyMatches
<1>11. CASE RawKey
  BY <1>1, <1>3, <1>11 DEF RawKey
<1>12. ASSUME NEW w, PickSuggestion(w) \/ PickInUrlField(w) PROVE FALSE
  BY <1>1, <1>12, EmptyNotComposing DEF PickSuggestion, PickInUrlField
<1>13. ASSUME NEW e, PickEmoji(e) PROVE FALSE
  <2>1. composer' = EmptyComposer \/ (~IsComposing(composer) /\ composer' = composer)
    BY <1>13 DEF PickEmoji
  <2> QED  BY <1>1, <2>1, EmptyNotComposing
<1>14. ASSUME NEW text, NEW kind, HostEdit(text, kind) PROVE FALSE
  BY <1>1, <1>14 DEF HostEdit
<1>15. CASE LoadKeyboard
  <2>1. composer' = Restarted(doc) /\ doc' = doc
    BY <1>1, <1>15, EmptyNotComposing DEF LoadKeyboard
  <2> QED  BY <1>0, <1>1, <2>1, ResumedMatches, NotComposingMatches, EmptyNotComposing
           DEF Restarted
<1>16. CASE IdleTimeout \/ DoubleSpaceTimeout \/ StartLookup \/ UNCHANGED vars
  BY <1>2, <1>16 DEF IdleTimeout, DoubleSpaceTimeout, StartLookup, textVars, vars
<1>17. CASE FinishLookup
  <2>1. composer'.typed = composer.typed /\ doc' = doc /\ reload' = reload
    BY <1>0, <1>17 DEF FinishLookup, WordComposer
  <2> QED  BY <1>2, <2>1
<1> QED
  BY <1>5, <1>6, <1>7, <1>8, <1>9, <1>10, <1>11, <1>12, <1>13, <1>14, <1>15, <1>16, <1>17
     DEF Next

\* The composer goes astray in one way: the only loadKeyboard that was pending
\* runs while the input session still ignores the host, and is not repeated.
THEOREM OnlySessionsLeaveAstray == Spec => AstrayOnlyBySession
<1>1. TypeOK /\ StaleComposes /\ ComposerMatchesText' /\ [Next]_vars
        => [Astray' /\ ~Astray => LoadKeyboard /\ active]_vars
  BY AstrayStep
<1> QED
  BY <1>1, TypeCorrect, StaleWordIsComposed, ComposerAtCursor, PTL
     DEF Spec, AstrayOnlyBySession

\* A loadKeyboard waits for the session to end.
LoadsBetweenSessions == LoadKeyboard => ~active

\* What CMInputLogic.h:60 says of moving the cursor and pasting holds where no
\* loadKeyboard runs during an input session, at every moment none is pending.
THEOREM CommentHoldsBetweenSessions ==
  Spec /\ [][LoadsBetweenSessions]_vars => []SettledComposerMatches
<1>1. Init => ~Astray
  BY EmptyNotComposing DEF Init, Astray, Matches
<1>2. TypeOK /\ StaleComposes /\ ComposerMatchesText' /\ ~Astray /\ [Next]_vars
        /\ [LoadsBetweenSessions]_vars => ~Astray'
  <2> SUFFICES ASSUME TypeOK, StaleComposes, ComposerMatchesText', ~Astray, [Next]_vars,
                      [LoadsBetweenSessions]_vars, Astray'
               PROVE  FALSE
    OBVIOUS
  <2>1. LoadKeyboard /\ active
    BY AstrayStep
  <2>2. CASE UNCHANGED vars
    BY <2>2 DEF vars, textVars, Astray, Matches, IsComposing
  <2> QED  BY <2>1, <2>2 DEF LoadsBetweenSessions
<1>3. ~Astray => SettledComposerMatches
  BY DEF Astray, Matches, SettledComposerMatches
<1> QED
  BY <1>1, <1>2, <1>3, TypeCorrect, StaleWordIsComposed, ComposerAtCursor, PTL DEF Spec

(***************************************************************************)
(* Which words are corrected.                                              *)
(***************************************************************************)
HasDigit(word) == \E i \in DOMAIN word : word[i] \in Digits

\* Words that grow by a character, or lose some.
LEMMA DigitOfAppend ==
  ASSUME NEW w \in Seq(Char), NEW c \in Char, HasDigit(Append(w, c))
  PROVE  HasDigit(w) \/ c \in Digits
<1>1. PICK i \in DOMAIN Append(w, c) : Append(w, c)[i] \in Digits
  BY DEF HasDigit
<1>2. i \in 1..(Len(w) + 1) /\ Len(w) \in Nat /\ DOMAIN w = 1..Len(w)
  BY <1>1, AppendProperties, LenProperties
<1>3. CASE i \in DOMAIN w
  <2>1. Append(w, c)[i] = w[i]
    BY <1>2, <1>3, AppendProperties
  <2> QED  BY <1>1, <1>3, <2>1 DEF HasDigit
<1>4. CASE i = Len(w) + 1
  BY <1>1, <1>4, AppendProperties
<1> QED  BY <1>2, <1>3, <1>4

LEMMA DigitOfRest ==
  ASSUME NEW w \in Seq(Char), NEW n \in Nat, HasDigit(DeleteLast(w, n))
  PROVE  HasDigit(w)
<1> DEFINE d == DeleteLast(w, n)
<1>1. PICK i \in DOMAIN d : d[i] \in Digits
  BY DEF HasDigit
<1>2. /\ d \in Seq(Char) /\ Len(d) = IF n <= Len(w) THEN Len(w) - n ELSE 0
      /\ \A j \in 1..Len(d) : d[j] = w[j]
  BY DeleteLastText
<1> HIDE DEF d
<1>3. /\ DOMAIN d = 1..Len(d) /\ Len(d) \in Nat
      /\ DOMAIN w = 1..Len(w) /\ Len(w) \in Nat
  BY <1>2, LenProperties
<1>4. Len(d) <= Len(w)
  <2>1. PICK l \in Nat, k \in Nat : Len(w) = l /\ Len(d) = k /\ k = IF n <= l THEN l - n ELSE 0
    BY <1>2, <1>3
  <2>2. k <= l
    BY <2>1
  <2> QED  BY <2>1, <2>2
<1>5. i \in 1..Len(d) /\ i \in 1..Len(w)
  BY <1>1, <1>3, <1>4
<1>6. w[i] \in Digits
  BY <1>1, <1>2, <1>5
<1> QED  BY <1>3, <1>5, <1>6 DEF HasDigit

\* The word the cursor touches is made of letters and connectors.
LEMMA TrailingWordPlain ==
  ASSUME NEW t \in Seq(Char) PROVE ~HasDigit(TrailingWord(t))
<1> DEFINE k == WordStart(t)
           w == SubSeq(t, k + 1, Len(t))
<1>1. /\ Len(t) \in Nat /\ k \in 0..Len(t)
      /\ \A j \in (k + 1)..Len(t) : t[j] \in WordChars
  BY WordStartExists, LenProperties
<1>2. \A i \in (k + 1)..Len(t) : t[i] \in Char
  BY <1>1, ElementOfSeq
<1> HIDE DEF k
<1>3. /\ w \in Seq(Char)
      /\ \A i \in 1..(Len(t) - (k + 1) + 1) : w[i] = t[(k + 1) + i - 1]
  BY <1>1, <1>2, SubSeqProperties
<1>4. Len(w) = Len(t) - k
  BY <1>1, SuffixFrom
<1>5. w = TrailingWord(t)
  BY DEF TrailingWord, k
<1> HIDE DEF w
<1>6. ASSUME NEW i \in 1..Len(w) PROVE w[i] \in WordChars
  <2>1. i \in 1..(Len(t) - (k + 1) + 1) /\ (k + 1) + i - 1 \in (k + 1)..Len(t)
    BY <1>1, <1>4
  <2> QED  BY <1>1, <1>3, <2>1
<1>7. DOMAIN w = 1..Len(w)
  BY <1>3, LenProperties
<1> QED  BY <1>5, <1>6, <1>7, CharAssumption DEF HasDigit

\* What a step other than the end of a lookup makes of the composer.
LEMMA ComposerBecomes ==
  ASSUME TypeOK, [Next]_vars, ~FinishLookup
  PROVE  \E t \in Seq(Char) :
           \/ composer' \in {composer, EmptyComposer, Ready(t), Shortened(Ready(t))}
           \/ \E c \in WordChars \cup Digits :
                composer' = Extended(Ready(t), c) \/ composer' = Extended(EmptyComposer, c)
           \/ \E u \in Seq(Char) :
                ~IsComposing(Ready(t)) /\ composer' = Resumed(Ready(t), u)
           \/ composer' = Resumed(EmptyComposer, t)
<1> DEFINE Goal ==
      \E t \in Seq(Char) :
        \/ composer' \in {composer, EmptyComposer, Ready(t), Shortened(Ready(t))}
        \/ \E c \in WordChars \cup Digits :
             composer' = Extended(Ready(t), c) \/ composer' = Extended(EmptyComposer, c)
        \/ \E u \in Seq(Char) :
             ~IsComposing(Ready(t)) /\ composer' = Resumed(Ready(t), u)
        \/ composer' = Resumed(EmptyComposer, t)
<1>0. doc \in Seq(Char) /\ \A c : BeforeKey(c) \in Seq(Char)
  BY TypeParts, BeforeKeyType DEF TypeOK
<1>1. ASSUME composer' \in {composer, EmptyComposer} PROVE Goal
  BY <1>0, <1>1
<1>2. ASSUME NEW c \in WordChars \cup Digits, NonSeparatorKey(c) PROVE Goal
  <2> DEFINE comp == Ready(BeforeKey(c))
  <2>1. composer' = CASE IsComposing(comp) -> Extended(comp, c)
                      [] ~IsComposing(comp) /\ c \in Letters -> Extended(EmptyComposer, c)
                      [] ~IsComposing(comp) /\ c \in Connectors -> EmptyComposer
                      [] OTHER -> comp
    BY <1>2 DEF NonSeparatorKey
  <2>2. composer' \in {Extended(comp, c), Extended(EmptyComposer, c), EmptyComposer, comp}
    <3> HIDE DEF comp
    <3> QED  BY <2>1
  <2> QED  BY <1>0, <2>2
<1>3. ASSUME NEW c, SeparatorKey(c) PROVE Goal
  <2>1. composer' \in {EmptyComposer, Ready(BeforeKey(c))}
    BY <1>3 DEF SeparatorKey, CommitCorrection, CommitTyped
  <2> QED  BY <1>0, <2>1
<1>4. CASE SpaceKey
  <2>1. composer' \in {EmptyComposer, Ready(doc)}
    BY <1>4 DEF SpaceKey, CommitCorrection, CommitTyped
  <2> QED  BY <1>0, <2>1
<1>5. CASE EnterKey
  BY <1>1, <1>5 DEF EnterKey
<1>6. CASE DeleteKey
  <2>1. doc' \in Seq(Char)
    BY <1>0, <1>6, TypeParts, DeleteKeyType DEF TypeOK
  <2>2. \/ composer' = Shortened(Ready(doc))
        \/ ~IsComposing(Ready(doc)) /\ composer' = Resumed(Ready(doc), doc')
    BY <1>6, Zenon DEF DeleteKey
  <2> QED  BY <1>0, <2>1, <2>2
<1>7. CASE ShiftKey
  <2> DEFINE before == IF spaceState = "PHANTOM" THEN Spaced(doc) ELSE doc
  <2>1. before \in Seq(Char) /\ composer' = Ready(before)
    BY <1>0, <1>7, SpacedText DEF ShiftKey
  <2> QED  BY <2>1
<1>8. CASE RawKey
  BY <1>1, <1>8 DEF RawKey
<1>9. ASSUME NEW w, PickSuggestion(w) \/ PickInUrlField(w) \/ PickEmoji(w) PROVE Goal
  BY <1>1, <1>9 DEF PickSuggestion, PickInUrlField, PickEmoji
<1>10. ASSUME NEW text, NEW kind, HostEdit(text, kind) PROVE Goal
  BY <1>1, <1>10 DEF HostEdit
<1>11. CASE LoadKeyboard
  <2>1. composer' \in {composer, EmptyComposer, Resumed(EmptyComposer, doc)}
    BY <1>11 DEF LoadKeyboard, Restarted
  <2> QED  BY <1>0, <2>1
<1>12. CASE IdleTimeout \/ DoubleSpaceTimeout \/ StartLookup \/ UNCHANGED vars
  BY <1>1, <1>12 DEF IdleTimeout, DoubleSpaceTimeout, StartLookup, textVars, vars
<1> QED
  BY <1>2, <1>3, <1>4, <1>5, <1>6, <1>7, <1>8, <1>9, <1>10, <1>11, <1>12 DEF Next

\* The composer counts the digits of its word, and a word looked up to be
\* corrected has none.
DigitsCounted(comp) == HasDigit(comp.typed) => comp.digits
LookupsPlain ==
  /\ DigitsCounted(composer)
  /\ lookup.eligible => ~HasDigit(lookup.word)

\* Taking up a word, for a first key or at the cursor.
LEMMA ResumedCounts ==
  ASSUME NEW comp, DigitsCounted(comp), NEW t \in Seq(Char)
  PROVE  DigitsCounted(Resumed(comp, t))
BY TrailingWordPlain DEF DigitsCounted, Resumed, EmptyComposer

LEMMA ReadyCounts ==
  ASSUME TypeOK, DigitsCounted(composer), NEW t \in Seq(Char)
  PROVE  DigitsCounted(Ready(t))
<1>1. Resumed(composer, t) \in WordComposer /\ DigitsCounted(Resumed(composer, t))
  BY ResumedType, ResumedCounts DEF TypeOK
<1>2. CASE firstInit
  <2>1. /\ Ready(t).typed = Resumed(composer, t).typed
        /\ Ready(t).digits = Resumed(composer, t).digits
    BY <1>1, <1>2 DEF Ready, WordComposer
  <2> QED  BY <1>1, <2>1 DEF DigitsCounted
<1>3. CASE ~firstInit
  BY <1>3 DEF Ready
<1> QED  BY <1>2, <1>3 DEF TypeOK

LEMMA ExtendedCounts ==
  ASSUME NEW comp \in WordComposer, DigitsCounted(comp), NEW c \in Char
  PROVE  DigitsCounted(Extended(comp, c))
<1>1. /\ comp.typed \in Seq(Char) /\ Extended(comp, c).typed = Append(comp.typed, c)
      /\ Extended(comp, c).digits = (comp.digits \/ c \in Digits)
  BY DEF Extended, WordComposer
<1> QED  BY <1>1, DigitOfAppend DEF DigitsCounted

LEMMA ShortenedCounts ==
  ASSUME NEW comp \in WordComposer, DigitsCounted(comp)
  PROVE  DigitsCounted(Shortened(comp))
<1>1. /\ comp.typed \in Seq(Char) /\ Shortened(comp).typed = DeleteLast(comp.typed, 1)
      /\ Shortened(comp).digits = comp.digits
  BY DEF Shortened, WordComposer
<1> QED  BY <1>1, DigitOfRest DEF DigitsCounted

LEMMA CountsStep ==
  ASSUME TypeOK, LookupsPlain, [Next]_vars
  PROVE  LookupsPlain'
<1>0. DigitsCounted(EmptyComposer) /\ EmptyComposer \in WordComposer /\ composer \in WordComposer
  BY EmptyComposerType DEF DigitsCounted, EmptyComposer, HasDigit, TypeOK
<1>1. CASE FinishLookup
  <2>1. composer'.typed = composer.typed /\ composer'.digits = composer.digits
    BY <1>0, <1>1 DEF FinishLookup, WordComposer
  <2>2. ~lookup'.eligible
    BY <1>1 DEF FinishLookup, Idle
  <2> QED  BY <2>1, <2>2 DEF LookupsPlain, DigitsCounted
<1>2. CASE ~FinishLookup
  <2>1. DigitsCounted(composer)'
    <3>1. PICK t \in Seq(Char) :
            \/ composer' \in {composer, EmptyComposer, Ready(t), Shortened(Ready(t))}
            \/ \E c \in WordChars \cup Digits :
                 composer' = Extended(Ready(t), c) \/ composer' = Extended(EmptyComposer, c)
            \/ \E u \in Seq(Char) :
                 ~IsComposing(Ready(t)) /\ composer' = Resumed(Ready(t), u)
            \/ composer' = Resumed(EmptyComposer, t)
      BY <1>2, ComposerBecomes
    <3>2. DigitsCounted(Ready(t)) /\ Ready(t) \in WordComposer /\ DigitsCounted(composer)
      BY ReadyCounts, ReadyType DEF LookupsPlain
    <3>3. DigitsCounted(Shortened(Ready(t)))
      BY <3>2, ShortenedCounts
    <3>4. ASSUME NEW c \in WordChars \cup Digits
          PROVE  DigitsCounted(Extended(Ready(t), c)) /\ DigitsCounted(Extended(EmptyComposer, c))
      <4>1. c \in Char
        BY CharTypes DEF WordChars
      <4> QED  BY <1>0, <3>2, <4>1, ExtendedCounts
    <3>5. \A u \in Seq(Char) : DigitsCounted(Resumed(Ready(t), u))
                               /\ DigitsCounted(Resumed(EmptyComposer, u))
      BY <1>0, <3>2, ResumedCounts
    <3>6. DigitsCounted(composer')
      BY <1>0, <3>1, <3>2, <3>3, <3>4, <3>5
    <3> QED  BY <3>6 DEF DigitsCounted
  <2>2. lookup'.eligible => ~HasDigit(lookup'.word)
    <3>1. CASE StartLookup
      BY <3>1 DEF StartLookup, LookupsPlain, DigitsCounted
    <3>2. CASE ~StartLookup
      <4>1. lookup' = lookup
        BY <1>2, <3>2 DEF Next, vars, NonSeparatorKey, SeparatorKey, SpaceKey, EnterKey,
             DeleteKey, ShiftKey, RawKey, PickSuggestion, PickEmoji, PickInUrlField, Picked,
             Handled, Frame, HostEdit, LoadKeyboard, IdleTimeout, DoubleSpaceTimeout
      <4> QED  BY <4>1 DEF LookupsPlain
    <3> QED  BY <3>1, <3>2
  <2> QED  BY <2>1, <2>2 DEF LookupsPlain
<1> QED  BY <1>1, <1>2

\* A word with a digit in it is never looked up to be corrected, though a word
\* that is resumed, or restarted by a first key, counts its digits anew.
THEOREM NoDigitsLookedUp == Spec => []LookupsPlain
<1>1. Init => LookupsPlain
  BY DEF Init, LookupsPlain, DigitsCounted, EmptyComposer, HasDigit, Idle
<1>2. TypeOK /\ LookupsPlain /\ [Next]_vars => LookupsPlain'
  BY CountsStep
<1> QED  BY <1>1, <1>2, TypeCorrect, PTL DEF Spec

\* The lookup that ends was of another word than the one composed by then, or of
\* the same letters before the cursor took them up again.
Late == FinishLookup /\ (lookup.word # composer.typed \/ composer.resumed)

\* A word with a digit, or one taken up at the cursor, comes to carry a
\* correction only by a lookup that ends too late: no edit brings a corrected
\* word into that state.
WrongWordOnlyLate ==
  [][OnlyTappedWordsCorrected /\ ~OnlyTappedWordsCorrected' => Late]_vars

\* A composer whose word may not be corrected waits for no correction.
Sound(comp) == Correctable(comp) => ~comp.resumed /\ ~HasDigit(comp.typed)

LEMMA UncorrectedSound ==
  ASSUME NEW comp, ~IsComposing(comp) \/ comp.correction = <<>> PROVE Sound(comp)
BY DEF Sound, Correctable

LEMMA ReadySound ==
  ASSUME TypeOK, Sound(composer), NEW t \in Seq(Char)
  PROVE  Sound(Ready(t))
<1>1. CASE ~firstInit
  BY <1>1 DEF Ready
<1>2. CASE firstInit /\ TrailingWord(t) = <<>>
  <2>1. /\ Ready(t).typed = composer.typed /\ Ready(t).correction = composer.correction
        /\ ~Ready(t).resumed
    BY <1>2 DEF Ready, Resumed, TypeOK, WordComposer
  <2> QED  BY <2>1 DEF Sound, Correctable, IsComposing
<1>3. CASE firstInit /\ TrailingWord(t) # <<>>
  <2>1. Ready(t).correction = <<>>
    BY <1>3 DEF Ready, Resumed, EmptyComposer
  <2> QED  BY <2>1, UncorrectedSound
<1> QED  BY <1>1, <1>2, <1>3 DEF TypeOK

LEMMA LateStep ==
  ASSUME TypeOK, LookupsPlain, [Next]_vars, Sound(composer), ~Late
  PROVE  Sound(composer')
<1>1. CASE FinishLookup
  <2>1. lookup.word = composer.typed /\ ~composer.resumed
    BY <1>1 DEF Late
  <2>2. CASE composer' = composer
    BY <2>2
  <2>3. ASSUME NEW found, lookup.eligible, composer' = [composer EXCEPT !.correction = found]
        PROVE  Sound(composer')
    <3>1. /\ composer'.typed = composer.typed /\ composer'.resumed = composer.resumed
          /\ ~HasDigit(lookup.word)
      BY <2>3 DEF LookupsPlain, TypeOK, WordComposer
    <3> QED  BY <2>1, <3>1 DEF Sound
  <2> QED  BY <1>1, <2>2, <2>3 DEF FinishLookup
<1>2. CASE ~FinishLookup
  <2>1. PICK t \in Seq(Char) :
          \/ composer' \in {composer, EmptyComposer, Ready(t), Shortened(Ready(t))}
          \/ \E c \in WordChars \cup Digits :
               composer' = Extended(Ready(t), c) \/ composer' = Extended(EmptyComposer, c)
          \/ \E u \in Seq(Char) :
               ~IsComposing(Ready(t)) /\ composer' = Resumed(Ready(t), u)
          \/ composer' = Resumed(EmptyComposer, t)
    BY <1>2, ComposerBecomes
  <2>2. Sound(Ready(t)) /\ Sound(EmptyComposer) /\ ~IsComposing(EmptyComposer)
    BY ReadySound, UncorrectedSound, EmptyNotComposing
  <2>3. ASSUME NEW comp \in WordComposer, NEW c
        PROVE  Sound(Shortened(comp)) /\ Sound(Extended(comp, c))
    BY UncorrectedSound DEF Shortened, Extended, WordComposer
  <2>4. ASSUME NEW comp, ~IsComposing(comp), NEW u PROVE Sound(Resumed(comp, u))
    BY <2>4, UncorrectedSound DEF Resumed, EmptyComposer
  <2>5. Ready(t) \in WordComposer /\ EmptyComposer \in WordComposer
    BY ReadyType, EmptyComposerType
  <2> QED  BY <2>1, <2>2, <2>3, <2>4, <2>5
<1> QED  BY <1>1, <1>2

\* What is sound is what the comment says.
LEMMA SoundIsTapped == OnlyTappedWordsCorrected <=> Sound(composer)
BY DEF OnlyTappedWordsCorrected, Sound, HasDigit

\* Wrong words get their corrections in one way: from a lookup that ends when its
\* word is composed no more.
THEOREM OnlyLateLookupsCorrectWrongly == Spec => WrongWordOnlyLate
<1>1. TypeOK /\ LookupsPlain /\ [Next]_vars
        => [OnlyTappedWordsCorrected /\ ~OnlyTappedWordsCorrected' => Late]_vars
  <2> SUFFICES ASSUME TypeOK, LookupsPlain, [Next]_vars, OnlyTappedWordsCorrected, ~Late
               PROVE  OnlyTappedWordsCorrected'
    OBVIOUS
  <2>1. Sound(composer')
    BY LateStep, SoundIsTapped
  <2> QED  BY <2>1 DEF OnlyTappedWordsCorrected, Sound, HasDigit
<1> QED  BY <1>1, TypeCorrect, NoDigitsLookedUp, PTL DEF Spec, WrongWordOnlyLate

\* The comment at CMSuggest.m:424 holds where every lookup ends while the word it
\* looked up is still the one tapped.
THEOREM CommentHoldsInTime == Spec /\ [][~Late]_vars => []OnlyTappedWordsCorrected
<1>1. Init => OnlyTappedWordsCorrected
  BY EmptyNotComposing DEF Init, OnlyTappedWordsCorrected, Correctable
<1>2. TypeOK /\ LookupsPlain /\ OnlyTappedWordsCorrected /\ [Next]_vars /\ [~Late]_vars
        => OnlyTappedWordsCorrected'
  <2> SUFFICES ASSUME TypeOK, LookupsPlain, OnlyTappedWordsCorrected, [Next]_vars, [~Late]_vars
               PROVE  OnlyTappedWordsCorrected'
    OBVIOUS
  <2>1. CASE UNCHANGED vars
    BY <2>1 DEF vars, textVars, OnlyTappedWordsCorrected, Correctable, IsComposing
  <2>2. CASE ~Late
    <3>1. Sound(composer')
      BY <2>2, LateStep, SoundIsTapped
    <3> QED  BY <3>1 DEF OnlyTappedWordsCorrected, Sound, HasDigit
  <2> QED  BY <2>1, <2>2
<1> QED  BY <1>1, <1>2, TypeCorrect, NoDigitsLookedUp, PTL DEF Spec
=============================================================================
