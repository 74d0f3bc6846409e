----------------------------- MODULE InputLogic -----------------------------
(***************************************************************************)
(* The editing core of the keyboard extension: CMInputLogic with its       *)
(* CMWordComposer and LastComposedWord, driven by the key, suggestion and  *)
(* text-change callbacks of KeyboardViewController.                        *)
(*                                                                         *)
(* Key events, picks, timers and loadKeyboard all run on the main thread,  *)
(* one after the other, so each is one action.  What interleaves with them *)
(* is the host application (HostEdit), the run-loop timers, and the        *)
(* suggestion operation, which reads the word composer on a background     *)
(* queue (StartLookup) and writes its correction later (FinishLookup).     *)
(*                                                                         *)
(* Text is a sequence of characters, and a character is a member of one of *)
(* the classes CMSpacingAndPunctuations and Character distinguish.  Shift  *)
(* case, learning, gestures and the suggestion strip are other modules'.   *)
(*                                                                         *)
(* An operator named X_Flaw is X with a plausible slip of the code; the    *)
(* properties are tried against it in X's place.                           *)
(***************************************************************************)
EXTENDS Integers, Sequences

CONSTANTS
  Letters,          \* isWordCodePoint, part of a composition
  Connectors,       \* isWordConnector: part of a word, but cannot start one
  Digits,           \* neither separate words nor start one
  Separators,       \* isWordSeparator, Space and Newline apart
  ClosingMarks,     \* separators usually followed, and not preceded, by a space
  OtherSymbols,     \* [Character getType:] = OTHER_SYMBOL, emoji included
  Emojis,           \* the keys of type CMKeyTypeEmoji among them
  Space, Newline, Period,
  NotBeforePeriod,  \* what a double tap on space never turns into "x. "
  DoubleSpacePeriod,\* the user's useDoubleSpacePeriod setting
  Kinds,            \* the kinds of text fields the host shows
  AutoCorrect,      \* the words the suggester corrects, each with its correction
  LooksLikeURL(_),  \* lastPartLooksLikeURL
  SuggestedWords,   \* words the strip offers
  HostTexts,        \* texts before the cursor the host may switch to
  MaxText,          \* bound on the text before the cursor and the composed word
  MaxTapTimers      \* bound on the pending double-tap timers

WordChars == Letters \cup Connectors
Char == WordChars \cup Digits \cup Separators \cup OtherSymbols \cup {Space, Newline}
FieldKind == {"text", "noauto", "url"}

ASSUME CharAssumption ==
  /\ Period \in ClosingMarks
  /\ ClosingMarks \subseteq Separators
  /\ Emojis \subseteq OtherSymbols
  /\ WordChars \cap (Digits \cup Separators \cup OtherSymbols \cup {Space, Newline}) = {}
  /\ Digits \cap (Separators \cup OtherSymbols \cup {Space, Newline}) = {}
ASSUME SettingAssumption ==
  /\ DoubleSpacePeriod \in BOOLEAN
  /\ Kinds \subseteq FieldKind /\ Kinds # {}
ASSUME TextAssumption ==
  /\ SuggestedWords \subseteq Seq(Char) \ {<<>>}
  /\ HostTexts \subseteq Seq(Char)
  /\ \A w \in DOMAIN AutoCorrect : AutoCorrect[w] \in Seq(Char) \ {<<>>}
\* A word ends in no space, and only the space bar types one.
ASSUME SpaceAssumption ==
  /\ Space \notin Separators \cup OtherSymbols \cup {Newline}
  /\ \A w \in SuggestedWords : w[Len(w)] # Space
  /\ \A w \in DOMAIN AutoCorrect : AutoCorrect[w][Len(AutoCorrect[w])] # Space
ASSUME BoundAssumption == MaxText \in Nat /\ MaxTapTimers \in Nat

VARIABLES
  doc,        \* the text before the cursor, as the proxy reports it
  composer,   \* CMWordComposer
  lastWord,   \* lastComposeWord: what a backspace may still revert
  spaceState, \* mSpaceState
  spaceTap,   \* mIsInDoubleSpaceKey
  tapTimers,  \* pending doubleTapSpaceKey timers
  active,     \* _isActiveInput
  idleTimer,  \* a delayed setIsActiveInput:NO is pending
  firstInit,  \* no key has been handled yet
  field,      \* the kind of the field the host shows
  model,      \* currentInputModel: the kind the keyboard believes in
  reload,     \* a delayed loadKeyboard is pending
  lookup,     \* the running suggestion operation
  (* history, read by properties only *)
  stale,      \* text changed behind the word being composed
  moved,      \* the host changed the text since lastWord was committed
  drifted     \* text changed behind spaceState

textVars == <<doc, composer, lastWord, spaceState>>
tapVars == <<spaceTap, tapTimers>>
sessionVars == <<active, idleTimer>>
hostVars == <<field, model>>
history == <<stale, moved, drifted>>
vars == <<textVars, tapVars, sessionVars, firstInit, hostVars, reload, lookup, history>>

-----------------------------------------------------------------------------
(* Text helpers.                                                           *)

\* deleteTextBeforeCursor: deleting at the start of the text does nothing.
DeleteLast(text, n) == SubSeq(text, 1, Len(text) - n)

IsSuffix(word, text) ==
  /\ Len(word) <= Len(text)
  /\ word = SubSeq(text, Len(text) - Len(word) + 1, Len(text))

\* The word the cursor touches: the longest run of word characters at its left.
WordStart(text) ==
  CHOOSE i \in 0..Len(text) :
    /\ \A j \in (i + 1)..Len(text) : text[j] \in WordChars
    /\ i > 0 => text[i] \notin WordChars
TrailingWord(text) == SubSeq(text, WordStart(text) + 1, Len(text))

\* insertAutomaticSpaceIfOptionsAndTextAllow
Spaced(text) == IF LooksLikeURL(text) THEN text ELSE Append(text, Space)

-----------------------------------------------------------------------------
(* The word composer and the last composed word.                           *)

WordComposer == [typed : Seq(Char), correction : Seq(Char),
                 resumed : BOOLEAN, digits : BOOLEAN]
LastComposedWord == [active : BOOLEAN, typed : Seq(Char), committed : Seq(Char),
                     sep : Seq(Char)]
SpaceState == {"NONE", "DOUBLE", "WEAK", "PHANTOM"}

EmptyComposer ==
  [typed |-> <<>>, correction |-> <<>>, resumed |-> FALSE, digits |-> FALSE]

IsComposing(comp) == comp.typed # <<>>

\* applyProcessedEvent of a character key
Extended(comp, c) ==
  [comp EXCEPT !.typed = Append(@, c), !.correction = <<>>,
               !.digits = @ \/ c \in Digits]

\* applyProcessedEvent of the delete key: the digit count is not taken back
Shortened(comp) ==
  [comp EXCEPT !.typed = DeleteLast(@, 1), !.correction = <<>>]

\* restartSuggestionsOnWordTouchedByCursor: only a non-empty word is taken up
Resumed(comp, text) ==
  IF TrailingWord(text) = <<>> THEN comp
  ELSE [EmptyComposer EXCEPT !.typed = TrailingWord(text), !.resumed = TRUE]

\* The composer a key finds: the first key of a keyboard takes up the word
\* before the cursor as if it had been tapped.
Ready(text) ==
  IF firstInit THEN [Resumed(composer, text) EXCEPT !.resumed = FALSE]
               ELSE composer

\* nil, and what a deactivated LastComposedWord is worth
NoLastWord == [active |-> FALSE, typed |-> <<>>, committed |-> <<>>, sep |-> <<>>]

CanRevert ==
  /\ lastWord.active
  /\ lastWord.committed # <<>>
  /\ lastWord.typed # lastWord.committed

\* The word a suggestion operation looks up, and whether it may be corrected.
Lookup == [word : Seq(Char), eligible : BOOLEAN]
Idle == [word |-> <<>>, eligible |-> FALSE]
-----------------------------------------------------------------------------
(* What every input handler does around its own work: beginInput cancels   *)
(* the pending end of the session and endInput schedules a new one; a      *)
(* change of the text makes the host call textDidChange, which (re)arms    *)
(* the delayed loadKeyboard.                                               *)
Frame ==
  /\ reload' = (reload \/ doc' # doc)
  /\ Len(doc') <= MaxText /\ Len(composer'.typed) <= MaxText
  /\ moved' = (moved /\ lastWord' = lastWord)
  /\ UNCHANGED <<hostVars, lookup>>

Session_NoEnd == active' = TRUE /\ idleTimer' = FALSE
Session == active' = TRUE /\ idleTimer' = TRUE

\* onCodeInput passes the key on to the handlers, else it only commits it.
Handled ==
  /\ model = "text"
  /\ firstInit' = FALSE
  /\ stale' = (stale /\ IsComposing(composer'))
  /\ drifted' = (drifted /\ spaceState' = spaceState)
  /\ Frame

-----------------------------------------------------------------------------
(* onCodeInput, one action per kind of key.                                *)

\* The text a key finds: a pending phantom space becomes real before any key
\* that is not a word separator.
BeforeKey(c) ==
  IF spaceState = "PHANTOM" /\ c \notin Separators THEN Spaced(doc) ELSE doc
SpaceStateBeforeKey_Kept(c) == spaceState
SpaceStateBeforeKey(c) ==
  IF spaceState = "PHANTOM" /\ c \notin Separators THEN "NONE" ELSE spaceState

\* A key that corrects nothing ends the chance to revert.
LastWordAfterKey_Kept == lastWord
LastWordAfterKey == NoLastWord

\* handleNonSeparatorEvent
NonSeparatorKey(c) ==
  LET comp == Ready(BeforeKey(c)) IN
  /\ Session
  /\ doc' = Append(BeforeKey(c), c)
  /\ composer' = CASE IsComposing(comp)   -> Extended(comp, c)
                   [] ~IsComposing(comp) /\ c \in Letters    -> Extended(EmptyComposer, c)
                   [] ~IsComposing(comp) /\ c \in Connectors -> EmptyComposer
                   [] OTHER -> comp
  /\ spaceState' = SpaceStateBeforeKey(c)
  /\ lastWord' = LastWordAfterKey
  /\ UNCHANGED tapVars
  /\ Handled

\* The autocorrection branch of handleSeparatorEvent: the correction replaces
\* the typed word, the separator itself is not committed by onCodeInput.
CommitCorrection_NoMark(comp, before, sep, trailing) ==
  /\ doc' = DeleteLast(before, Len(comp.typed)) \o comp.correction
  /\ composer' = EmptyComposer
  /\ lastWord' = [active |-> TRUE, typed |-> comp.typed,
                  committed |-> comp.correction, sep |-> sep]
  /\ spaceState' = "PHANTOM"
CommitCorrection_DeletesMore(comp, before, sep, trailing) ==
  /\ doc' = DeleteLast(before, Len(comp.typed) + 1) \o comp.correction \o trailing
  /\ composer' = EmptyComposer
  /\ lastWord' = [active |-> TRUE, typed |-> comp.typed,
                  committed |-> comp.correction, sep |-> sep]
  /\ spaceState' = "PHANTOM"
CommitCorrection(comp, before, sep, trailing) ==
  /\ doc' = DeleteLast(before, Len(comp.typed)) \o comp.correction \o trailing
  /\ composer' = EmptyComposer
  /\ lastWord' = [active |-> TRUE, typed |-> comp.typed,
                  committed |-> comp.correction, sep |-> sep]
  /\ spaceState' = "PHANTOM"

\* Its other branches: the word stands as typed and the key follows it.
CommitTyped_StillComposing(comp, before, c, space) ==
  /\ doc' = Append(before, c)
  /\ composer' = comp
  /\ lastWord' = NoLastWord
  /\ spaceState' = space
CommitTyped(comp, before, c, space) ==
  /\ doc' = Append(before, c)
  /\ composer' = IF IsComposing(comp) THEN EmptyComposer ELSE comp
  /\ lastWord' = NoLastWord
  /\ spaceState' = space

Correctable(comp) == IsComposing(comp) /\ comp.correction # <<>>

\* handleSeparatorEvent for a separator or symbol other than the space.  After
\* a correction only a closing mark is committed, by the swap branch.
SeparatorKey(c) ==
  LET comp == Ready(BeforeKey(c)) IN
  /\ Session
  /\ IF Correctable(comp) /\ c \notin Emojis
     THEN CommitCorrection(comp, BeforeKey(c), <<c>>,
                           IF c \in ClosingMarks THEN <<c>> ELSE <<>>)
     ELSE CommitTyped(comp, BeforeKey(c), c, SpaceStateBeforeKey(c))
  /\ UNCHANGED tapVars
  /\ Handled

\* tryPerformDoubleSpacePeriod
PeriodAllowed(text) ==
  /\ Len(text) >= 2
  /\ text[Len(text)] = Space
  /\ text[Len(text) - 1] \notin NotBeforePeriod

\* onCodeInput drops a phantom space before a space key.
SpaceStateAfterSpace_Kept(doubled) == IF doubled THEN "DOUBLE" ELSE spaceState
SpaceStateAfterSpace(doubled) == IF doubled THEN "DOUBLE" ELSE "NONE"

\* detectDoubleSpaceTapped.  The successful second tap leaves the timer of the
\* first one running; every other second tap cancels all of them.
DetectDoubleSpaceTapped_StillOpen(doubled) ==
  IF ~DoubleSpacePeriod THEN UNCHANGED tapVars
  ELSE /\ spaceTap' = ~doubled
       /\ tapTimers' = CASE ~spaceTap -> tapTimers + 1
                         [] doubled   -> tapTimers
                         [] OTHER     -> 0
       /\ tapTimers' <= MaxTapTimers
DetectDoubleSpaceTapped(doubled) ==
  IF ~DoubleSpacePeriod THEN UNCHANGED tapVars
  ELSE /\ spaceTap' = ~spaceTap
       /\ tapTimers' = CASE ~spaceTap -> tapTimers + 1
                         [] doubled   -> tapTimers
                         [] OTHER     -> 0
       /\ tapTimers' <= MaxTapTimers

\* The space: the tap is looked at first, then the word is closed.
SpaceKey ==
  LET comp    == Ready(doc)
      doubled == DoubleSpacePeriod /\ spaceTap /\ PeriodAllowed(doc)
      before  == IF doubled THEN Append(DeleteLast(doc, 1), Period) ELSE doc
  IN
  /\ Session
  /\ DetectDoubleSpaceTapped(doubled)
  /\ IF Correctable(comp)
     THEN CommitCorrection(comp, before, <<>>, <<>>)
     ELSE CommitTyped(comp, before, Space, SpaceStateAfterSpace(doubled))
  /\ Handled

\* The return key ends the input session, so that the text change it causes
\* is not ignored; the delayed end of endInput is scheduled all the same.
EnterKey ==
  /\ active' = FALSE /\ idleTimer' = TRUE
  /\ doc' = Append(doc, Newline)
  /\ composer' = EmptyComposer
  /\ lastWord' = LastWordAfterKey
  /\ UNCHANGED <<spaceState, tapVars>>
  /\ Handled

\* handleBackspaceEvent
DeleteKey ==
  LET comp == Ready(doc)
      reverted == DeleteLast(doc, Len(lastWord.committed) + Len(lastWord.sep))
                    \o lastWord.typed \o lastWord.sep
  IN
  /\ Session
  /\ spaceState' = "NONE"
  /\ lastWord' = NoLastWord
  /\ \/ /\ IsComposing(comp)
        /\ doc' = DeleteLast(doc, 1)
        /\ composer' = Shortened(comp)
     \/ /\ ~IsComposing(comp) /\ CanRevert
        /\ doc' = reverted
        /\ composer' = Resumed(comp, reverted)
     \/ /\ ~IsComposing(comp) /\ ~CanRevert
        /\ doc' = DeleteLast(doc, 1)
        /\ composer' = Resumed(comp, DeleteLast(doc, 1))
  /\ UNCHANGED tapVars
  /\ Handled

\* The shift key commits nothing and leaves the last word revertable, but it
\* is no separator: a phantom space becomes real under it.
ShiftKey ==
  LET before == IF spaceState = "PHANTOM" THEN Spaced(doc) ELSE doc IN
  /\ Session
  /\ doc' = before
  /\ composer' = Ready(before)
  /\ spaceState' = IF spaceState = "PHANTOM" THEN "NONE" ELSE spaceState
  /\ UNCHANGED <<lastWord, tapVars>>
  /\ Handled

\* A key in a field without autocorrection, or for URLs and addresses: it is
\* committed as it is, and the composer does not see it.
RawKey ==
  /\ model # "text"
  /\ \/ \E c \in Char : doc' = Append(doc, c)
     \/ doc' = DeleteLast(doc, 1)
  /\ lastWord' = LastWordAfterKey
  /\ stale' = IsComposing(composer) /\ drifted' = TRUE
  /\ UNCHANGED <<composer, spaceState, tapVars, firstInit>>
  /\ Session
  /\ Frame
-----------------------------------------------------------------------------
(* onPickSuggestionManually.                                               *)

Picked ==
  /\ stale' = (stale /\ IsComposing(composer'))
  /\ drifted' = (drifted /\ spaceState' = spaceState)
  /\ Frame
  /\ UNCHANGED <<tapVars, firstInit>>

\* The text a pick finds, the word being composed taken out of it.
BeforePick_DeletesMore ==
  DeleteLast(IF spaceState = "PHANTOM" THEN Spaced(doc) ELSE doc,
             Len(composer.typed) + 1)
BeforePick ==
  DeleteLast(IF spaceState = "PHANTOM" THEN Spaced(doc) ELSE doc, Len(composer.typed))

\* A word from the strip takes the place of the word being composed, and owes
\* the text a phantom space.
PickSuggestion(word) ==
  /\ model # "url"
  /\ Session
  /\ doc' = BeforePick \o word
  /\ composer' = IF IsComposing(composer) THEN EmptyComposer ELSE composer
  /\ lastWord' = NoLastWord
  /\ spaceState' = "PHANTOM"
  /\ Picked

\* insertAutomaticSpaceIfOptionsAndTextAllow:(NSString*)word
SpaceStateAfterEmoji(before) == IF LooksLikeURL(before) THEN spaceState ELSE "WEAK"

\* An emoji brings its own space, and alone remains revertable.
PickEmoji(e) ==
  LET before == IF spaceState = "PHANTOM" THEN Spaced(doc) ELSE doc
      commit == IF LooksLikeURL(before) THEN <<e>> ELSE <<e, Space>>
  IN
  /\ model # "url"
  /\ Session
  /\ doc' = BeforePick \o commit
  /\ IF IsComposing(composer)
     THEN /\ composer' = EmptyComposer
          /\ lastWord' = [active |-> TRUE, typed |-> composer.typed,
                          committed |-> commit, sep |-> <<>>]
     ELSE /\ lastWord' = NoLastWord
          /\ UNCHANGED composer
  /\ spaceState' = SpaceStateAfterEmoji(before)
  /\ Picked

\* In a field for URLs and addresses the word is appended to what is typed,
\* and the early return leaves the input session open.
PickInUrlField(word) ==
  /\ model = "url"
  /\ active' = TRUE /\ idleTimer' = FALSE
  /\ doc' = doc \o word
  /\ composer' = EmptyComposer
  /\ UNCHANGED <<lastWord, spaceState>>
  /\ Picked

-----------------------------------------------------------------------------
(* The host application and the run-loop timers.                           *)

\* The user moves the cursor, pastes, or enters another field.
HostEdit(text, kind) ==
  /\ doc' = text /\ field' = kind
  /\ reload' = TRUE
  /\ stale' = IsComposing(composer)
  /\ moved' = TRUE /\ drifted' = TRUE
  /\ UNCHANGED <<composer, lastWord, spaceState, tapVars, sessionVars, firstInit,
                 model, lookup>>

\* The composer is reset before it takes up the word at the cursor.
Restarted_NotReset(text) == Resumed(composer, text)
Restarted(text) == Resumed(EmptyComposer, text)

\* loadKeyboard, which takes the word at the cursor up again; during an input
\* session restartSuggestions... returns at once.
LoadKeyboard ==
  /\ reload
  /\ reload' = FALSE
  /\ model' = field
  /\ IF active
     THEN UNCHANGED <<composer, spaceState, stale>>
     ELSE /\ stale' = FALSE
          /\ \/ /\ field = "noauto"
                /\ composer' = EmptyComposer
                /\ UNCHANGED spaceState
             \/ /\ field # "noauto"
                /\ composer' = Restarted(doc)
                /\ spaceState' = "NONE"
  /\ UNCHANGED <<doc, lastWord, tapVars, sessionVars, firstInit, field, lookup, moved,
                 drifted>>

\* The delayed setIsActiveInput:NO of endInput.
IdleTimeout ==
  /\ idleTimer
  /\ active' = FALSE /\ idleTimer' = FALSE
  /\ UNCHANGED <<textVars, tapVars, firstInit, hostVars, reload, lookup, history>>

\* One of the delayed doubleTapSpaceKey calls.
DoubleSpaceTimeout_Unguarded ==
  /\ tapTimers' = tapTimers - 1
  /\ spaceTap' = FALSE
  /\ UNCHANGED <<textVars, sessionVars, firstInit, hostVars, reload, lookup, history>>
DoubleSpaceTimeout ==
  /\ tapTimers > 0
  /\ tapTimers' = tapTimers - 1
  /\ spaceTap' = FALSE
  /\ UNCHANGED <<textVars, sessionVars, firstInit, hostVars, reload, lookup, history>>

-----------------------------------------------------------------------------
(* The suggestion operation: getSuggestedWordsForNonBatchInput... takes its *)
(* copy of the composer when it starts, off the main thread.  What it found *)
(* is written to the live composer, whatever that composes by then: no word *)
(* where the list of suggestions is shorter than its index.                 *)

StartLookup ==
  /\ lookup = Idle
  /\ model # "url"
  /\ IsComposing(composer)
  /\ lookup' = [word |-> composer.typed,
                eligible |-> ~composer.resumed /\ ~composer.digits]
  /\ UNCHANGED <<textVars, tapVars, sessionVars, firstInit, hostVars, reload, history>>

FinishLookup ==
  /\ lookup # Idle
  /\ lookup' = Idle
  /\ IF lookup.eligible /\ lookup.word \in DOMAIN AutoCorrect
     THEN \E found \in {AutoCorrect[lookup.word], <<>>} :
            composer' = [composer EXCEPT !.correction = found]
     ELSE UNCHANGED composer
  /\ UNCHANGED <<doc, lastWord, spaceState, tapVars, sessionVars, firstInit, hostVars,
                 reload, history>>

-----------------------------------------------------------------------------
Init ==
  /\ doc \in HostTexts
  /\ composer = EmptyComposer /\ lastWord = NoLastWord /\ spaceState = "NONE"
  /\ spaceTap = FALSE /\ tapTimers = 0
  /\ active = FALSE /\ idleTimer = FALSE
  /\ firstInit = TRUE
  /\ field \in Kinds /\ model = field /\ reload = FALSE
  /\ lookup = Idle
  /\ stale = FALSE /\ moved = FALSE /\ drifted = FALSE

Next ==
  \/ \E c \in WordChars \cup Digits : NonSeparatorKey(c)
  \/ \E c \in Separators \cup OtherSymbols : SeparatorKey(c)
  \/ SpaceKey \/ EnterKey \/ DeleteKey \/ ShiftKey \/ RawKey
  \/ \E w \in SuggestedWords : PickSuggestion(w) \/ PickInUrlField(w)
  \/ \E e \in Emojis : PickEmoji(e)
  \/ \E text \in HostTexts, kind \in Kinds : HostEdit(text, kind)
  \/ LoadKeyboard \/ IdleTimeout \/ DoubleSpaceTimeout
  \/ StartLookup \/ FinishLookup

Spec == Init /\ [][Next]_vars

-----------------------------------------------------------------------------
(* Properties.                                                             *)

\* Every variable stays in its range.
TypeOK ==
  /\ doc \in Seq(Char)
  /\ composer \in WordComposer
  /\ lastWord \in LastComposedWord
  /\ spaceState \in SpaceState
  /\ spaceTap \in BOOLEAN /\ tapTimers \in Nat
  /\ active \in BOOLEAN /\ idleTimer \in BOOLEAN /\ firstInit \in BOOLEAN
  /\ field \in Kinds /\ model \in Kinds /\ reload \in BOOLEAN
  /\ lookup \in Lookup
  /\ stale \in BOOLEAN /\ moved \in BOOLEAN /\ drifted \in BOOLEAN

\* The word the composer holds is the word at the cursor, unless the host, or
\* a key the composer was not told of, changed the text behind it: the edits
\* of CMInputLogic and the commits of the view controller stay in step.
ComposerMatchesText ==
  IsComposing(composer) /\ ~stale => IsSuffix(composer.typed, doc)

\* A phantom space is owed between words only: while a word is composed, no
\* key and no pick inserts a space into it.
PhantomOnlyBetweenWords == IsComposing(composer) => spaceState # "PHANTOM"

\* The automatic space never lands behind another one: where a phantom space
\* is owed, the text does not end with a space, whatever separators, deletes
\* and picks came since.
SpaceOwedOnce ==
  spaceState = "PHANTOM" /\ ~drifted /\ doc # <<>> => doc[Len(doc)] # Space

\* What the revert of handleBackspaceEvent takes out is what the commit put
\* in: as long as a commit can be reverted and the host left the text alone,
\* the committed word with its closing mark still ends the text, but for one
\* automatic space the shift key may have added.  (In a field for URLs nothing
\* is reverted, and a pick adds to the text.)
CommittedText ==
  lastWord.committed \o (IF \E c \in ClosingMarks : lastWord.sep = <<c>>
                         THEN lastWord.sep ELSE <<>>)
RevertTargetStands ==
  CanRevert /\ ~moved /\ model # "url" =>
    \/ IsSuffix(CommittedText, doc)
    \/ IsSuffix(Append(CommittedText, Space), doc)

\* An open double-tap window is always about to close: detectDoubleSpaceTapped
\* never cancels the timer of a window it leaves open.
TapWindowCloses == spaceTap => tapTimers > 0

\* A session that ignores the host's text changes is always about to end.
\* PickInUrlField breaks this, so it is checked for the other fields.
ActiveInputEnds == active => idleTimer

\* Whatever a key, a correction or a pick does to the word being composed, the
\* text before that word is not touched.
TextBeforeWordKept ==
  [][IsComposing(composer) /\ ~stale /\ ~stale' =>
       LET before == DeleteLast(doc, Len(composer.typed)) IN
       before = SubSeq(doc', 1, Len(before))]_vars

-----------------------------------------------------------------------------
(* What the comments of the code say, and the code does not keep.          *)

\* CMSuggest.m:424-426 exclude words with digits and words not tapped from
\* correction: no such word ever carries one.
OnlyTappedWordsCorrected ==
  Correctable(composer) =>
    /\ ~composer.resumed
    /\ \A i \in DOMAIN composer.typed : composer.typed[i] \notin Digits

\* CMInputLogic.h:60 says that moving the cursor and pasting go through
\* restartSuggestionsOnWordTouchedByCursor...: once every pending call is done,
\* the word being composed is the one at the cursor.
SettledComposerMatches ==
  ~active /\ ~reload /\ IsComposing(composer) => IsSuffix(composer.typed, doc)
=============================================================================
