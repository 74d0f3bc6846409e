---------------------------- MODULE GestureInput ----------------------------
(***************************************************************************)
(* Gestures: a word drawn in one stroke over the keys.  CMBaseKeyboardView *)
(* follows the finger, CMInputLogic begins and ends the stroke on the main *)
(* thread, and an operation of the suggestion queue looks the stroke up and *)
(* writes the word: first to the composer, then to the text.  Keys, picks, *)
(* the host and the next stroke come between any two of these steps.       *)
(*                                                                         *)
(* The module adds the stroke to InputLogic, whose handlers are taken as   *)
(* they are, with what each does to the composer's stroke besides.         *)
(***************************************************************************)
EXTENDS InputLogic

CONSTANT GestureWords  \* the words the decoder may find in a stroke

\* A connector does not start a word, a letter does.  Strokes and the double
\* tap on space know nothing of each other: the setting is off here, and its
\* window stays closed.
ASSUME GestureAssumption ==
  /\ GestureWords \subseteq Seq(Char) \ {<<>>}
  /\ Letters \cap Connectors = {}
  /\ ~DoubleSpacePeriod

VARIABLES
  batch,     \* isBatchMode of the composer
  points,    \* its inputPointers are those of a stroke
  drawing,   \* isInBatchInput: the finger is on a stroke
  asked,     \* the lookup of an ended stroke waits for its queue
  decoding,  \* the running lookup in batch mode
  (* history, read by properties only *)
  unseen,    \* the text changed behind the composer, composing or not
  fit,       \* nothing came between the start of the last stroke and now
  left       \* the session was left open: a stroke given up, a pick in a URL field

strokeVars == <<batch, points>>
searchVars == <<asked, decoding>>
gestureVars == <<vars, strokeVars, drawing, searchVars, unseen, fit, left>>

-----------------------------------------------------------------------------
(* What the handlers of the composer do to its stroke.                     *)

\* reset, and everything that begins with it
Forgets == batch' = FALSE /\ points' = FALSE

ForgetsIf(cond) == IF cond THEN Forgets ELSE UNCHANGED strokeVars

\* applyProcessedEvent ends the batch mode, the points stay
LeavesBatch == batch' = FALSE /\ UNCHANGED points

\* the first key takes up the word before the cursor
TakesUp(text) == firstInit /\ TrailingWord(text) # <<>>

\* Any change of the text or of the composed word comes between a stroke and
\* its word.
Between == fit' = (fit /\ doc' = doc /\ composer'.typed = composer.typed)

Search == [at : {"none", "search", "set", "commit"}, commits : BOOLEAN,
           word : Seq(Char)]
NoSearch == [at |-> "none", commits |-> FALSE, word |-> <<>>]

\* What a lookup in batch mode may find: without the points of a stroke nothing
Findings == IF points THEN GestureWords \cup {<<>>} ELSE {<<>>}

-----------------------------------------------------------------------------
(* The stroke.                                                             *)

\* What is composed, or owed, is closed by a space before the stroke.
SetApart_NotReset ==
  IF IsComposing(composer) \/ spaceState = "PHANTOM"
  THEN doc' = Spaced(doc) /\ spaceState' = "NONE" /\ UNCHANGED <<composer, points>>
  ELSE UNCHANGED <<composer, doc, spaceState, points>>
SetApart_NotOwed ==
  IF IsComposing(composer)
  THEN /\ composer' = EmptyComposer /\ points' = FALSE
       /\ doc' = Spaced(doc) /\ spaceState' = "NONE"
  ELSE UNCHANGED <<composer, doc, spaceState, points>>
SetApart_StillOwed ==
  IF IsComposing(composer) \/ spaceState = "PHANTOM"
  THEN /\ composer' = EmptyComposer /\ points' = FALSE
       /\ doc' = Spaced(doc) /\ UNCHANGED spaceState
  ELSE UNCHANGED <<composer, doc, spaceState, points>>
SetApart ==
  IF IsComposing(composer) \/ spaceState = "PHANTOM"
  THEN /\ composer' = EmptyComposer /\ points' = FALSE
       /\ doc' = Spaced(doc) /\ spaceState' = "NONE"
  ELSE UNCHANGED <<composer, doc, spaceState, points>>

\* onStartBatchInput
StartGesture ==
  /\ model = "text" /\ ~drawing
  /\ drawing' = TRUE
  /\ active' = TRUE /\ idleTimer' = FALSE
  /\ batch' = TRUE
  /\ SetApart
  /\ stale' = (stale /\ IsComposing(composer'))
  /\ drifted' = (drifted /\ spaceState' = spaceState)
  /\ fit' = ~unseen
  /\ UNCHANGED <<lastWord, tapVars, firstInit, searchVars, unseen, left>>
  /\ Frame

\* onEndBatchInput
EndBatchInput_Open == batch' = TRUE /\ points' = TRUE /\ UNCHANGED idleTimer
EndBatchInput == batch' = TRUE /\ points' = TRUE /\ idleTimer' = TRUE

\* The finger is lifted; the lookup is only asked for when the keyboard is laid
\* out, and takes the place of one still asked for.
EndGesture ==
  /\ drawing /\ model = "text"
  /\ drawing' = FALSE
  /\ EndBatchInput
  /\ asked' \in {asked, TRUE}
  /\ left' = FALSE
  /\ UNCHANGED <<textVars, tapVars, active, firstInit, hostVars, reload, lookup,
                 history, decoding, unseen, fit>>

\* The finger leaves the keys: isInBatchInput goes, and onCancelBatchInput,
\* which would end the session, is not called.
Abandon ==
  /\ drawing
  /\ drawing' = FALSE
  /\ left' = TRUE /\ fit' = FALSE
  /\ UNCHANGED <<vars, strokeVars, searchVars, unseen>>

-----------------------------------------------------------------------------
(* The lookup of a stroke.                                                 *)

\* The operation starts: in batch mode it copies the stroke, else it is an
\* ordinary lookup, whose answer holds no typedWordInfo to commit.
StartDecode ==
  /\ asked /\ lookup = Idle /\ decoding = NoSearch
  /\ asked' = FALSE
  /\ IF batch
     THEN /\ \E w \in Findings :
               decoding' = [at |-> "search", commits |-> TRUE, word |-> w]
          /\ UNCHANGED lookup
     ELSE /\ lookup' = IF IsComposing(composer)
                       THEN [word |-> composer.typed,
                             eligible |-> ~composer.resumed /\ ~composer.digits]
                       ELSE Idle
          /\ UNCHANGED decoding
  /\ UNCHANGED <<textVars, tapVars, sessionVars, firstInit, hostVars, reload, history,
                 strokeVars, drawing, unseen, fit, left>>

\* An update of the strip cancels it, or another stroke or an operation that
\* ends and takes self.op for itself.
DropDecode ==
  /\ asked /\ asked' = FALSE
  /\ UNCHANGED <<vars, strokeVars, drawing, decoding, unseen, fit, left>>

\* An update of the strip in batch mode looks the same stroke up, for the
\* strip only.
StartUpdate ==
  /\ batch /\ model # "url" /\ lookup = Idle /\ decoding = NoSearch
  /\ \E w \in Findings : decoding' = [at |-> "search", commits |-> FALSE, word |-> w]
  /\ UNCHANGED <<vars, strokeVars, drawing, asked, unseen, fit, left>>

\* The completion: willAutoCorrect is NO, which is 0 and not -1, so that the
\* first word found becomes the correction of whatever is composed now.
Answer ==
  /\ decoding.at = "search"
  /\ composer' = [composer EXCEPT !.correction = decoding.word]
  /\ decoding' = IF decoding.commits /\ decoding.word # <<>>
                 THEN [decoding EXCEPT !.at = "set"] ELSE NoSearch
  /\ UNCHANGED <<doc, lastWord, spaceState, tapVars, sessionVars, firstInit, hostVars,
                 reload, lookup, history, strokeVars, drawing, asked, unseen, fit, left>>

\* setbatchInputWord: the composer holds the word before the text does.
SetWord ==
  /\ decoding.at = "set"
  /\ composer' = [typed |-> decoding.word, correction |-> <<>>, resumed |-> FALSE,
                  digits |-> \E i \in DOMAIN decoding.word : decoding.word[i] \in Digits]
  /\ batch' = TRUE /\ points' = FALSE
  /\ decoding' = [decoding EXCEPT !.at = "commit"]
  /\ stale' = TRUE
  /\ fit' = (fit /\ ~drawing /\ ~asked)
  /\ UNCHANGED <<doc, lastWord, spaceState, tapVars, sessionVars, firstInit, hostVars,
                 reload, lookup, moved, drifted, drawing, asked, unseen, left>>

\* The text at its end has no letter a word could join.
Gap(text) ==
  \/ text = <<>>
  \/ text[Len(text)] \notin Letters
  \/ LooksLikeURL(text)

\* commit: the word is inserted where the cursor is now.
CommitWord ==
  /\ decoding.at = "commit"
  /\ decoding' = NoSearch
  /\ doc' = doc \o decoding.word
  /\ Len(doc') <= MaxText
  /\ reload' = TRUE
  /\ LET known == /\ composer.typed = decoding.word
                  /\ fit \/ spaceState # "PHANTOM"
     IN
     /\ stale' = (~known /\ IsComposing(composer))
     /\ unseen' = (unseen \/ ~known \/ ~Gap(doc))
  /\ moved' = TRUE /\ drifted' = TRUE
  /\ fit' = FALSE
  /\ UNCHANGED <<composer, lastWord, spaceState, tapVars, sessionVars, firstInit,
                 hostVars, lookup, strokeVars, drawing, asked, left>>

-----------------------------------------------------------------------------
(* The handlers of InputLogic with the composer's stroke.  A second finger *)
(* on the keyboard reaches the keys that act when they are touched; to lift *)
(* it ends the stroke, so that letters, space and return wait for that.    *)

Letter(c) ==
  LET before == BeforeKey(c) IN
  /\ ~drawing
  /\ NonSeparatorKey(c)
  /\ IF IsComposing(composer) /\ ~TakesUp(before) THEN LeavesBatch
     ELSE ForgetsIf(TakesUp(before) \/ c \in WordChars)

Closing ==
  \/ /\ \E c \in Separators \cup OtherSymbols :
          SeparatorKey(c) /\ ForgetsIf(IsComposing(Ready(BeforeKey(c))))
  \/ ~drawing /\ SpaceKey /\ ForgetsIf(IsComposing(Ready(doc)))
  \/ ~drawing /\ EnterKey /\ Forgets

Shift ==
  /\ ShiftKey
  /\ ForgetsIf(TakesUp(IF spaceState = "PHANTOM" THEN Spaced(doc) ELSE doc))

\* handleBackspaceEvent takes a drawn word out as a whole.
RejectsBatch == batch /\ IsComposing(composer) /\ ~TakesUp(doc)

Rejected_SpaceBack == Append(DeleteLast(doc, Len(composer.typed) + 1), Space)
Rejected_OneCharacter == DeleteLast(doc, 1)
Rejected == DeleteLast(doc, Len(composer.typed))

BatchDelete ==
  /\ RejectsBatch
  /\ Session
  /\ doc' = Rejected
  /\ composer' = EmptyComposer
  /\ lastWord' = NoLastWord
  /\ spaceState' = "NONE"
  /\ Forgets
  /\ UNCHANGED tapVars
  /\ Handled

Delete ==
  /\ ~RejectsBatch
  /\ DeleteKey
  /\ IF IsComposing(composer) /\ ~TakesUp(doc) THEN LeavesBatch
     ELSE ForgetsIf(TakesUp(doc) \/ IsComposing(composer'))

Pick ==
  \/ \E w \in SuggestedWords :
       \/ PickSuggestion(w) /\ ForgetsIf(IsComposing(composer))
       \/ PickInUrlField(w) /\ Forgets
  \/ \E e \in Emojis : PickEmoji(e) /\ ForgetsIf(IsComposing(composer))

Typed ==
  /\ \/ \E c \in WordChars \cup Digits : Letter(c)
     \/ Closing \/ Shift \/ Delete \/ BatchDelete \/ Pick
     \/ ~drawing /\ RawKey /\ UNCHANGED strokeVars
  /\ unseen' = (unseen \/ stale \/ model # "text")
  /\ left' = (~idleTimer' /\ (left \/ model = "url"))
  /\ Between
  /\ UNCHANGED <<drawing, searchVars>>

Host ==
  /\ \E text \in HostTexts, kind \in Kinds : HostEdit(text, kind)
  /\ unseen' = TRUE
  /\ Between
  /\ UNCHANGED <<strokeVars, drawing, searchVars, left>>

\* A keyboard that is loaded outside an input session forgets the stroke, and
\* but in a field without autocorrection takes up the word at the cursor.
Load_InSession ==
  /\ LoadKeyboard
  /\ Forgets
  /\ unseen' = (IF active THEN unseen ELSE field = "noauto") /\ fit' = (fit /\ active)
  /\ UNCHANGED <<drawing, searchVars, left>>
Load ==
  /\ LoadKeyboard
  /\ ForgetsIf(~active)
  /\ unseen' = (IF active THEN unseen ELSE field = "noauto") /\ fit' = (fit /\ active)
  /\ UNCHANGED <<drawing, searchVars, left>>

Background ==
  /\ \/ IdleTimeout
     \/ ~batch /\ decoding = NoSearch /\ StartLookup
     \/ FinishLookup
  /\ UNCHANGED <<strokeVars, drawing, searchVars, unseen, fit, left>>

-----------------------------------------------------------------------------
GestureInit ==
  /\ Init
  /\ batch = FALSE /\ points = FALSE /\ drawing = FALSE
  /\ asked = FALSE /\ decoding = NoSearch
  /\ unseen = (doc # <<>>) /\ fit = FALSE /\ left = FALSE

GestureNext ==
  \/ StartGesture \/ EndGesture \/ Abandon
  \/ StartDecode \/ DropDecode \/ StartUpdate
  \/ Answer \/ SetWord \/ CommitWord
  \/ Typed \/ Host \/ Load \/ Background

GestureSpec == GestureInit /\ [][GestureNext]_gestureVars

-----------------------------------------------------------------------------
(* Properties.  ComposerMatchesText and TextBeforeWordKept of InputLogic   *)
(* are checked of this specification too: a word that is drawn is composed *)
(* like one that is typed.                                                 *)

\* Every variable stays in its range.
GestureTypeOK ==
  /\ TypeOK
  /\ batch \in BOOLEAN /\ points \in BOOLEAN /\ drawing \in BOOLEAN
  /\ asked \in BOOLEAN /\ decoding \in Search
  /\ unseen \in BOOLEAN /\ fit \in BOOLEAN /\ left \in BOOLEAN

\* Where no word is composed and no space is owed, a drawn word may follow at
\* once: the text does not end in a letter.
GapKept ==
  ~IsComposing(composer) /\ spaceState # "PHANTOM" /\ ~unseen => Gap(doc)

\* No space is owed inside a word, but where a pick came before the word of a
\* stroke.
NoSpaceOwedInWord == IsComposing(composer) /\ ~stale => spaceState # "PHANTOM"

\* A session in which the host is not listened to is about to end, or a stroke
\* is under way, or was given up.
SessionEndsOrDraws == active => idleTimer \/ drawing \/ left

\* A stroke that waits to be looked up, with nothing between, is still there.
StrokeWaits == asked /\ ~drawing /\ fit => batch /\ points

\* The word of a stroke is not joined to the word before it.
GestureWordApart ==
  [][decoding.at = "commit" /\ decoding'.at = "none" /\ fit => Gap(doc)]_gestureVars
=============================================================================
