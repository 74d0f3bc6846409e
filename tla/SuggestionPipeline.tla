------------------------- MODULE SuggestionPipeline -------------------------
(***************************************************************************)
(* From a key to the list on the suggestion strip, through four threads.    *)
(*                                                                         *)
(* On the main thread a handler changes the composer, then the text, and    *)
(* puts an update block on a serial queue in place of one that still waits. *)
(* The block reads the text, compares it with that of the last lookup, and  *)
(* starts an operation, which reads the composer when it runs.  Its answer  *)
(* goes back to the main thread and from there to the queue of the strip.   *)
(* The update block waits for it, but half a second at most: a slow lookup  *)
(* is overtaken by the blocks of later keys.                                *)
(*                                                                         *)
(* Which text and composer a key leads to is the matter of InputLogic: here *)
(* a handler leads to any, as an edit of the host does in one step.  What   *)
(* is told apart is what it asks of the strip: to look up ("look"), to be   *)
(* empty ("clear"), to show the emoji of a picked one ("emoji"), or nothing *)
(* ("keep").  A list stands for what a lookup answers: it is named by the   *)
(* text it was made for and the word of the composer.  Fields for URLs,     *)
(* gestures and the words of the cloud are not in this module.              *)
(*                                                                         *)
(* An operator named X_Flaw is X with a plausible slip of the code; the     *)
(* properties are tried against it in X's place.                            *)
(***************************************************************************)
EXTENDS Integers, Sequences

CONSTANTS
  Texts,           \* texts before the cursor
  NoText,          \* the empty one
  None,            \* no text, no word
  ShowPrediction,  \* kCMSettingManager.showPrediction
  ShowCorrection,  \* kCMSettingManager.showCorrection
  MaxAnswers       \* bound on the answers that wait for the main thread

ASSUME PipelineAssumption ==
  /\ NoText \in Texts /\ None \notin Texts
  /\ ShowPrediction \in BOOLEAN /\ ShowCorrection \in BOOLEAN
  /\ MaxAnswers \in Nat \ {0}

VARIABLES
  text,      \* documentContextBeforeInput
  composer,  \* the word composer: the text its word ends, if it has a word
  asks,      \* completeInputTransaction: what the last handler asks for
  main,      \* the text the handler on the main thread is about to commit
  reload,    \* whether loadKeyboard is to come, after an edit of the host
  waiting,   \* whether nonBatchInputBlock waits in the serial queue
  block,     \* the update block that runs
  last,      \* lastUpdateSuggestionParamInputWords
  held,      \* whether self.op is the operation made last, or else nil
  queue,     \* operations that wait in the operation queue
  running,   \* the operation that runs
  answers,   \* lists on their way to the main thread
  binding,   \* the bind block of the strip
  shown,     \* the list on the strip
  (* history, read by properties only *)
  due,       \* the lists the handlers asked for
  cleared,   \* whether the strip was given another list since the last lookup
  troubles   \* what went wrong since the last lookup

input == <<text, composer, asks, main, reload>>
lookups == <<last, held, queue, running, answers>>
strip == <<binding, shown>>
history == <<due, cleared, troubles>>
vars == <<input, waiting, block, lookups, strip, history>>

-----------------------------------------------------------------------------
Input == [text : Texts, composing : BOOLEAN]
List == [text : Texts, word : Texts \cup {None}]
Empty == [text |-> NoText, word |-> None]
EmojiList == [text |-> NoText, word |-> NoText]
NoList == [text |-> None, word |-> None]

Block == [at : {"idle", "asked", "made", "dropped"},
          text : Texts \cup {None}, composing : BOOLEAN]
Operation == [at : {"none", "search", "answered", "cancelled"},
              text : Texts \cup {None}, word : Texts \cup {None}]
Idle == [at |-> "idle", text |-> None, composing |-> FALSE]
NoRun == [at |-> "none", text |-> None, word |-> None]

\* What a lookup reads of the composer.
WordOf(in) == IF in.composing THEN in.text ELSE None
Answer(t, word) == [text |-> t, word |-> word]

\* inputTem: a space tells a prediction from a correction.
Key_NoSpace(t, composing) == [text |-> t, composing |-> TRUE]
Key(t, composing) == [text |-> t, composing |-> composing]
NoKey == [text |-> None, composing |-> FALSE]

Enabled(composing) == IF composing THEN ShowCorrection ELSE ShowPrediction
\* What the strip should show for an input that is looked up.
Right(in) ==
  IF in.text = NoText \/ ~Enabled(in.composing) THEN Empty ELSE Answer(in.text, WordOf(in))

\* Where a handler with this outcome can lead to.
Possible(outcome, in) ==
  /\ in.composing => in.text # NoText
  /\ outcome \in {"clear", "emoji"} => ~in.composing
  /\ outcome = "emoji" => ShowPrediction /\ in.text # NoText
  /\ outcome = "keep" => WordOf(in) = WordOf(composer)

\* An operation on its way, whose answer is not with the strip yet.
InFlight == block.at = "made" \/ queue # <<>> \/ running.at = "search" \/ answers # <<>>

Trouble(kind, happened) == troubles' = IF happened THEN troubles \cup {kind} ELSE troubles

-----------------------------------------------------------------------------
(* The main thread.                                                         *)

DueAfter(outcome, in) ==
  CASE outcome = "look" -> {Right(in)}
    [] outcome = "clear" -> {Empty}
    [] outcome = "emoji" -> {EmojiList}
    [] outcome = "keep" -> due \cup {Right(in)}

\* A key or a pick: the composer, and what is asked for.  resetKeyboardTopView
\* empties the strip; the last lookup stays the last.
Asked(outcome, in) ==
  /\ composer' = in /\ asks' = outcome /\ main' = in.text
  /\ binding' = IF outcome = "clear" THEN Empty ELSE binding
  /\ cleared' = (cleared \/ outcome = "clear")
  /\ due' = DueAfter(outcome, in)
  /\ IF outcome = "keep" THEN Trouble("skipped", waiting /\ asks \in {"look", "emoji"})
     ELSE Trouble("late", outcome = "clear" /\ (InFlight \/ block.at = "asked"))

Handle(outcome, in) ==
  /\ main = None
  /\ Possible(outcome, in)
  /\ Asked(outcome, in)
  /\ UNCHANGED <<text, reload, waiting, block, lookups, shown>>

\* Then the text, and updateSuggestionStrip: a block that waits is cancelled.
Commit ==
  /\ main # None
  /\ text' = main /\ main' = None
  /\ waiting' = TRUE
  /\ UNCHANGED <<composer, asks, reload, block, lookups, strip, history>>

\* updateSuggestionStrip without a handler, by a loadKeyboard within a session or
\* a layout that is there: what was asked for last is asked for again.
RepeatRequest ==
  /\ main = None
  /\ waiting' = TRUE
  /\ UNCHANGED <<input, block, lookups, strip, history>>

\* The host moves the cursor or changes the text.
HostEdit(t) ==
  /\ main = None
  /\ text' = t /\ reload' = TRUE
  /\ UNCHANGED <<composer, asks, main, waiting, block, lookups, strip, history>>

\* loadKeyboard, out of an input session: the word at the cursor is taken up.
LoadKeyboard(outcome, composing) ==
  LET in == [text |-> text, composing |-> composing] IN
  /\ main = None /\ reload /\ reload' = FALSE
  /\ outcome \in {"look", "clear"} /\ Possible(outcome, in)
  /\ Asked(outcome, in)
  /\ UNCHANGED <<text, waiting, block, lookups, shown>>

\* loadKeyboard in a field of another kind: reset also empties the strip, and
\* forgets the last lookup.
LoadOtherField(outcome, composing) ==
  LET in == [text |-> text, composing |-> composing] IN
  /\ main = None /\ reload /\ reload' = FALSE
  /\ outcome \in {"look", "clear"} /\ Possible(outcome, in)
  /\ composer' = in /\ asks' = outcome /\ main' = text
  /\ binding' = Empty /\ cleared' = TRUE
  /\ last' = NoKey
  /\ due' = DueAfter(outcome, in)
  /\ Trouble("late", InFlight \/ block.at = "asked")
  /\ UNCHANGED <<text, waiting, block, held, queue, running, answers, shown>>

\* The handler of an answer, on the main thread.
MainShow ==
  /\ main = None /\ answers # <<>>
  /\ binding' = Head(answers) /\ answers' = Tail(answers)
  /\ UNCHANGED <<input, waiting, block, last, held, queue, running, shown, history>>

-----------------------------------------------------------------------------
(* The serial queue: perfromUpdateSuggestionStrip.                          *)

\* An answer without a lookup, which one still on its way will cover.
Instead ==
  /\ cleared' = TRUE
  /\ Trouble("late", InFlight)

\* The block waits for its handler, but half a second at most: it may end at any
\* time, and another follows when one waits.
BlockEnd == block' = Idle

\* The transaction and the composer are read first ...
BlockStart ==
  /\ block.at = "idle" /\ waiting
  /\ waiting' = FALSE
  /\ \/ asks \in {"clear", "keep"} /\ BlockEnd /\ UNCHANGED <<answers, binding, cleared, troubles>>
     \/ /\ asks = "emoji" /\ BlockEnd
        /\ Len(answers) < MaxAnswers
        /\ answers' = Append(answers, EmojiList)
        /\ Instead /\ UNCHANGED binding
     \/ /\ asks = "look" /\ ~Enabled(composer.composing) /\ BlockEnd
        /\ binding' = Empty
        /\ Instead /\ UNCHANGED answers
     \/ /\ asks = "look" /\ Enabled(composer.composing)
        /\ block' = [at |-> "asked", text |-> None, composing |-> composer.composing]
        /\ UNCHANGED <<answers, binding, cleared, troubles>>
  /\ UNCHANGED <<input, last, held, queue, running, shown, due>>

\* ... then the text.  There is none:
BlockNoText ==
  /\ block.at = "asked" /\ text = NoText
  /\ BlockEnd
  /\ binding' = Empty /\ last' = NoKey
  /\ Instead
  /\ UNCHANGED <<input, waiting, held, queue, running, answers, shown, due>>

\* it is that of the last lookup:
BlockRepeat ==
  /\ block.at = "asked" /\ text # NoText /\ Key(text, block.composing) = last
  /\ BlockEnd
  /\ Trouble("repeat", cleared)
  /\ UNCHANGED <<input, waiting, lookups, strip, due, cleared>>

\* [_op cancel] takes the operation out of the queue, unless it runs already.
Cancelled == IF held /\ queue # <<>> THEN SubSeq(queue, 1, Len(queue) - 1) ELSE queue

\* A lookup makes good what went wrong before, if it is the one asked for last.
NewLookup ==
  /\ cleared' = FALSE
  /\ troubles' = CASE asks = "look" -> {}
                   [] asks = "keep" -> troubles
                   [] OTHER -> {"late"}

\* or a new one: the operation of the last is cancelled and one made for it.
BlockMake_NoCancel ==
  /\ block.at = "asked" /\ text # NoText /\ Key(text, block.composing) # last
  /\ block' = [block EXCEPT !.at = "made", !.text = text]
  /\ last' = Key(text, block.composing)
  /\ held' = TRUE
  /\ NewLookup
  /\ UNCHANGED <<input, waiting, queue, running, answers, strip, due>>
BlockMake ==
  /\ block.at = "asked" /\ text # NoText /\ Key(text, block.composing) # last
  /\ block' = [block EXCEPT !.at = "made", !.text = text]
  /\ last' = Key(text, block.composing)
  /\ queue' = Cancelled
  /\ held' = TRUE
  /\ NewLookup
  /\ UNCHANGED <<input, waiting, running, answers, strip, due>>

\* addOperation:_op, unless it was cancelled meanwhile.
BlockAdd ==
  /\ block.at \in {"made", "dropped"} /\ held
  /\ queue' = IF block.at = "made" THEN Append(queue, block.text) ELSE queue
  /\ BlockEnd
  /\ UNCHANGED <<input, waiting, last, held, running, answers, strip, history>>

\* Where self.op was set to nil meanwhile, addOperation raises an exception and
\* the process ends.  Another takes up the field.
BlockAddNil ==
  /\ block.at \in {"made", "dropped"} /\ ~held
  /\ reload' = TRUE
  /\ composer' = [text |-> text, composing |-> FALSE] /\ asks' = "clear" /\ main' = None
  /\ waiting' = FALSE /\ block' = Idle
  /\ last' = NoKey /\ queue' = <<>> /\ running' = NoRun /\ answers' = <<>>
  /\ binding' = NoList /\ shown' = Empty
  /\ due' = {Empty} /\ cleared' = FALSE /\ troubles' = {}
  /\ UNCHANGED <<text, held>>

-----------------------------------------------------------------------------
(* The operation queue, one operation at a time.                            *)

\* suggestionFromWordComposer copies the composer.
OpStart ==
  /\ queue # <<>> /\ running.at = "none"
  /\ running' = [at |-> "search", text |-> Head(queue), word |-> WordOf(composer)]
  /\ queue' = Tail(queue)
  /\ Trouble("torn", /\ Len(queue) = 1 /\ block.at # "made"
                      /\ WordOf(composer) # WordOf(last))
  /\ UNCHANGED <<input, waiting, block, last, held, answers, strip, due, cleared>>

OpAnswer ==
  /\ running.at = "search" /\ Len(answers) < MaxAnswers
  /\ answers' = Append(answers, Answer(running.text, running.word))
  /\ running' = [running EXCEPT !.at = "answered"]
  /\ UNCHANGED <<input, waiting, block, last, held, queue, strip, history>>

\* [_op cancel]: self.op may be a newer operation by now.
OpCancel ==
  /\ running.at = "answered"
  /\ running' = [running EXCEPT !.at = "cancelled"]
  /\ IF held /\ block.at = "made"
     THEN block' = [block EXCEPT !.at = "dropped"] /\ UNCHANGED queue
     ELSE queue' = Cancelled /\ UNCHANGED block
  /\ Trouble("dropped", held /\ (block.at = "made" \/ queue # <<>>))
  /\ UNCHANGED <<input, waiting, last, held, answers, strip, due, cleared>>

\* self.op = nil.
OpEnd ==
  /\ running.at = "cancelled"
  /\ running' = NoRun
  /\ held' = FALSE
  /\ UNCHANGED <<input, waiting, block, last, queue, answers, strip, history>>

\* The bind block of the strip.
StripUpdate ==
  /\ binding # NoList
  /\ shown' = binding /\ binding' = NoList
  /\ UNCHANGED <<input, waiting, block, lookups, history>>

-----------------------------------------------------------------------------
Init ==
  /\ text \in Texts /\ reload = TRUE
  /\ composer = [text |-> text, composing |-> FALSE] /\ asks = "clear" /\ main = None
  /\ waiting = FALSE /\ block = Idle
  /\ last = NoKey /\ held = FALSE /\ queue = <<>> /\ running = NoRun /\ answers = <<>>
  /\ binding = NoList /\ shown = Empty
  /\ due = {Empty} /\ cleared = FALSE /\ troubles = {}

Next ==
  \/ \E outcome \in {"look", "clear", "emoji", "keep"}, in \in Input : Handle(outcome, in)
  \/ Commit \/ RepeatRequest
  \/ \E t \in Texts : HostEdit(t)
  \/ \E outcome \in {"look", "clear"}, composing \in BOOLEAN :
       LoadKeyboard(outcome, composing) \/ LoadOtherField(outcome, composing)
  \/ MainShow
  \/ BlockStart \/ BlockNoText \/ BlockRepeat \/ BlockMake
  \/ BlockAdd \/ BlockAddNil
  \/ OpStart \/ OpAnswer \/ OpCancel \/ OpEnd
  \/ StripUpdate

Spec == Init /\ [][Next]_vars

-----------------------------------------------------------------------------
\* Every variable stays in its range.
TypeOK ==
  /\ text \in Texts /\ composer \in Input
  /\ asks \in {"look", "clear", "emoji", "keep"}
  /\ main \in Texts \cup {None}
  /\ reload \in BOOLEAN /\ waiting \in BOOLEAN
  /\ block \in Block
  /\ block.at = "made" => block.text # None
  /\ last \in Input \cup {NoKey}
  /\ held \in BOOLEAN
  /\ queue \in Seq(Texts)
  /\ running \in Operation
  /\ running.at = "search" => running.text # None
  /\ answers \in Seq(List)
  /\ binding \in List \cup {NoList} /\ shown \in List
  /\ due \subseteq List /\ cleared \in BOOLEAN
  /\ troubles \subseteq {"skipped", "torn", "late", "dropped", "repeat"}

\* Nothing is under way between the keys and the strip.
Quiet ==
  /\ main = None /\ ~reload /\ ~waiting /\ block.at = "idle"
  /\ queue = <<>> /\ running.at = "none" /\ answers = <<>> /\ binding = NoList

\* When all threads have come to rest the strip shows the list that was asked
\* for last, of the text and the word that are there: whichever blocks were
\* cancelled, lookups overtaken or keys hit meanwhile.  But for the repeat filter,
\* which takes any key it has seen for answered, one of five things must not have
\* happened since the last lookup:
\*   skipped  a handler that asks nothing cancels the block of one that does
\*   torn     the operation reads a composer that is not that of its text
\*   late     an answer without a lookup is overtaken by a lookup's answer
\*   dropped  an operation that ends cancels the next one
\*   repeat   the strip was given another list, and the key stayed the last
StripSettles == Quiet /\ troubles = {} => shown \in due

\* Keys that come faster than lookups do not pile them up: two wait at most, one
\* of them because self.op forgot it.
LookupsDoNotPileUp == Len(queue) <= 2
=============================================================================
