---------------------- MODULE SuggestionPipelineProofs ----------------------
(***************************************************************************)
(* The strip settles, and lookups do not pile up, for any texts, settings   *)
(* and backlog.                                                            *)
(***************************************************************************)
EXTENDS SuggestionPipeline, SequenceTheorems, TLAPS

-----------------------------------------------------------------------------
(* The invariant.                                                           *)

Made == block.at = "made"
\* No lookup is on its way to an answer.
NoLookup == ~Made /\ block.at # "dropped" /\ queue = <<>> /\ running.at # "search"
\* What the strip shows when the answers that are there have reached it.
Final ==
  IF answers # <<>> THEN answers[Len(answers)]
  ELSE IF binding # NoList THEN binding ELSE shown

Want(key) == Answer(key.text, WordOf(key))
\* The newest lookup is that of the key, and its answer what it should be.
LeadsTo(key) ==
  \/ Made /\ block.text = key.text
  \/ ~Made /\ block.at # "dropped" /\ queue # <<>> /\ queue[Len(queue)] = key.text
  \/ ~Made /\ block.at # "dropped" /\ queue = <<>> /\ running.at = "search"
       /\ Answer(running.text, running.word) = Want(key)
  \/ NoLookup /\ Final = Want(key)

\* The last lookup is on its way, or is the last the strip was given.
LastInv == troubles = {} /\ ~cleared /\ last # NoKey => LeadsTo(last)
\* When the strip was given another list, that one is the last.
OtherInv == troubles = {} /\ (cleared \/ last = NoKey) => NoLookup

\* What is due.
DueInv ==
  /\ asks = "look" => due = {Right(composer)}
  /\ asks = "clear" => due = {Empty}
  /\ asks = "emoji" => due = {EmojiList}
  /\ asks = "keep" => Right(composer) \in due
TextInv ==
  /\ main # None => main = composer.text
  /\ main = None /\ ~reload => text = composer.text

\* The block that will answer the last handler is still to come.
Pending == asks \in {"look", "emoji"} /\ (main # None \/ waiting)
Settled ==
  \/ /\ ~cleared /\ last # NoKey /\ last.text # NoText
     /\ Enabled(last.composing) /\ Want(last) \in due
  \/ NoLookup /\ Final \in due
AskedRight ==
  /\ asks \in {"look", "keep"}
  /\ block.composing = composer.composing /\ Enabled(block.composing)
  /\ Right([text |-> text, composing |-> block.composing]) \in due
AskedInv ==
  block.at = "asked" /\ asks = "look" /\ ~reload /\ ~Pending => AskedRight
SettleInv ==
  troubles = {} /\ ~reload /\ ~Pending =>
    IF block.at = "asked" THEN AskedRight ELSE Settled

\* An operation made is counted with those that wait.
Lookups == IF Made THEN Len(queue) + 1 ELSE Len(queue)
PileInv ==
  /\ Lookups <= 2
  /\ running.at # "none" => Lookups <= 1
  /\ ~held => Lookups <= 1
  /\ ~held /\ running.at # "none" => Lookups = 0

IInv ==
  TypeOK /\ LastInv /\ OtherInv /\ DueInv /\ TextInv /\ AskedInv /\ SettleInv

-----------------------------------------------------------------------------
(* Sequences: the last element is the newest.                               *)

LEMMA AppendLast ==
  ASSUME NEW S, NEW s \in Seq(S), NEW e \in S
  PROVE  /\ Append(s, e) \in Seq(S) /\ Append(s, e) # <<>>
         /\ Len(Append(s, e)) = Len(s) + 1
         /\ Append(s, e)[Len(Append(s, e))] = e
BY AppendProperties

LEMMA TailLast ==
  ASSUME NEW S, NEW s \in Seq(S), s # <<>>
  PROVE  /\ Head(s) \in S /\ Tail(s) \in Seq(S)
         /\ Len(Tail(s)) = Len(s) - 1
         /\ Tail(s) # <<>> => Tail(s)[Len(Tail(s))] = s[Len(s)]
         /\ Tail(s) = <<>> => Len(s) = 1 /\ Head(s) = s[Len(s)]
<1>1. /\ Head(s) \in S /\ Tail(s) \in Seq(S)
      /\ Len(Tail(s)) = Len(s) - 1
      /\ \A i \in 1 .. Len(Tail(s)) : Tail(s)[i] = s[i + 1]
  BY HeadTailProperties
<1>2. Len(s) \in Nat \ {0} /\ Head(s) = s[1] /\ (Tail(s) = <<>> <=> Len(Tail(s)) = 0)
  BY <1>1, EmptySeq, LenProperties
<1>. QED  BY <1>1, <1>2

\* [_op cancel] takes one operation, if self.op is one that waits.
LEMMA CancelledQueue ==
  ASSUME TypeOK
  PROVE  /\ Cancelled \in Seq(Texts)
         /\ Len(queue) \in Nat
         /\ Len(queue) = 0 <=> queue = <<>>
         /\ Len(Cancelled) = IF held /\ queue # <<>> THEN Len(queue) - 1 ELSE Len(queue)
BY DEF TypeOK, Cancelled

\* The values the variables take.
LEMMA Values ==
  /\ NoText \in Texts /\ None \notin Texts
  /\ Empty \in List /\ EmojiList \in List /\ NoList \notin List
  /\ NoKey \notin Input
  /\ \A in \in Input : in.text \in Texts /\ in.composing \in BOOLEAN
                       /\ WordOf(in) \in Texts \cup {None} /\ Right(in) \in List
  /\ \A t \in Texts, w \in Texts \cup {None} : Answer(t, w) \in List
  /\ \A t \in Texts, b \in BOOLEAN :
       Key(t, b) \in Input /\ [text |-> t, composing |-> b] \in Input
BY PipelineAssumption
DEF Empty, EmojiList, NoList, NoKey, List, Input, WordOf, Right, Answer, Key

\* The records of a block and of an operation.
LEMMA RecordTypes ==
  /\ Idle \in Block /\ NoRun \in Operation
  /\ \A b \in BOOLEAN : [at |-> "asked", text |-> None, composing |-> b] \in Block
  /\ \A at \in {"none", "search", "answered", "cancelled"} :
       /\ \A run \in Operation : [run EXCEPT !.at = at] \in Operation
       /\ \A t, w \in Texts \cup {None} : [at |-> at, text |-> t, word |-> w] \in Operation
BY DEF Block, Operation, Idle, NoRun

LEMMA DueTypes ==
  ASSUME TypeOK, NEW outcome \in {"look", "clear", "emoji", "keep"}, NEW in \in Input
  PROVE  DueAfter(outcome, in) \subseteq List
BY Values DEF TypeOK, DueAfter

-----------------------------------------------------------------------------
LEMMA TypeStep ==
  ASSUME TypeOK, [Next]_vars
  PROVE  TypeOK'
<1>1. ASSUME NEW outcome \in {"look", "clear", "emoji", "keep"}, NEW in \in Input, Handle(outcome, in)
      PROVE  TypeOK'
  <2>1. troubles' \subseteq {"skipped", "torn", "late", "dropped", "repeat"}
    BY <1>1 DEF TypeOK, Handle, Asked, Trouble
  <2>2. due' \subseteq List
    BY <1>1, DueTypes DEF TypeOK, Handle, Asked
  <2>3. binding' \in List \cup {NoList}
    BY <1>1, Values DEF TypeOK, Handle, Asked
  <2>4. composer' \in Input /\ main' \in Texts
    BY <1>1, Values DEF TypeOK, Handle, Asked
  <2>. QED  BY <1>1, <2>1, <2>2, <2>3, <2>4, Values
    DEF TypeOK, input, lookups, strip, history, Handle, Asked
<1>2. CASE Commit
  BY <1>2
  DEF TypeOK, input, lookups, strip, history, Commit
<1>3. ASSUME NEW t \in Texts, HostEdit(t)
      PROVE  TypeOK'
  BY <1>3
  DEF TypeOK, input, lookups, strip, history, HostEdit
<1>4. ASSUME NEW outcome \in {"look", "clear"}, NEW composing \in BOOLEAN, LoadKeyboard(outcome, composing)
      PROVE  TypeOK'
  <2>1. troubles' \subseteq {"skipped", "torn", "late", "dropped", "repeat"}
    BY <1>4 DEF TypeOK, LoadKeyboard, Asked, Trouble
  <2>2. due' \subseteq List
    BY <1>4, DueTypes, Values DEF TypeOK, LoadKeyboard, Asked
  <2>3. binding' \in List \cup {NoList}
    BY <1>4, Values DEF TypeOK, LoadKeyboard, Asked
  <2>4. composer' \in Input
    BY <1>4, Values DEF TypeOK, LoadKeyboard, Asked
  <2>5. main' \in Texts \cup {None} /\ asks' \in {"look", "clear", "emoji", "keep"}
    BY <1>4 DEF TypeOK, LoadKeyboard, Asked
  <2>6. cleared' \in BOOLEAN
    BY <1>4 DEF TypeOK, LoadKeyboard, Asked
  <2>. QED  BY <1>4, <2>1, <2>2, <2>3, <2>4, <2>5, <2>6
    DEF TypeOK, input, lookups, strip, history, LoadKeyboard
<1>5. ASSUME NEW outcome \in {"look", "clear"}, NEW composing \in BOOLEAN, LoadOtherField(outcome, composing)
      PROVE  TypeOK'
  <2>1. troubles' \subseteq {"skipped", "torn", "late", "dropped", "repeat"}
    BY <1>5 DEF TypeOK, LoadOtherField, Trouble
  <2>2. due' \subseteq List
    BY <1>5, DueTypes, Values DEF TypeOK, LoadOtherField
  <2>3. binding' \in List \cup {NoList}
    BY <1>5, Values DEF TypeOK, LoadOtherField
  <2>4. composer' \in Input
    BY <1>5, Values DEF TypeOK, LoadOtherField
  <2>. QED  BY <1>5, <2>1, <2>2, <2>3, <2>4, Values
    DEF TypeOK, input, lookups, strip, history, LoadOtherField
<1>6. CASE MainShow
  BY <1>6, TailLast
  DEF TypeOK, input, lookups, strip, history, MainShow
<1>7. CASE BlockStart
  <2>1. troubles' \subseteq {"skipped", "torn", "late", "dropped", "repeat"}
    BY <1>7 DEF TypeOK, BlockStart, BlockEnd, Instead, Idle, Trouble
  <2>2. block' \in Block
    BY <1>7, RecordTypes DEF TypeOK, Input, BlockStart, BlockEnd
  <2>3. binding' \in List \cup {NoList}
    BY <1>7, Values DEF TypeOK, BlockStart
  <2>4. answers' \in Seq(List)
    <3>1. Append(answers, EmojiList) \in Seq(List)
      BY Values, AppendLast DEF TypeOK
    <3>. QED  BY <1>7, <3>1 DEF TypeOK, BlockStart
  <2>5. cleared' \in BOOLEAN
    BY <1>7 DEF TypeOK, BlockStart, Instead
  <2>6. /\ block'.at = "made" => block'.text # None
        /\ running'.at = "search" => running'.text # None
    BY <1>7 DEF TypeOK, BlockStart, BlockEnd, Idle
  <2>7. held' \in BOOLEAN /\ waiting' \in BOOLEAN /\ reload' \in BOOLEAN /\ cleared' \in BOOLEAN
    BY <1>7 DEF TypeOK, input, history, lookups, BlockStart, Instead
  <2>8. UNCHANGED <<text, composer, asks, main, last, queue, running, shown, due>>
    BY <1>7 DEF input, lookups, strip, history, BlockStart
  <2>. QED  BY <2>8, <2>7, <2>6, <2>1, <2>2, <2>3, <2>4, <2>5 DEF TypeOK
<1>8. CASE BlockNoText
  <2>1. troubles' \subseteq {"skipped", "torn", "late", "dropped", "repeat"}
    BY <1>8 DEF TypeOK, BlockNoText, BlockEnd, Instead, Idle, Trouble
  <2>2. block' \in Block
    BY <1>8, Values DEF TypeOK, BlockNoText, BlockEnd, Instead, Idle, Block, Operation
  <2>3. binding' \in List \cup {NoList}
    BY <1>8, Values DEF TypeOK, BlockNoText, BlockEnd, Instead, Idle
  <2>. QED  BY <1>8, <2>1, <2>2, <2>3
    DEF TypeOK, input, lookups, strip, history, BlockNoText, BlockEnd, Instead, Idle
<1>9. CASE BlockRepeat
  <2>1. troubles' \subseteq {"skipped", "torn", "late", "dropped", "repeat"}
    BY <1>9 DEF TypeOK, BlockRepeat, BlockEnd, Idle, Trouble
  <2>2. block' \in Block
    BY <1>9, Values DEF TypeOK, BlockRepeat, BlockEnd, Idle, Block, Operation
  <2>. QED  BY <1>9, <2>1, <2>2
    DEF TypeOK, input, lookups, strip, history, BlockRepeat, BlockEnd, Idle
<1>10. CASE BlockMake
  <2>1. troubles' \subseteq {"skipped", "torn", "late", "dropped", "repeat"} /\ cleared' \in BOOLEAN
    BY <1>10 DEF TypeOK, BlockMake, NewLookup, Trouble
  <2>2. block' \in Block
    BY <1>10, Values DEF TypeOK, BlockMake, NewLookup, Block, Operation
  <2>3. last' \in Input /\ queue' \in Seq(Texts)
    BY <1>10, Values, CancelledQueue DEF TypeOK, BlockMake, NewLookup, Block, Operation
  <2>4. /\ block'.at = "made" => block'.text # None
        /\ running'.at = "search" => running'.text # None
    BY <1>10, Values DEF TypeOK, BlockMake
  <2>5. held' \in BOOLEAN /\ waiting' \in BOOLEAN /\ reload' \in BOOLEAN /\ cleared' \in BOOLEAN
    BY <1>10 DEF TypeOK, input, history, lookups, BlockMake, NewLookup
  <2>6. UNCHANGED <<text, composer, asks, main, running, answers, binding, shown, due>>
    BY <1>10 DEF input, lookups, strip, history, BlockMake
  <2>. QED  BY <2>6, <2>5, <2>4, <2>1, <2>2, <2>3 DEF TypeOK
<1>11. CASE BlockAdd
  <2>1. block' \in Block
    BY <1>11, RecordTypes DEF BlockAdd, BlockEnd
  <2>2. block.at = "made" => block.text \in Texts
    BY <1>11 DEF TypeOK, BlockAdd, Block, Operation
  <2>3. queue' \in Seq(Texts)
    BY <1>11, <2>2, AppendLast DEF TypeOK, BlockAdd
  <2>4. /\ block'.at = "made" => block'.text # None
        /\ running'.at = "search" => running'.text # None
    BY <1>11 DEF TypeOK, BlockAdd, BlockEnd, Idle
  <2>5. held' \in BOOLEAN /\ waiting' \in BOOLEAN /\ reload' \in BOOLEAN /\ cleared' \in BOOLEAN
    BY <1>11 DEF TypeOK, input, history, lookups, BlockAdd
  <2>6. UNCHANGED <<text, composer, asks, main, last, running, answers, binding, shown, due, troubles>>
    BY <1>11 DEF input, lookups, strip, history, BlockAdd
  <2>. QED  BY <2>6, <2>5, <2>4, <2>1, <2>3 DEF TypeOK
<1>12. CASE BlockAddNil
  <2>1. block' \in Block /\ running' \in Operation /\ composer' \in Input
    BY <1>12, RecordTypes, Values DEF TypeOK, BlockAddNil, Input
  <2>2. queue' \in Seq(Texts) /\ answers' \in Seq(List)
    BY <1>12 DEF BlockAddNil
  <2>3. /\ block'.at = "made" => block'.text # None
        /\ running'.at = "search" => running'.text # None
    BY <1>12 DEF TypeOK, BlockAddNil, Idle, NoRun
  <2>4. held' \in BOOLEAN /\ waiting' \in BOOLEAN /\ reload' \in BOOLEAN /\ cleared' \in BOOLEAN
    BY <1>12 DEF TypeOK, input, history, lookups, BlockAddNil
  <2>5. UNCHANGED <<text>>
    BY <1>12 DEF input, lookups, strip, history, BlockAddNil
  <2>6. /\ main' = None /\ asks' = "clear" /\ last' = NoKey /\ binding' = NoList
        /\ shown' = Empty /\ due' = {Empty} /\ troubles' = {}
    BY <1>12 DEF BlockAddNil
  <2>. QED  BY <2>5, <2>6, <2>4, <2>3, <2>1, <2>2, Values DEF TypeOK
<1>13. CASE OpStart
  <2>1. troubles' \subseteq {"skipped", "torn", "late", "dropped", "repeat"}
    BY <1>13 DEF TypeOK, OpStart, Trouble
  <2>2. running' \in Operation
    BY <1>13, Values, TailLast DEF TypeOK, OpStart, Block, Operation
  <2>3. queue' \in Seq(Texts)
    BY <1>13, TailLast DEF TypeOK, OpStart
  <2>4. /\ block'.at = "made" => block'.text # None
        /\ running'.at = "search" => running'.text # None
    BY <1>13, Values, TailLast DEF TypeOK, OpStart
  <2>5. held' \in BOOLEAN /\ waiting' \in BOOLEAN /\ reload' \in BOOLEAN /\ cleared' \in BOOLEAN
    BY <1>13 DEF TypeOK, input, history, lookups, OpStart
  <2>. QED  BY <1>13, <2>5, <2>4, <2>1, <2>2, <2>3
    DEF TypeOK, input, lookups, strip, history, OpStart
<1>14. CASE OpAnswer
  <2>1. running' \in Operation /\ running'.at = "answered"
    BY <1>14, RecordTypes DEF TypeOK, Operation, OpAnswer
  <2>2. Answer(running.text, running.word) \in List
    BY <1>14, Values DEF TypeOK, OpAnswer, Block, Operation
  <2>3. answers' \in Seq(List)
    BY <1>14, <2>2, AppendLast DEF TypeOK, OpAnswer
  <2>. QED  BY <1>14, <2>1, <2>3
    DEF TypeOK, input, lookups, strip, history, OpAnswer
<1>15. CASE OpCancel
  <2>1. troubles' \subseteq {"skipped", "torn", "late", "dropped", "repeat"}
    BY <1>15 DEF TypeOK, OpCancel, Trouble
  <2>2. running' \in Operation
    BY <1>15 DEF TypeOK, OpCancel, Block, Operation
  <2>3. block' \in Block
    BY <1>15 DEF TypeOK, OpCancel, Block, Operation
  <2>4. queue' \in Seq(Texts)
    BY <1>15, CancelledQueue DEF TypeOK, OpCancel
  <2>5. /\ block'.at = "made" => block'.text # None
        /\ running'.at # "search"
    BY <1>15 DEF TypeOK, OpCancel, Block, Operation
  <2>. QED  BY <1>15, <2>5, <2>1, <2>2, <2>3, <2>4
    DEF TypeOK, input, lookups, strip, history, OpCancel
<1>16. CASE OpEnd
  <2>1. running' \in Operation
    BY <1>16, RecordTypes DEF OpEnd
  <2>2. /\ block'.at = "made" => block'.text # None
        /\ running'.at = "search" => running'.text # None
    BY <1>16 DEF TypeOK, OpEnd, NoRun
  <2>3. held' \in BOOLEAN /\ waiting' \in BOOLEAN /\ reload' \in BOOLEAN /\ cleared' \in BOOLEAN
    BY <1>16 DEF TypeOK, input, history, lookups, OpEnd
  <2>. QED  BY <1>16, <2>3, <2>2, <2>1
    DEF TypeOK, input, lookups, strip, history, OpEnd
<1>17. CASE StripUpdate
  BY <1>17
  DEF TypeOK, input, lookups, strip, history, StripUpdate
<1>18. CASE UNCHANGED vars
  BY <1>18 DEF TypeOK, vars, input, lookups, strip, history
<1>19. CASE RepeatRequest
  BY <1>19 DEF TypeOK, RepeatRequest, input, lookups, strip, history
<1>. QED  BY <1>1, <1>2, <1>3, <1>4, <1>5, <1>6, <1>7, <1>8, <1>9, <1>10, <1>11, <1>12,
     <1>13, <1>14, <1>15, <1>16, <1>17, <1>18, <1>19
  DEF Next

-----------------------------------------------------------------------------
(* Lookups that wait.                                                       *)

LEMMA PileStep ==
  ASSUME TypeOK, PileInv, [Next]_vars
  PROVE  PileInv'
<1>1. ASSUME NEW outcome \in {"look", "clear", "emoji", "keep"}, NEW in \in Input, Handle(outcome, in)
      PROVE  PileInv'
  BY <1>1
  DEF TypeOK, PileInv, Lookups, Made, Handle, Asked, input, lookups, strip, history
<1>2. CASE Commit
  BY <1>2
  DEF TypeOK, PileInv, Lookups, Made, Commit, input, lookups, strip, history
<1>3. ASSUME NEW t \in Texts, HostEdit(t)
      PROVE  PileInv'
  BY <1>3
  DEF TypeOK, PileInv, Lookups, Made, HostEdit, input, lookups, strip, history
<1>4. ASSUME NEW outcome \in {"look", "clear"}, NEW composing \in BOOLEAN, LoadKeyboard(outcome, composing)
      PROVE  PileInv'
  BY <1>4
  DEF TypeOK, PileInv, Lookups, Made, LoadKeyboard, Asked, input, lookups, strip,
      history
<1>5. ASSUME NEW outcome \in {"look", "clear"}, NEW composing \in BOOLEAN, LoadOtherField(outcome, composing)
      PROVE  PileInv'
  BY <1>5
  DEF TypeOK, PileInv, Lookups, Made, LoadOtherField, input, lookups, strip, history
<1>6. CASE MainShow
  BY <1>6
  DEF TypeOK, PileInv, Lookups, Made, MainShow, input, lookups, strip, history
<1>7. CASE BlockStart
  BY <1>7
  DEF TypeOK, PileInv, Lookups, Made, BlockStart, BlockEnd, Instead, Idle, input,
      lookups, strip, history
<1>8. CASE BlockNoText
  BY <1>8
  DEF TypeOK, PileInv, Lookups, Made, BlockNoText, BlockEnd, Instead, Idle, input,
      lookups, strip, history
<1>9. CASE BlockRepeat
  BY <1>9
  DEF TypeOK, PileInv, Lookups, Made, BlockRepeat, BlockEnd, Idle, input, lookups,
      strip, history
<1>10. CASE BlockMake
  BY <1>10, CancelledQueue
  DEF TypeOK, PileInv, Lookups, Made, BlockMake, NewLookup, input, lookups, strip,
      history
<1>11. CASE BlockAdd
  BY <1>11, AppendLast, CancelledQueue
  DEF TypeOK, PileInv, Lookups, Made, BlockAdd, BlockEnd, Idle, input, lookups, strip,
      history
<1>12. CASE BlockAddNil
  BY <1>12
  DEF TypeOK, PileInv, Lookups, Made, BlockAddNil, Idle, NoRun, NoKey, input, lookups,
      strip, history
<1>13. CASE OpStart
  BY <1>13, TailLast, CancelledQueue
  DEF TypeOK, PileInv, Lookups, Made, OpStart, input, lookups, strip, history
<1>14. CASE OpAnswer
  BY <1>14
  DEF TypeOK, PileInv, Lookups, Made, OpAnswer, input, lookups, strip, history
<1>15. CASE OpCancel
  BY <1>15, CancelledQueue
  DEF TypeOK, PileInv, Lookups, Made, OpCancel, input, lookups, strip, history
<1>16. CASE OpEnd
  BY <1>16
  DEF TypeOK, PileInv, Lookups, Made, OpEnd, NoRun, input, lookups, strip, history
<1>17. CASE StripUpdate
  BY <1>17
  DEF TypeOK, PileInv, Lookups, Made, StripUpdate, input, lookups, strip, history
<1>18. CASE UNCHANGED vars
  BY <1>18 DEF PileInv, Lookups, Made, vars, input, lookups, strip, history
<1>19. CASE RepeatRequest
  BY <1>19 DEF PileInv, Lookups, Made, RepeatRequest, input, lookups, strip, history
<1>. QED  BY <1>1, <1>2, <1>3, <1>4, <1>5, <1>6, <1>7, <1>8, <1>9, <1>10, <1>11, <1>12,
     <1>13, <1>14, <1>15, <1>16, <1>17, <1>18, <1>19
  DEF Next

-----------------------------------------------------------------------------
(* What is due, and the text.                                               *)

LEMMA DueStep ==
  ASSUME TypeOK, DueInv, [Next]_vars
  PROVE  DueInv'
<1>1. ASSUME NEW outcome \in {"look", "clear", "emoji", "keep"}, NEW in \in Input, Handle(outcome, in)
      PROVE  DueInv'
  BY <1>1, Values
  DEF DueInv, DueAfter, Right, WordOf, Handle, Asked, input, lookups, strip, history
<1>2. CASE Commit
  BY <1>2
  DEF DueInv, DueAfter, Right, WordOf, Commit, input, lookups, strip, history
<1>3. ASSUME NEW t \in Texts, HostEdit(t)
      PROVE  DueInv'
  BY <1>3
  DEF DueInv, DueAfter, Right, WordOf, HostEdit, input, lookups, strip, history
<1>4. ASSUME NEW outcome \in {"look", "clear"}, NEW composing \in BOOLEAN, LoadKeyboard(outcome, composing)
      PROVE  DueInv'
  BY <1>4, Values
  DEF DueInv, DueAfter, Right, WordOf, LoadKeyboard, Asked, input, lookups, strip,
      history
<1>5. ASSUME NEW outcome \in {"look", "clear"}, NEW composing \in BOOLEAN, LoadOtherField(outcome, composing)
      PROVE  DueInv'
  BY <1>5, Values
  DEF DueInv, DueAfter, Right, WordOf, LoadOtherField, input, lookups, strip, history
<1>6. CASE MainShow
  BY <1>6
  DEF DueInv, DueAfter, Right, WordOf, MainShow, input, lookups, strip, history
<1>7. CASE BlockStart
  BY <1>7
  DEF DueInv, DueAfter, Right, WordOf, BlockStart, BlockEnd, Instead, Idle, input,
      lookups, strip, history
<1>8. CASE BlockNoText
  BY <1>8
  DEF DueInv, DueAfter, Right, WordOf, BlockNoText, BlockEnd, Instead, Idle, input,
      lookups, strip, history
<1>9. CASE BlockRepeat
  BY <1>9
  DEF DueInv, DueAfter, Right, WordOf, BlockRepeat, BlockEnd, Idle, input, lookups,
      strip, history
<1>10. CASE BlockMake
  BY <1>10
  DEF DueInv, DueAfter, Right, WordOf, BlockMake, NewLookup, input, lookups, strip,
      history
<1>11. CASE BlockAdd
  BY <1>11
  DEF DueInv, DueAfter, Right, WordOf, BlockAdd, BlockEnd, Idle, input, lookups, strip,
      history
<1>12. CASE BlockAddNil
  BY <1>12
  DEF DueInv, DueAfter, Right, WordOf, BlockAddNil, Idle, NoRun, NoKey, input, lookups,
      strip, history
<1>13. CASE OpStart
  BY <1>13
  DEF DueInv, DueAfter, Right, WordOf, OpStart, input, lookups, strip, history
<1>14. CASE OpAnswer
  BY <1>14
  DEF DueInv, DueAfter, Right, WordOf, OpAnswer, input, lookups, strip, history
<1>15. CASE OpCancel
  BY <1>15
  DEF DueInv, DueAfter, Right, WordOf, OpCancel, input, lookups, strip, history
<1>16. CASE OpEnd
  BY <1>16
  DEF DueInv, DueAfter, Right, WordOf, OpEnd, NoRun, input, lookups, strip, history
<1>17. CASE StripUpdate
  BY <1>17
  DEF DueInv, DueAfter, Right, WordOf, StripUpdate, input, lookups, strip, history
<1>18. CASE UNCHANGED vars
  BY <1>18 DEF DueInv, DueAfter, Right, WordOf, vars, input, lookups, strip, history
<1>19. CASE RepeatRequest
  BY <1>19 DEF DueInv, DueAfter, Right, WordOf, RepeatRequest, input, lookups, strip, history
<1>. QED  BY <1>1, <1>2, <1>3, <1>4, <1>5, <1>6, <1>7, <1>8, <1>9, <1>10, <1>11, <1>12,
     <1>13, <1>14, <1>15, <1>16, <1>17, <1>18, <1>19
  DEF Next

LEMMA TextStep ==
  ASSUME TypeOK, TextInv, [Next]_vars
  PROVE  TextInv'
<1>1. ASSUME NEW outcome \in {"look", "clear", "emoji", "keep"}, NEW in \in Input, Handle(outcome, in)
      PROVE  TextInv'
  BY <1>1, Values
  DEF TypeOK, Input, TextInv, Handle, Asked, input, lookups, strip, history
<1>2. CASE Commit
  BY <1>2, Values
  DEF TypeOK, Input, TextInv, Commit, input, lookups, strip, history
<1>3. ASSUME NEW t \in Texts, HostEdit(t)
      PROVE  TextInv'
  BY <1>3
  DEF TypeOK, Input, TextInv, HostEdit, input, lookups, strip, history
<1>4. ASSUME NEW outcome \in {"look", "clear"}, NEW composing \in BOOLEAN, LoadKeyboard(outcome, composing)
      PROVE  TextInv'
  BY <1>4, Values
  DEF TypeOK, Input, TextInv, LoadKeyboard, Asked, input, lookups, strip, history
<1>5. ASSUME NEW outcome \in {"look", "clear"}, NEW composing \in BOOLEAN, LoadOtherField(outcome, composing)
      PROVE  TextInv'
  BY <1>5, Values
  DEF TypeOK, Input, TextInv, LoadOtherField, input, lookups, strip, history
<1>6. CASE MainShow
  BY <1>6
  DEF TypeOK, Input, TextInv, MainShow, input, lookups, strip, history
<1>7. CASE BlockStart
  BY <1>7
  DEF TypeOK, Input, TextInv, BlockStart, BlockEnd, Instead, Idle, input, lookups,
      strip, history
<1>8. CASE BlockNoText
  BY <1>8
  DEF TypeOK, Input, TextInv, BlockNoText, BlockEnd, Instead, Idle, input, lookups,
      strip, history
<1>9. CASE BlockRepeat
  BY <1>9
  DEF TypeOK, Input, TextInv, BlockRepeat, BlockEnd, Idle, input, lookups, strip,
      history
<1>10. CASE BlockMake
  BY <1>10
  DEF TypeOK, Input, TextInv, BlockMake, NewLookup, input, lookups, strip, history
<1>11. CASE BlockAdd
  BY <1>11
  DEF TypeOK, Input, TextInv, BlockAdd, BlockEnd, Idle, input, lookups, strip, history
<1>12. CASE BlockAddNil
  BY <1>12
  DEF TypeOK, Input, TextInv, BlockAddNil, Idle, NoRun, NoKey, input, lookups, strip,
      history
<1>13. CASE OpStart
  BY <1>13
  DEF TypeOK, Input, TextInv, OpStart, input, lookups, strip, history
<1>14. CASE OpAnswer
  BY <1>14
  DEF TypeOK, Input, TextInv, OpAnswer, input, lookups, strip, history
<1>15. CASE OpCancel
  BY <1>15
  DEF TypeOK, Input, TextInv, OpCancel, input, lookups, strip, history
<1>16. CASE OpEnd
  BY <1>16
  DEF TypeOK, Input, TextInv, OpEnd, NoRun, input, lookups, strip, history
<1>17. CASE StripUpdate
  BY <1>17
  DEF TypeOK, Input, TextInv, StripUpdate, input, lookups, strip, history
<1>18. CASE UNCHANGED vars
  BY <1>18 DEF TypeOK, Input, TextInv, vars, input, lookups, strip, history
<1>19. CASE RepeatRequest
  BY <1>19 DEF TypeOK, Input, TextInv, RepeatRequest, input, lookups, strip, history
<1>. QED  BY <1>1, <1>2, <1>3, <1>4, <1>5, <1>6, <1>7, <1>8, <1>9, <1>10, <1>11, <1>12,
     <1>13, <1>14, <1>15, <1>16, <1>17, <1>18, <1>19
  DEF Next

-----------------------------------------------------------------------------
(* The last lookup.                                                         *)

LEMMA OtherStep ==
  ASSUME TypeOK, LastInv, OtherInv, [Next]_vars
  PROVE  OtherInv'
<1>1. ASSUME NEW outcome \in {"look", "clear", "emoji", "keep"}, NEW in \in Input, Handle(outcome, in)
      PROVE  OtherInv'
  BY <1>1
  DEF TypeOK, LastInv, OtherInv, NoLookup, LeadsTo, Made, InFlight, Trouble, Handle,
      Asked, input, lookups, strip, history
<1>2. CASE Commit
  BY <1>2
  DEF TypeOK, LastInv, OtherInv, NoLookup, LeadsTo, Made, InFlight, Trouble, Commit,
      input, lookups, strip, history
<1>3. ASSUME NEW t \in Texts, HostEdit(t)
      PROVE  OtherInv'
  BY <1>3
  DEF TypeOK, LastInv, OtherInv, NoLookup, LeadsTo, Made, InFlight, Trouble, HostEdit,
      input, lookups, strip, history
<1>4. ASSUME NEW outcome \in {"look", "clear"}, NEW composing \in BOOLEAN, LoadKeyboard(outcome, composing)
      PROVE  OtherInv'
  BY <1>4
  DEF TypeOK, LastInv, OtherInv, NoLookup, LeadsTo, Made, InFlight, Trouble,
      LoadKeyboard, Asked, input, lookups, strip, history
<1>5. ASSUME NEW outcome \in {"look", "clear"}, NEW composing \in BOOLEAN, LoadOtherField(outcome, composing)
      PROVE  OtherInv'
  BY <1>5
  DEF TypeOK, LastInv, OtherInv, NoLookup, LeadsTo, Made, InFlight, Trouble,
      LoadOtherField, input, lookups, strip, history
<1>6. CASE MainShow
  BY <1>6, TailLast
  DEF TypeOK, LastInv, OtherInv, NoLookup, LeadsTo, Made, InFlight, Trouble, MainShow,
      input, lookups, strip, history
<1>7. CASE BlockStart
  <2>1. block.at = "idle" /\ UNCHANGED <<queue, running, last>> /\ block'.at \in {"idle", "asked"}
    BY <1>7 DEF BlockStart, BlockEnd, Idle
  <2>2. \/ Instead
        \/ UNCHANGED <<answers, cleared, troubles>>
    BY <1>7 DEF BlockStart
  <2>3. CASE Instead
    BY <2>1, <2>3 DEF OtherInv, NoLookup, Made, Instead, InFlight, Trouble
  <2>4. CASE UNCHANGED <<answers, cleared, troubles>>
    BY <2>1, <2>4 DEF OtherInv, NoLookup, Made
  <2>. QED  BY <2>2, <2>3, <2>4
<1>8. CASE BlockNoText
  BY <1>8, Values
  DEF TypeOK, LastInv, OtherInv, NoLookup, LeadsTo, Made, InFlight, Trouble,
      BlockNoText, BlockEnd, Instead, Idle, input, lookups, strip, history
<1>9. CASE BlockRepeat
  BY <1>9
  DEF TypeOK, LastInv, OtherInv, NoLookup, LeadsTo, Made, InFlight, Trouble,
      BlockRepeat, BlockEnd, Idle, input, lookups, strip, history
<1>10. CASE BlockMake
  <2>1. ~cleared' /\ last' = Key(text, block.composing)
    BY <1>10 DEF BlockMake, NewLookup
  <2>2. last' # NoKey
    BY <2>1, Values DEF TypeOK, Block
  <2>. QED  BY <2>1, <2>2 DEF OtherInv
<1>11. CASE BlockAdd
  BY <1>11, AppendLast, CancelledQueue
  DEF TypeOK, LastInv, OtherInv, NoLookup, LeadsTo, Made, InFlight, Trouble, BlockAdd,
      BlockEnd, Idle, input, lookups, strip, history
<1>12. CASE BlockAddNil
  BY <1>12, Values
  DEF TypeOK, LastInv, OtherInv, NoLookup, LeadsTo, Made, InFlight, Trouble,
      BlockAddNil, Idle, NoRun, NoKey, input, lookups, strip, history
<1>13. CASE OpStart
  BY <1>13, TailLast
  DEF TypeOK, LastInv, OtherInv, NoLookup, LeadsTo, Made, InFlight, Trouble, OpStart,
      input, lookups, strip, history
<1>14. CASE OpAnswer
  BY <1>14, AppendLast, Values
  DEF TypeOK, LastInv, OtherInv, NoLookup, LeadsTo, Made, InFlight, Trouble, OpAnswer,
      input, lookups, strip, history
<1>15. CASE OpCancel
  BY <1>15, CancelledQueue
  DEF TypeOK, LastInv, OtherInv, NoLookup, LeadsTo, Made, InFlight, Trouble, OpCancel,
      input, lookups, strip, history
<1>16. CASE OpEnd
  BY <1>16
  DEF TypeOK, LastInv, OtherInv, NoLookup, LeadsTo, Made, InFlight, Trouble, OpEnd,
      NoRun, input, lookups, strip, history
<1>17. CASE StripUpdate
  BY <1>17
  DEF TypeOK, LastInv, OtherInv, NoLookup, LeadsTo, Made, InFlight, Trouble,
      StripUpdate, input, lookups, strip, history
<1>18. CASE UNCHANGED vars
  BY <1>18
  DEF TypeOK, LastInv, OtherInv, NoLookup, LeadsTo, Made, InFlight, Trouble, vars,
      input, lookups, strip, history
<1>19. CASE RepeatRequest
  BY <1>19
  DEF TypeOK, LastInv, OtherInv, NoLookup, LeadsTo, Made, InFlight, Trouble, RepeatRequest,
      input, lookups, strip, history
<1>. QED  BY <1>1, <1>2, <1>3, <1>4, <1>5, <1>6, <1>7, <1>8, <1>9, <1>10, <1>11, <1>12,
     <1>13, <1>14, <1>15, <1>16, <1>17, <1>18, <1>19
  DEF Next

\* What goes from the answers to the strip stays what is shown in the end.
LEMMA MainShowKeepsFinal ==
  ASSUME TypeOK, MainShow
  PROVE  Final' = Final
<1>1. answers # <<>> /\ answers \in Seq(List)
  BY DEF TypeOK, MainShow
<1>2. binding' = Head(answers) /\ answers' = Tail(answers)
  BY DEF MainShow
<1>3. Head(answers) # NoList
  BY <1>1, TailLast, Values
<1>. QED  BY <1>1, <1>2, <1>3, TailLast DEF Final

LEMMA LastStep ==
  ASSUME TypeOK, LastInv, OtherInv, [Next]_vars
  PROVE  LastInv'
<1>1. ASSUME NEW outcome \in {"look", "clear", "emoji", "keep"}, NEW in \in Input, Handle(outcome, in)
      PROVE  LastInv'
  BY <1>1
  DEF TypeOK, LastInv, OtherInv, NoLookup, LeadsTo, Final, Made, InFlight, Trouble,
      Want, WordOf, Handle, Asked, input, lookups, strip, history
<1>2. CASE Commit
  BY <1>2
  DEF TypeOK, LastInv, OtherInv, NoLookup, LeadsTo, Final, Made, InFlight, Trouble,
      Want, WordOf, Commit, input, lookups, strip, history
<1>3. ASSUME NEW t \in Texts, HostEdit(t)
      PROVE  LastInv'
  BY <1>3
  DEF TypeOK, LastInv, OtherInv, NoLookup, LeadsTo, Final, Made, InFlight, Trouble,
      Want, WordOf, HostEdit, input, lookups, strip, history
<1>4. ASSUME NEW outcome \in {"look", "clear"}, NEW composing \in BOOLEAN, LoadKeyboard(outcome, composing)
      PROVE  LastInv'
  BY <1>4
  DEF TypeOK, LastInv, OtherInv, NoLookup, LeadsTo, Final, Made, InFlight, Trouble,
      Want, WordOf, LoadKeyboard, Asked, input, lookups, strip, history
<1>5. ASSUME NEW outcome \in {"look", "clear"}, NEW composing \in BOOLEAN, LoadOtherField(outcome, composing)
      PROVE  LastInv'
  BY <1>5
  DEF TypeOK, LastInv, OtherInv, NoLookup, LeadsTo, Final, Made, InFlight, Trouble,
      Want, WordOf, LoadOtherField, input, lookups, strip, history
<1>6. CASE MainShow
  <2>1. UNCHANGED <<troubles, cleared, last, block, queue, running>>
    BY <1>6 DEF MainShow, history
  <2>2. Final' = Final
    BY <1>6, MainShowKeepsFinal
  <2>. QED  BY <2>1, <2>2 DEF LastInv, LeadsTo, NoLookup, Made, Want
<1>7. CASE BlockStart
  BY <1>7, AppendLast, Values
  DEF TypeOK, LastInv, OtherInv, NoLookup, LeadsTo, Final, Made, InFlight, Trouble,
      Want, WordOf, BlockStart, BlockEnd, Instead, Idle, input, lookups, strip, history
<1>8. CASE BlockNoText
  BY <1>8, Values
  DEF TypeOK, LastInv, OtherInv, NoLookup, LeadsTo, Final, Made, InFlight, Trouble,
      Want, WordOf, BlockNoText, BlockEnd, Instead, Idle, input, lookups, strip, history
<1>9. CASE BlockRepeat
  BY <1>9
  DEF TypeOK, LastInv, OtherInv, NoLookup, LeadsTo, Final, Made, InFlight, Trouble,
      Want, WordOf, BlockRepeat, BlockEnd, Idle, input, lookups, strip, history
<1>10. CASE BlockMake
  BY <1>10 DEF LastInv, LeadsTo, Made, Key, TypeOK, Block, BlockMake
<1>11. CASE BlockAdd
  BY <1>11, AppendLast, CancelledQueue
  DEF TypeOK, LastInv, OtherInv, NoLookup, LeadsTo, Final, Made, InFlight, Trouble,
      Want, WordOf, BlockAdd, BlockEnd, Idle, input, lookups, strip, history
<1>12. CASE BlockAddNil
  BY <1>12, Values
  DEF TypeOK, LastInv, OtherInv, NoLookup, LeadsTo, Final, Made, InFlight, Trouble,
      Want, WordOf, BlockAddNil, Idle, NoRun, NoKey, input, lookups, strip, history
<1>13. CASE OpStart
  BY <1>13, TailLast
  DEF TypeOK, LastInv, OtherInv, NoLookup, LeadsTo, Final, Made, InFlight, Trouble,
      Want, WordOf, OpStart, input, lookups, strip, history
<1>14. CASE OpAnswer
  BY <1>14, AppendLast, Values
  DEF TypeOK, LastInv, OtherInv, NoLookup, LeadsTo, Final, Made, InFlight, Trouble,
      Want, WordOf, OpAnswer, input, lookups, strip, history
<1>15. CASE OpCancel
  <2>1. SUFFICES ASSUME troubles' = {}, ~cleared', last' # NoKey
                 PROVE  LeadsTo(last)'
    BY DEF LastInv
  <2>2. troubles = {} /\ ~cleared /\ last # NoKey /\ ~(held /\ (Made \/ queue # <<>>))
    BY <1>15, <2>1 DEF OpCancel, Trouble, Made
  <2>3. LeadsTo(last)
    BY <2>2 DEF LastInv
  <2>4. UNCHANGED <<queue, block, answers, binding, shown, last>>
    BY <1>15, <2>2 DEF OpCancel, Cancelled, Made, strip
  <2>5. running.at = "answered" /\ running'.at = "cancelled"
    BY <1>15 DEF TypeOK, Operation, OpCancel
  <2>. QED  BY <2>3, <2>4, <2>5 DEF LeadsTo, NoLookup, Final, Made, Want
<1>16. CASE OpEnd
  BY <1>16
  DEF TypeOK, LastInv, OtherInv, NoLookup, LeadsTo, Final, Made, InFlight, Trouble,
      Want, WordOf, OpEnd, NoRun, input, lookups, strip, history
<1>17. CASE StripUpdate
  BY <1>17
  DEF TypeOK, LastInv, OtherInv, NoLookup, LeadsTo, Final, Made, InFlight, Trouble,
      Want, WordOf, StripUpdate, input, lookups, strip, history
<1>18. CASE UNCHANGED vars
  BY <1>18
  DEF TypeOK, LastInv, OtherInv, NoLookup, LeadsTo, Final, Made, InFlight, Trouble,
      Want, WordOf, vars, input, lookups, strip, history
<1>19. CASE RepeatRequest
  BY <1>19
  DEF TypeOK, LastInv, OtherInv, NoLookup, LeadsTo, Final, Made, InFlight, Trouble,
      Want, WordOf, RepeatRequest, input, lookups, strip, history
<1>. QED  BY <1>1, <1>2, <1>3, <1>4, <1>5, <1>6, <1>7, <1>8, <1>9, <1>10, <1>11, <1>12,
     <1>13, <1>14, <1>15, <1>16, <1>17, <1>18, <1>19
  DEF Next

-----------------------------------------------------------------------------
(* The strip settles.                                                       *)

LEMMA NotDropped ==
  ASSUME LastInv, OtherInv, troubles = {}
  PROVE  block.at # "dropped"
BY DEF LastInv, OtherInv, LeadsTo, NoLookup, Made

\* What is delivered stays what is shown in the end.
LEMMA StripUpdateKeepsFinal ==
  ASSUME TypeOK, StripUpdate
  PROVE  Final' = Final
BY Values DEF TypeOK, StripUpdate, Final, lookups

\* A strip that is emptied while nothing else is under way stays empty.
LEMMA EmptiedStrip ==
  ASSUME TypeOK, LastInv, OtherInv, troubles = {}, ~InFlight, block.at # "asked",
         binding' = Empty, UNCHANGED <<block, queue, running, answers>>
  PROVE  NoLookup' /\ Final' = Empty
<1>1. block.at # "dropped"
  BY NotDropped
<1>2. queue = <<>> /\ answers = <<>> /\ running.at # "search" /\ ~Made
  BY DEF InFlight, Made
<1>. QED  BY <1>1, <1>2, Values DEF NoLookup, Final, Made

LEMMA ComposerRecord ==
  ASSUME TypeOK, NEW b, b = composer.composing
  PROVE  [text |-> composer.text, composing |-> b] = composer
BY DEF TypeOK, Input

LEMMA SameComposing ==
  ASSUME TypeOK, NEW in \in Input, WordOf(in) = WordOf(composer)
  PROVE  in.composing = composer.composing
BY PipelineAssumption DEF TypeOK, Input, WordOf

\* The list of a key is the one its input should get.
LEMMA KeyWanted ==
  ASSUME TypeOK, block.at = "asked", text # NoText, Enabled(block.composing),
         Right([text |-> text, composing |-> block.composing]) \in due
  PROVE  LET key == Key(text, block.composing) IN
         /\ key # NoKey /\ key.text = text /\ key.composing = block.composing
         /\ Want(key) \in due
BY Values DEF TypeOK, Block, Key, NoKey, Want, Right, WordOf, Answer

LEMMA AskedStep ==
  ASSUME TypeOK, DueInv, TextInv, AskedInv, [Next]_vars
  PROVE  AskedInv'
<1>1. ASSUME NEW outcome \in {"look", "clear", "emoji", "keep"}, NEW in \in Input, Handle(outcome, in)
      PROVE  AskedInv'
  BY <1>1, Values
  DEF TypeOK, AskedInv, AskedRight, Pending, Handle, Asked, input, lookups, strip,
      history
<1>2. CASE Commit
  BY <1>2
  DEF TypeOK, AskedInv, AskedRight, Pending, Commit, input, lookups, strip, history
<1>3. ASSUME NEW t \in Texts, HostEdit(t)
      PROVE  AskedInv'
  BY <1>3
  DEF TypeOK, AskedInv, AskedRight, Pending, HostEdit, input, lookups, strip, history
<1>4. ASSUME NEW outcome \in {"look", "clear"}, NEW composing \in BOOLEAN, LoadKeyboard(outcome, composing)
      PROVE  AskedInv'
  BY <1>4, Values
  DEF TypeOK, AskedInv, AskedRight, Pending, LoadKeyboard, Asked, input, lookups,
      strip, history
<1>5. ASSUME NEW outcome \in {"look", "clear"}, NEW composing \in BOOLEAN, LoadOtherField(outcome, composing)
      PROVE  AskedInv'
  BY <1>5, Values
  DEF TypeOK, AskedInv, AskedRight, Pending, LoadOtherField, input, lookups, strip,
      history
<1>6. CASE MainShow
  BY <1>6
  DEF TypeOK, AskedInv, AskedRight, Pending, MainShow, input, lookups, strip, history
<1>7. CASE BlockStart
  <2>1. SUFFICES ASSUME block'.at = "asked", asks' = "look", ~reload', ~Pending'
                 PROVE  AskedRight'
    BY DEF AskedInv
  <2>2. /\ Enabled(composer.composing) /\ block'.composing = composer.composing
        /\ asks = "look" /\ ~reload /\ main = None /\ UNCHANGED <<input, due>>
    BY <1>7, <2>1 DEF BlockStart, BlockEnd, Idle, Pending, input
  <2>3. text = composer.text /\ due = {Right(composer)}
    BY <2>2 DEF TextInv, DueInv
  <2>. QED  BY <2>2, <2>3, ComposerRecord DEF AskedRight, input
<1>8. CASE BlockNoText
  BY <1>8
  DEF TypeOK, AskedInv, AskedRight, Pending, BlockNoText, BlockEnd, Idle, input,
      lookups, strip, history
<1>9. CASE BlockRepeat
  BY <1>9
  DEF TypeOK, AskedInv, AskedRight, Pending, BlockRepeat, BlockEnd, Idle, input,
      lookups, strip, history
<1>10. CASE BlockMake
  BY <1>10
  DEF TypeOK, AskedInv, AskedRight, Pending, BlockMake, NewLookup, input, lookups,
      strip, history
<1>11. CASE BlockAdd
  BY <1>11
  DEF TypeOK, AskedInv, AskedRight, Pending, BlockAdd, BlockEnd, Idle, input, lookups,
      strip, history
<1>12. CASE BlockAddNil
  BY <1>12
  DEF TypeOK, AskedInv, AskedRight, Pending, BlockAddNil, Idle, NoRun, NoKey, input,
      lookups, strip, history
<1>13. CASE OpStart
  BY <1>13
  DEF TypeOK, AskedInv, AskedRight, Pending, OpStart, input, lookups, strip, history
<1>14. CASE OpAnswer
  BY <1>14
  DEF TypeOK, AskedInv, AskedRight, Pending, OpAnswer, input, lookups, strip, history
<1>15. CASE OpCancel
  <2>1. UNCHANGED <<input, waiting, due>>
    BY <1>15 DEF OpCancel
  <2>2. block'.at = "asked" => UNCHANGED block
    BY <1>15 DEF TypeOK, Block, OpCancel
  <2>. QED  BY <2>1, <2>2 DEF AskedInv, AskedRight, Pending, input
<1>16. CASE OpEnd
  BY <1>16
  DEF TypeOK, AskedInv, AskedRight, Pending, OpEnd, NoRun, input, lookups, strip,
      history
<1>17. CASE StripUpdate
  BY <1>17
  DEF TypeOK, AskedInv, AskedRight, Pending, StripUpdate, input, lookups, strip, history
<1>18. CASE UNCHANGED vars
  BY <1>18 DEF AskedInv, AskedRight, Pending, vars, input, lookups, strip, history
<1>19. CASE RepeatRequest
  BY <1>19 DEF AskedInv, AskedRight, Pending, RepeatRequest, input, lookups, strip, history
<1>. QED  BY <1>1, <1>2, <1>3, <1>4, <1>5, <1>6, <1>7, <1>8, <1>9, <1>10, <1>11, <1>12,
     <1>13, <1>14, <1>15, <1>16, <1>17, <1>18, <1>19
  DEF Next

LEMMA SettleStep ==
  ASSUME IInv, [Next]_vars
  PROVE  SettleInv'
<1>. USE DEF IInv
<1>1. ASSUME NEW outcome \in {"look", "clear", "emoji", "keep"}, NEW in \in Input, Handle(outcome, in)
      PROVE  SettleInv'
  <2>1. SUFFICES ASSUME troubles' = {}, ~reload', ~Pending'
                 PROVE  IF block'.at = "asked" THEN AskedRight' ELSE Settled'
    BY DEF SettleInv
  <2>2. outcome \in {"clear", "keep"} /\ troubles = {} /\ UNCHANGED <<block, queue, running, answers, shown, reload>>
    BY <1>1, <2>1, Values DEF Handle, Asked, Pending, Trouble, lookups
  <2>3. CASE outcome = "clear"
    <3>1. ~InFlight /\ block.at # "asked" /\ binding' = Empty /\ due' = {Empty}
      BY <1>1, <2>1, <2>3 DEF Handle, Asked, Trouble, DueAfter
    <3>. QED  BY <2>2, <3>1, EmptiedStrip DEF Settled
  <2>4. CASE outcome = "keep"
    <3>1. /\ ~Pending /\ ~reload /\ asks' = "keep" /\ due \subseteq due' /\ composer' = in
          /\ UNCHANGED <<binding, cleared, last, text>>
      BY <1>1, <2>1, <2>4 DEF TypeOK, Handle, Asked, Trouble, DueAfter, Pending, lookups
    <3>2. in.composing = composer.composing
      BY <1>1, <2>4, SameComposing DEF Handle, Possible
    <3>3. IF block.at = "asked" THEN AskedRight ELSE Settled
      BY <2>2, <3>1 DEF SettleInv
    <3>. QED  BY <2>2, <3>1, <3>2, <3>3 DEF AskedRight, Settled, NoLookup, Made, Final
  <2>. QED  BY <2>2, <2>3, <2>4
<1>2. CASE Commit
  <2>1. SUFFICES ASSUME troubles' = {}, ~reload', ~Pending'
                 PROVE  IF block'.at = "asked" THEN AskedRight' ELSE Settled'
    BY DEF SettleInv
  <2>2. /\ ~Pending /\ ~reload /\ troubles = {} /\ text' = composer.text
        /\ UNCHANGED <<composer, asks, block, lookups, strip, due, cleared>>
    BY <1>2, <2>1 DEF Commit, Pending, TextInv, history
  <2>3. IF block.at = "asked" THEN AskedRight ELSE Settled
    BY <2>2 DEF SettleInv
  <2>4. CASE block.at = "asked"
    <3>1. Right(composer) \in due
      BY <2>3, <2>4 DEF AskedRight, DueInv
    <3>. QED  BY <2>2, <2>3, <2>4, <3>1, ComposerRecord DEF AskedRight
  <2>5. CASE block.at # "asked"
    BY <2>2, <2>3, <2>5 DEF Settled, NoLookup, Made, Final, lookups, strip
  <2>. QED  BY <2>4, <2>5
<1>3. ASSUME NEW t \in Texts, HostEdit(t)
      PROVE  SettleInv'
  BY <1>3 DEF SettleInv, HostEdit
<1>4. ASSUME NEW outcome \in {"look", "clear"}, NEW composing \in BOOLEAN, LoadKeyboard(outcome, composing)
      PROVE  SettleInv'
  <2>1. SUFFICES ASSUME troubles' = {}, ~reload', ~Pending'
                 PROVE  IF block'.at = "asked" THEN AskedRight' ELSE Settled'
    BY DEF SettleInv
  <2>2. /\ outcome = "clear" /\ troubles = {} /\ binding' = Empty /\ due' = {Empty}
        /\ ~InFlight /\ block.at # "asked" /\ UNCHANGED <<block, queue, running, answers>>
    BY <1>4, <2>1, Values
    DEF LoadKeyboard, Asked, Pending, Trouble, DueAfter, lookups, TypeOK
  <2>. QED  BY <2>2, EmptiedStrip DEF Settled
<1>5. ASSUME NEW outcome \in {"look", "clear"}, NEW composing \in BOOLEAN, LoadOtherField(outcome, composing)
      PROVE  SettleInv'
  <2>1. SUFFICES ASSUME troubles' = {}, ~reload', ~Pending'
                 PROVE  IF block'.at = "asked" THEN AskedRight' ELSE Settled'
    BY DEF SettleInv
  <2>2. /\ outcome = "clear" /\ troubles = {} /\ binding' = Empty /\ due' = {Empty}
        /\ ~InFlight /\ block.at # "asked" /\ UNCHANGED <<block, queue, running, answers>>
    BY <1>5, <2>1, Values
    DEF LoadOtherField, Asked, Pending, Trouble, DueAfter, lookups, TypeOK
  <2>. QED  BY <2>2, EmptiedStrip DEF Settled
<1>6. CASE MainShow
  <2>1. UNCHANGED <<input, waiting, block, last, queue, running, history>> /\ Final' = Final
    BY <1>6, MainShowKeepsFinal DEF MainShow, lookups
  <2>. QED  BY <2>1
    DEF SettleInv, AskedRight, Settled, Pending, NoLookup, Made, input, history
<1>7. CASE BlockStart
  <2>1. SUFFICES ASSUME troubles' = {}, ~reload', ~Pending'
                 PROVE  IF block'.at = "asked" THEN AskedRight' ELSE Settled'
    BY DEF SettleInv
  <2>2. block.at = "idle" /\ UNCHANGED <<input, last, queue, running, shown, due>>
    BY <1>7 DEF BlockStart
  <2>3. CASE asks \in {"clear", "keep"}
    <3>1. block' = Idle /\ UNCHANGED <<answers, binding, cleared, troubles>>
      BY <1>7, <2>3 DEF BlockStart, BlockEnd
    <3>2. Settled
      BY <2>1, <2>2, <2>3, <3>1 DEF SettleInv, Pending, input
    <3>. QED  BY <2>2, <3>1, <3>2 DEF Settled, NoLookup, Made, Final, Idle
  <2>4. CASE asks = "emoji"
    <3>1. block' = Idle /\ answers' = Append(answers, EmojiList) /\ ~InFlight
      BY <1>7, <2>1, <2>4 DEF BlockStart, BlockEnd, Instead, Trouble
    <3>2. NoLookup'
      BY <2>2, <3>1 DEF NoLookup, Made, Idle, InFlight
    <3>3. Final' = EmojiList
      BY <3>1, AppendLast, Values DEF TypeOK, Final
    <3>. QED  BY <2>2, <2>4, <3>1, <3>2, <3>3 DEF DueInv, Settled, Idle
  <2>5. CASE asks = "look" /\ ~Enabled(composer.composing)
    <3>1. block' = Idle /\ binding' = Empty /\ answers' = answers /\ ~InFlight
      BY <1>7, <2>1, <2>5 DEF BlockStart, BlockEnd, Instead, Trouble
    <3>2. NoLookup' /\ Final' = Empty
      BY <2>2, <3>1, Values DEF NoLookup, Made, Idle, InFlight, Final
    <3>3. due = {Empty}
      BY <2>5 DEF DueInv, Right
    <3>. QED  BY <2>2, <3>1, <3>2, <3>3 DEF Settled, Idle
  <2>6. CASE asks = "look" /\ Enabled(composer.composing)
    <3>1. block'.at = "asked"
      BY <1>7, <2>6 DEF BlockStart
    <3>2. AskedInv'
      BY AskedStep
    <3>. QED  BY <2>1, <2>2, <2>6, <3>1, <3>2 DEF AskedInv, input
  <2>. QED  BY <2>3, <2>4, <2>5, <2>6 DEF TypeOK
<1>8. CASE BlockNoText
  <2>1. SUFFICES ASSUME troubles' = {}, ~reload', ~Pending'
                 PROVE  IF block'.at = "asked" THEN AskedRight' ELSE Settled'
    BY DEF SettleInv
  <2>2. /\ block.at = "asked" /\ text = NoText /\ block' = Idle /\ binding' = Empty /\ ~InFlight
        /\ troubles = {} /\ UNCHANGED <<input, waiting, queue, running, answers, due>>
    BY <1>8, <2>1 DEF BlockNoText, BlockEnd, Instead, Trouble
  <2>3. AskedRight
    BY <2>1, <2>2 DEF SettleInv, Pending, input
  <2>4. Empty \in due
    BY <2>2, <2>3 DEF AskedRight, Right
  <2>5. NoLookup' /\ Final' = Empty
    BY <2>2, Values DEF NoLookup, Made, Idle, InFlight, Final
  <2>. QED  BY <2>2, <2>4, <2>5 DEF Settled, Idle
<1>9. CASE BlockRepeat
  <2>1. SUFFICES ASSUME troubles' = {}, ~reload', ~Pending'
                 PROVE  IF block'.at = "asked" THEN AskedRight' ELSE Settled'
    BY DEF SettleInv
  <2>2. /\ block.at = "asked" /\ text # NoText /\ last = Key(text, block.composing)
        /\ block' = Idle /\ ~cleared /\ troubles = {}
        /\ UNCHANGED <<input, waiting, lookups, strip, due, cleared>>
    BY <1>9, <2>1 DEF BlockRepeat, BlockEnd, Trouble
  <2>3. AskedRight
    BY <2>1, <2>2 DEF SettleInv, Pending, input
  <2>4. Settled'
    BY <2>2, <2>3, KeyWanted DEF Settled, AskedRight, lookups
  <2>. QED  BY <2>2, <2>4 DEF Idle
<1>10. CASE BlockMake
  <2>1. SUFFICES ASSUME troubles' = {}, ~reload', ~Pending'
                 PROVE  IF block'.at = "asked" THEN AskedRight' ELSE Settled'
    BY DEF SettleInv
  <2>2. /\ block.at = "asked" /\ text # NoText /\ last' = Key(text, block.composing)
        /\ block'.at = "made" /\ ~cleared' /\ UNCHANGED <<input, waiting, due>>
        /\ asks = "look" \/ (asks = "keep" /\ troubles = {})
    BY <1>10, <2>1 DEF BlockMake, NewLookup, TypeOK, Block
  <2>3. AskedRight
    BY <2>1, <2>2 DEF SettleInv, AskedInv, Pending, input
  <2>4. Settled'
    BY <2>2, <2>3, KeyWanted DEF Settled, AskedRight
  <2>. QED  BY <2>2, <2>4
<1>11. CASE BlockAdd
  BY <1>11
  DEF SettleInv, AskedRight, Settled, Pending, NoLookup, Made, BlockAdd, BlockEnd,
      Idle, input, lookups, strip, history
<1>12. CASE BlockAddNil
  BY <1>12 DEF SettleInv, BlockAddNil
<1>13. CASE OpStart
  BY <1>13
  DEF SettleInv, AskedRight, Settled, Pending, NoLookup, Made, Final, Trouble, OpStart,
      input, lookups, strip, history
<1>14. CASE OpAnswer
  BY <1>14
  DEF SettleInv, AskedRight, Settled, Pending, NoLookup, Made, Final, Trouble,
      OpAnswer, input, lookups, strip, history
<1>15. CASE OpCancel
  <2>1. SUFFICES ASSUME troubles' = {}, ~reload', ~Pending'
                 PROVE  IF block'.at = "asked" THEN AskedRight' ELSE Settled'
    BY DEF SettleInv
  <2>2. troubles = {} /\ ~(held /\ (Made \/ queue # <<>>))
    BY <1>15, <2>1 DEF OpCancel, Trouble, Made
  <2>3. UNCHANGED <<input, waiting, queue, block, answers, binding, shown, last, cleared, due>>
    BY <1>15, <2>2 DEF OpCancel, Cancelled, Made, strip
  <2>4. running'.at # "search"
    BY <1>15 DEF TypeOK, Operation, OpCancel
  <2>. QED  BY <2>1, <2>2, <2>3, <2>4
    DEF SettleInv, AskedRight, Settled, Pending, NoLookup, Made, Final, input
<1>16. CASE OpEnd
  BY <1>16
  DEF SettleInv, AskedRight, Settled, Pending, NoLookup, Made, Final, OpEnd, NoRun,
      input, lookups, strip, history
<1>17. CASE StripUpdate
  <2>1. UNCHANGED <<input, waiting, block, last, queue, running, history>> /\ Final' = Final
    BY <1>17, StripUpdateKeepsFinal DEF StripUpdate, lookups
  <2>. QED  BY <2>1
    DEF SettleInv, AskedRight, Settled, Pending, NoLookup, Made, input, history
<1>18. CASE UNCHANGED vars
  BY <1>18
  DEF SettleInv, AskedRight, Settled, Pending, NoLookup, Made, Final, vars, input,
      lookups, strip, history
<1>19. CASE RepeatRequest
  BY <1>19
  DEF SettleInv, AskedRight, Settled, Pending, NoLookup, Made, Final, RepeatRequest, input,
      lookups, strip, history
<1>. QED  BY <1>1, <1>2, <1>3, <1>4, <1>5, <1>6, <1>7, <1>8, <1>9, <1>10, <1>11, <1>12,
     <1>13, <1>14, <1>15, <1>16, <1>17, <1>18, <1>19
  DEF Next

-----------------------------------------------------------------------------
(* Theorems.                                                                *)

LEMMA Initially ==
  ASSUME Init
  PROVE  IInv /\ PileInv
<1>1. TypeOK
  <2>1. block \in Block /\ running \in Operation /\ composer \in Input
    BY Values, RecordTypes DEF Init, Input
  <2>2. block.at # "made" /\ running.at # "search"
    BY DEF Init, Idle, NoRun
  <2>3. queue \in Seq(Texts) /\ answers \in Seq(List)
    BY DEF Init
  <2>. QED  BY <2>1, <2>2, <2>3, Values DEF Init, TypeOK
<1>2. PileInv
  BY DEF Init, PileInv, Lookups, Made, Idle, NoRun
<1>3. LastInv /\ OtherInv /\ DueInv /\ TextInv /\ AskedInv /\ SettleInv
  BY DEF Init, LastInv, OtherInv, DueInv, TextInv, AskedInv, SettleInv, NoLookup, Made,
         Idle, NoRun
<1>. QED  BY <1>1, <1>2, <1>3 DEF IInv

LEMMA Step ==
  ASSUME IInv, [Next]_vars
  PROVE  IInv'
BY TypeStep, LastStep, OtherStep, DueStep, TextStep, AskedStep, SettleStep DEF IInv

LEMMA Invariance == Spec => []IInv
<1>1. Init => IInv
  BY Initially
<1>2. IInv /\ [Next]_vars => IInv'
  BY Step
<1>. QED  BY <1>1, <1>2, PTL DEF Spec

\* Every variable stays in its range: a block, an operation and a list on its way
\* are what the code makes them.
THEOREM TypeCorrect == Spec => []TypeOK
<1>1. IInv => TypeOK
  BY DEF IInv
<1>. QED  BY <1>1, Invariance, PTL

\* At rest, the strip shows the list that was asked for last, whatever blocks were
\* cancelled and lookups overtaken, but for the five named troubles.
THEOREM StripAlwaysSettles == Spec => []StripSettles
<1>1. IInv => StripSettles
  <2>1. SUFFICES ASSUME IInv, Quiet, troubles = {}
                 PROVE  shown \in due
    BY DEF StripSettles
  <2>2. Settled
    BY <2>1 DEF IInv, SettleInv, Quiet, Pending
  <2>3. Final = shown
    BY <2>1 DEF Quiet, Final
  <2>4. CASE NoLookup /\ Final \in due
    BY <2>3, <2>4
  <2>5. CASE ~cleared /\ last # NoKey /\ Want(last) \in due
    BY <2>1, <2>3, <2>5 DEF IInv, LastInv, LeadsTo, NoLookup, Made, Quiet
  <2>. QED  BY <2>2, <2>4, <2>5 DEF Settled
<1>. QED  BY <1>1, Invariance, PTL

\* However fast the keys come, two lookups wait at most.
THEOREM FewLookupsWait == Spec => []LookupsDoNotPileUp
<1>1. Init => TypeOK /\ PileInv
  BY Initially DEF IInv
<1>2. TypeOK /\ PileInv /\ [Next]_vars => (TypeOK /\ PileInv)'
  BY TypeStep, PileStep
<1>3. TypeOK /\ PileInv => LookupsDoNotPileUp
  BY CancelledQueue DEF PileInv, Lookups, LookupsDoNotPileUp
<1>. QED  BY <1>1, <1>2, <1>3, PTL DEF Spec
=============================================================================
