# A verification development of the Cheetah keyboard for iOS

TLA+ models of the Objective-C code of the keyboard (`src/`): the keyboard
extension that a host application shows, and the container application that
configures it. The modules are translated from the code; TLC checks them on
small instances and TLAPS proves theorems about them for every value of their
constants.

## 1. The system

The extension is one process with one main thread. Every key, every text change
the host reports and every delayed call (`performSelector:afterDelay:`,
`dispatch_after`) runs on that thread. Next to it are operation queues (looking
up suggestions), serial dispatch queues (the user's own dictionary, waiting for
suggestions), and the network callbacks. The process is killed without notice
when the user leaves the keyboard.

| component | code | state | operations | interacts with |
|---|---|---|---|---|
| Typed input | `latin/CMInputLogic.m`, `latin/WordComposer/*` | the word composer, the last composed word, the space state, the double-tap window, `_isActiveInput` | `onCodeInput:`, `onPickSuggestionManually:`, `restartSuggestionsOnWordTouchedByCursor...`, timers | reads and edits the host's text; its composer is read, and its correction written, by the suggestion operation |
| View controller glue | `KeyboardViewController.m` | the pending `loadKeyboard`, the current input model, pending update blocks | key callbacks, `textDidChange:`, `commitText:`, picks, gestures | calls the input logic; starts lookups |
| Suggestion pipeline | `latin/CMSuggest.m`, the end of `KeyboardViewController.m` | the running operation, the last parameters, the shown list | start, cancel, wait, show | the composer, the dictionaries, the strip |
| Shift state | `CMKeyboardShiftState.m` | four keyboard states, the double-tap window | taps, host capitalisation | asks the host's text, switches the layout |
| Gesture input | the batch part of `CMInputLogic.m` and `CMBaseKeyboardView.m`, `view/CMBatchInputTracker.m` | the points, the batch mode of the composer, the lookup | start, end, give up, look up, commit | its word is committed when its lookup ends |
| Dictionary facilitator | `latin/DictionaryFacilitatorImpl.mm` | the dictionaries, the search flags | search, memory warning, reload | the decoders in C++ |
| User history dictionary | `latin/CMExpandableBinaryDictionary.m`, `latin/UserHistoryDictionary.mm` | the file, the open dictionary | learn, unlearn, flush, reload | one serial queue |
| Cloud prediction | `CloudPrediction/*` | the socket, the request number, the unsent reports | connect, send, receive, reconnect | a server; a configuration request with retries |
| Kinfoc reporter | `kinfoc/*` of KeyboardKit | batches in memory, posts in flight, cache files, the set of files being posted | report, flush, answer, save, check | a server; the cache folder outlives the process |
| Infoc reporters | `Infoc/InfoC.m`, `InfocReport/InfoCManager.m` | as above | as above | as above |
| Cloud configuration | `CloudConfig/CMCloudConfig.m`, `Config/CMGroupDataManager.m` | a cached configuration, shared preferences | load, refresh, read | both processes share the preferences |
| Layout loading | `latin/CMKeyboardManager.m` and the handlers of `KeyboardViewController.m` that ask for a layout | the layout and language shown, one serial queue, one semaphore | load, cancel, take, memory warning, next language | shift state, dictionaries, the views |
| Key views and themes | `view/`, `Theme/` | – | touches, drawing | the view controller |
| Container application | `PandaKeyboard/` | settings, themes, onboarding | user interface | the shared preferences |
| Decoders, vendored code | C++ decoders, tensorflow, protobuf, eigen, `Pods`-like folders | – | – | inputs of the models |

What makes them hard, and what would make each correct:

- *Typed input.* Three pieces of state (the composer, the space state, the last
  word) each say something about a text that another process owns, and are
  updated by a dozen handlers with early returns. Correct: the composer holds
  the word at the cursor; a deletion never takes more than that word; an
  automatic space is inserted once and never inside a word; a revert takes out
  what the correction put in; every window that is opened closes.
- *Suggestion pipeline.* A lookup reads the composer off the main thread, and
  its answer is written when the composer may hold another word; cancelled
  lookups never answer; a filter takes any key it has seen for answered. Correct:
  a correction is for the word it is written to; at rest the strip shows the list
  that was asked for last; lookups do not pile up.
- *Shift state, layout loading.* A window whose timers are not all cancelled, a
  state that the host's text overrides, layouts that come up late and cancel each
  other. Correct: the key shows the state that decides the case; the lock is put
  on by a double tap only, which no key, layout or cover parts; the layout asked for last is the one shown, with the
  capitals of the field and the dictionaries of its language; loading ends.
- *Gesture input.* A word that arrives after other keys. Correct: where nothing
  came between, it stands apart and is composed where it stands; else no more is
  lost than that.
- *Dictionary facilitator, user history.* Memory warnings against searches,
  saving beside the queue, two objects of one file, a process that dies between
  any two steps on the disk. Correct: what is learnt is known, what is saved stays,
  a search is answered and nothing is used after it is dropped.
- *Cloud prediction.* Three threads write one socket; reconnects overlap;
  callbacks do not say whose they are. Correct: connections left behind are few
  and bounded by what went wrong; a connection comes up again and stays.
- *Reporters.* Kill at any point, failed posts, files retried. Correct: a report
  is in one place at a time; it is lost or doubled only where that cannot be
  avoided; a failed one is retried.
- *Cloud configuration.* Stale caches. Correct: a reader sees one whole version.

Every hazard, at its line and with the property that covers it, is listed in
`PROJECT.json` under `hazards`.

## 2. Plan

| order | module | models | what it promises | state |
|---|---|---|---|---|
| 1 | `InputLogic`, `InputLogicProofs`, `MCInputLogic` | typed input, and the glue around it | composer, spaces and reverts fit the text | done |
| 2 | `KinfocReport`, `KinfocReportProofs`, `KinfocOnceProofs`, `MCKinfocReport` | the kinfoc reporter | the abstract specification `ReportDelivery`: each report is held, received or given up | done |
| 3 | `HistoryStore`, `HistoryStoreProofs`, `MCHistoryStore` | the user's dictionary, its queue, its file, its objects | the abstract specification `WordStore`: words change as taught, and are kept as a whole | done |
| 4 | `SuggestionPipeline`, `SuggestionPipelineProofs`, `MCSuggestionPipeline` | from a key to the strip, over four threads | the list asked for last | done |
| 5 | `CloudPrediction`, `CloudPredictionProofs`, `MCCloudPrediction` | the connection, its reconnects, its address | few connections, and one in the end | done |
| 6 | `KeyboardShiftState`, `KeyboardSwitch`, `KeyboardSwitchProofs`, `MCKeyboardSwitch` | the shift key, and the loading of layouts around it | what is shown is what was asked for last | done |
| 7 | `GestureInput`, `GestureInputProofs`, `MCGestureInput` | a word drawn over the keys, composed with all of `InputLogic` | a drawn word stands apart, and is composed and deleted like a typed one | done |

What would come next, in this order: the searches of the neural decoder against
memory warnings (the facilitator deletes what a search may read), the numbers and
reports of the cloud, and the other two reporters, which have the shape of the
kinfoc one. Of what the passing runs check, all is proved but the liveness
properties `LeavesMemory`, `Recovers` and `LoadsSettle`, which are out of the
prover's reach; of the first two the safety they rest on is proved
(`ReportsMoveOn`, `StoreWearsOff`, `OpenConnectionStays`). Of each of the four
comments that a run refutes, what is true of it is proved: under which condition
it holds for ever and, but for the flush, that one named step alone breaks it
(`CommentHolds...`, with the theorem listed before each).

In each module an operator named `X_...` beside an action or helper `X` is `X`
with a plausible slip; a property is tried against it to see that it would notice.
It is no part of the specification.

A claim that the model satisfies only when certain things did not go wrong says
which: a history variable (`troubles`, `astray`, `stale`, `moved`, `drifted`,
`unseen`, `fit`, `left`) collects them. Each such exception was tried: without it TLC finds a run of the
code that breaks the claim. They are the list of weaknesses of the component.

## 3. InputLogic

### State

| variable | code |
|---|---|
| `doc` | the text before the cursor, `documentContextBeforeInput` |
| `composer` | `CMWordComposer`: typed word, autocorrection, `isResumed`, digit count |
| `lastWord` | `lastComposeWord`; inactive and `nil` are one value, as `canBeRevert` treats them alike |
| `spaceState` | `mSpaceState` |
| `spaceTap`, `tapTimers` | `mIsInDoubleSpaceKey` and its delayed calls |
| `active`, `idleTimer` | `_isActiveInput` and the delayed `setIsActiveInput:NO` |
| `firstInit` | whether a key was handled before |
| `field`, `model` | the field the host shows and the one the keyboard believes in |
| `reload` | the delayed `loadKeyboard` |
| `lookup` | the word and the flags the suggestion operation took when it started |
| `stale`, `moved`, `drifted` | history for the properties: whether the host, or a key that bypasses the input logic, changed the text behind the composer, the last word and the space state |

### Actions

One action is one run of a handler on the main thread, with all it calls:
`NonSeparatorKey`, `SeparatorKey`, `SpaceKey`, `EnterKey`, `DeleteKey`,
`ShiftKey` are the branches of `onCodeInput:`, `RawKey` its early way out for
fields without correction; `PickSuggestion`, `PickEmoji` and `PickInUrlField`
are `onPickSuggestionManually:`. `LoadKeyboard`, `IdleTimeout` and
`DoubleSpaceTimeout` are the delayed calls. `HostEdit` is the host: it sets any
text and shows any kind of field at any time. `StartLookup` and `FinishLookup`
are the two ends of the suggestion operation, which runs on its own queue; keys
come between them. A lookup may start whenever a word is composed, which allows
more than the code's delays do; it may end without a word where it would correct,
as a list shorter than its index does (`CMInputLogic.m:1154`).

Words and texts are sequences over a few classes of characters, the classes
`CMSpacingAndPunctuations` and `Character` tell apart. What the decoders answer
is the constant `AutoCorrect`; what looks like a URL is the constant
`LooksLikeURL`. The models assume a language with spaces between words and a
keyboard type that adds spaces of its own. Deleting at the start of the text
does nothing, as `deleteBackward` does.

Not in the module: shift case, learning and unlearning, gestures (section 9), the
list the strip shows, the forced test input of `loadKeyboard`, the text after the cursor.
The copy a lookup takes is one step here; the code copies field by field, and
that is left to `SuggestionPipeline`.

### Runs

| run | instance | shows |
|---|---|---|
| `typing` | one letter, a digit, a closing mark, the double-space period with two overlapping timers, one correction to a longer word, texts up to 4 (the search stops at 3 where they hold the digit: `ShortDigits`), an ordinary field | the composer, the owed space, the revert and the two windows over all mixes of keys, picks, lookups, host edits and timers |
| `fields` | texts up to 3, an emoji, a separator that is no closing mark, three kinds of fields, texts that look like URLs | the composer, the spaces behind a space and the revert also survive moves between fields |
| `late_correction` | a digit | refutes that only tapped words without digits carry a correction |
| `cursor_move` | a host edit | refutes that the composer always follows the cursor |

Bounds. A word and its correction have length 1 and 2, so that lengths differ
and a wrong count shows; texts of 4 hold two words with a separator, or a
corrected word with its mark and a space; every deletion in the code is a count
of the composed word, the last word or one character, so that longer texts add
no case. Two letters would only rename: nothing compares characters but for
equality of words. `MaxTapTimers` is 2, because a third first tap needs two
earlier timers to be pending already, and the case of overlap is there at 2.

### What the properties say

- `ComposerMatchesText`: the composed word ends the text, unless the text was
  changed behind the composer.
- `TextBeforeWordKept`: no key, correction or pick changes what stands before
  the composed word.
- `PhantomOnlyBetweenWords`, `SpaceOwedOnce`: the owed space is not inserted
  into a word, nor after a space.
- `RevertTargetStands`: what a revert deletes is what the commit wrote. It
  allows for one space more: the shift key makes the owed space real and keeps
  the word revertable.
- `TapWindowCloses`, `ActiveInputEnds`: an open window has a timer. The second
  is checked for ordinary fields only; see below.

These are safety properties. No run of this module assumes fairness: the timers
of the code fire, but nothing here needs more than that a timer is pending.

### Where code and comments disagree

1. `late_correction`. A digit typed while a lookup runs: `CMSuggest.m:424`
   excludes words with digits and words not tapped, but checks the word it
   copied; `CMInputLogic.m:1150` writes the answer to the word there is then.
2. `cursor_move`. A cursor move within a quarter of a second after a key is
   ignored (`CMInputLogic.m:249`) and never looked at again, against
   `CMInputLogic.h:59`.

### Weaknesses the models keep

The model does what the code does. Worth knowing, and not stated otherwise
anywhere in the repository:

- a separator that is no closing mark disappears after a correction, and its
  revert deletes one character too many;
- the shift key between a correction and its revert makes the revert one
  character short;
- `lastComposeWord` survives a cursor move, so that a backspace elsewhere
  reverts there;
- a pick in a URL field leaves `_isActiveInput` set until the next key;
- the timer of a successful double tap closes the next window early;
- the digit count is not taken back by a delete;
- a correction stays when a later lookup finds none.

### What is proved

`InputLogicProofs` proves, for all alphabets, correction tables, URL tests,
fields and bounds that satisfy the assumptions of `InputLogic`
(`CharAssumption`: the classes of characters do not overlap where the code
tells them apart; `SpaceAssumption`: no suggested word and no correction ends in
a space, and a separator or symbol key types none; `SettingAssumption`,
`TextAssumption`, `BoundAssumption`: the constants have their types):

| theorem | says | argument |
|---|---|---|
| `TypeCorrect` | `Spec => []TypeOK` | by action; lemmas give the type of each text helper |
| `TapWindowAlwaysCloses` | `Spec => []TapWindowCloses` | by action, inductive with `TypeOK` |
| `PhantomBetweenWords` | `Spec => []PhantomOnlyBetweenWords` | by action, inductive with `TypeOK` |
| `ComposerAtCursor` | `Spec => []ComposerMatchesText` | not inductive alone: a key that extends the word must not first insert the owed space, so `PhantomOnlyBetweenWords` is part of the induction |
| `TextBeforeWordIsKept` | `Spec => TextBeforeWordKept` | from the invariants above, step by step: where the composed word ends the text, each edit keeps the prefix before it |
| `SpaceIsOwedOnce` | `Spec => []SpaceOwedOnce` | inductive with the types as `OwedOnce`: a correction that waits ends in no space either, so that the text it ends, which owes one, does not |
| `RevertFindsCommit` | `Spec => []RevertTargetStands` | under `RevertInv`: at most one space comes behind the commit, and once it has come none is owed, so that there is no second; in a URL field nothing becomes revertable |
| `SessionAlwaysEnds` | `"url" \notin Kinds => (Spec => []ActiveInputEnds)` | by action: only the pick in a URL field leaves a session open with nothing pending |
| `OnlySessionsLeaveAstray` | the composer comes to hold another word than the one at the cursor, with no repair pending, by one step only: `LoadKeyboard` while `active` | from `ComposerMatchesText` and `StaleComposes`: a step that loses the word changed the text, and then a load is pending |
| `CommentHoldsBetweenSessions` | where no load runs in a session, `SettledComposerMatches` | `~Astray` is then inductive |
| `NoDigitsLookedUp` | no word with a digit is looked up to be corrected | inductive with the count of the composer (`DigitsCounted`); a word taken up again has no digit to count |
| `OnlyLateLookupsCorrectWrongly` | a word with a digit, or one taken up at the cursor, comes to carry a correction by one step only: `FinishLookup` for what is no longer composed | `ComposerBecomes` lists what a step can make of the composer; each of them drops the correction or keeps its word |
| `CommentHoldsInTime` | where no lookup ends late, `OnlyTappedWordsCorrected` | the same |

The lemmas on sequences (a suffix stays one when both grow; deleting no more
than the suffix keeps the prefix) stand at the head of the module. The steps of
the inductions are lemmas of their own, under `OwedApart`, the weaker form of
`PhantomOnlyBetweenWords` that strokes leave: section 9 uses them. The two claims
that TLC refutes (`cursor_move`, `late_correction`) have their exact conditions
in the last five theorems: the comments are right but for a load that the session
swallows, and but for a lookup that ends late. TLC found the two action properties
true on the instances of all four runs before they were proved.

## 4. KinfocReport and ReportDelivery

### State

| variable | code |
|---|---|
| `batch` | `m_pPriorityBatchData[Normal]` of `KInfocBatchReportData`; `doReportData` uses no other priority |
| `arming`, `armed` | a `runOnMainThread` on its way to the main thread, and the `flush` it delays by three minutes |
| `posts` | requests of `KInfocHttpPoster` without an answer; `cached` tells the two result listeners apart (one has a callback, the other has none) |
| `queue` | for the folders `force` (`TRUE`) and `normal` (`FALSE`), the operations of the serial `NSOperationQueue` |
| `files`, `filterSet` | the cache files, named by what they hold, and `m_setFilterRptDataPath...` |
| `net` | what `CMBizHelper` says: `isWifiNetWork`, `hasNetWork` |
| `kills` | deaths of the process |
| `accepted`, `received`, `abandoned`, `doubted`, `doubled` | history: what was reported, what the server has, what was given up, what the process could not know to be received, what was received again without that doubt |

### Actions

`ReportData` is `addData` with the flush it may run, `ForceReportData` the other
branch of `doReportData`. `RunOnMainThread` and `FlushTimeout` are the two calls
on the main thread. `Arrive` is the server; `OnSuccess` and `OnFail` are the
completion handler, and `OnFail` comes whether or not the server has the
request. `RunSave`, `RunCheck` and `RunRemove` are one operation of a folder's
queue each. `NetChange` is the network, `Kill` the system: it ends the process
between any two of these, and the next process finds the files.

Atomicity: `addData` and `flush` hold the lock of the batch; operations of a
folder run one at a time, and only they touch its files and its set. A flush
asks the network for each buffer, so the network may change once during it
(`PostBatchData`); a check asks for each file and stops at the first refusal,
so it may send any part (`RunCheck`). An answer or another report that comes
while a flush or a check still runs is taken before or after it.

Abstractions: records have one size and fit a buffer; the age of a file is a
choice of the check; a save may fail, as nothing looks at its result; sampling
and the byte format are left out. Each member of `Reports` is reported once.
The public section and the header made of it are taken to be there: they are built
from the same format file as the records, and `kinfoc_client.m:374` asserts it. In
a process without them `flush` returns early (`kinfoc_batch_report_data.m:71-74`
and 90-92), keeps the batch and arms nothing: `BatchTimed` and `LeavesMemory` are
claims about a process that has them.

### Runs

| run | instance | shows |
|---|---|---|
| `report_delivery` | two reports and a forced one, batches of two, buffers of one, two deaths, fairness | types, one place, no doubling without doubt, the timer of the batch, the refinement; every report leaves memory |
| `report_retry` | the same without a death | refutes that what is in the filter set is being reported |

Bounds. Two reports with batches of two and buffers of one give a flush of more
than one buffer, of which the network may take one and refuse the other, and a
delayed flush of a batch that is not full; a forced report beside them uses the
other folder; two deaths let a file be doubled, saved and doubled again across
restarts. A buffer that is partly filled needs larger ones; `BufferedRecords` and
`TypeCorrect` are proved for all. A run with liveness cannot use the symmetry of
the reports.

Fairness (for `LeavesMemory`): the run loop runs what it was given, the
queues run their operations, and `NSURLSession` calls each completion handler,
at the latest with a timeout. Nothing is assumed of the user, of the network, of
the server or of the system that kills the process.

### What the properties say

- `Implements`: no copy of a report is let go before the server has it, but with
  the process, by age, or by a disk that takes no file.
- `OnePlace`: a report is in one place: a second one is a second delivery.
- `DoubledOnlyInDoubt`: twice at the server only after a failed answer or a
  death. The filter set and the order of the queue are what keeps repeated
  checks from posting a file again.
- `BatchTimed`, `LeavesMemory`: reports in the array have a call on its way that
  flushes them, and leave. Whether a file is ever delivered is not promised: the
  folders are looked through only after another post succeeds, and see below.
- `TypeOK` includes that no post, save or file is empty, however the records
  fill the buffers.

### Where code and comments disagree

3. `report_retry`. `kinfoc_cachefile_mgr.m:175` says of a file in the filter set
   that it is being reported. A file whose post failed stays in the set, and no
   check of this process tries it again.

Kept as the code has them, and outside the model: a record longer than a buffer
makes `flush` loop for ever under its lock (`kinfoc_batch_report_data.m:103`).

### What is proved

`KinfocReportProofs` proves, for any reports, batch limit, buffer size and number
of deaths (`ReportAssumption`: the limits are positive, forced reports are
reports):

| theorem | says | argument |
|---|---|---|
| `TypeCorrect` | `Spec => []TypeOK` | by action; `BufferedRecords` shows that the buffers hold the records, all of them, and are not empty |
| `BatchIsTimed` | `Spec => []BatchTimed` | inductive as it stands |
| `ReportsDelivered` | `Spec => Implements` | step by step, under the invariant `Backed` |
| `NoReportForgotten` | every accepted report is held, received or given up | invariant of `ReportDelivery`, carried over by the refinement |
| `InOnePlace` | `Spec => []OnePlace` | under the invariant `Followed`, report by report |
| `TwiceOnlyInDoubt` | `Spec => []DoubledOnlyInDoubt` | under `Followed`: a request under way carries nothing the server has for sure |
| `ReportsMoveOn` | a report in memory only moves on: from the array to its post, from there to a save that moves up, and never back (`MovesOn`) | under `Followed`, report by report and handler by handler |
| `StuckFilesHaveFailed` | a file is in the filter set without being reported exactly if it was so, or its post has just failed, and the process lives (`StuckByFailure`) | under `Followed`: an answer, a check and a removal keep the set and the posts in step |
| `CommentHoldsWithoutFailure` | where no post of a cache file fails, `FilteredIsReporting` | from the last |

`Backed` is the types and three facts. An answered request has been received
(`ArrivedReceived`); without it a success could let go of a report. A queued
removal is of a file the server has (`RemovedReceived`); it outlives the post
that caused it. A post of a cache file has its file still, or its reports need
it no longer (`CachedBacked`); without it the failure of such a post, which saves
nothing, would lose them.

`KinfocOnceProofs` proves the last five. `Followed` is of one report and has four
parts. `Alone`: it is in one place, said without counting. `Reporting`: while a
post of its cache file is under way, or the removal of the file is queued, that
file is its only place and is marked in the filter set, and there is no second
post; so no check can post it again. `OnlyMade`: a report that was not made is
nowhere, so that making it gives it one place. `NotAgain`: what the server has for
sure is in no array, no save, no request that has not arrived and no unmarked
file. A step either takes places away (`FollowedStays`, which lets the saves of a
queue move up) or gives the report one new place (`FollowedAfresh`). The flush
needs that its buffers share no record (`BufferAlone`) and that what it posts and
what it saves are two stretches of them (`FlushStretches`). Only checked by TLC:
`LeavesMemory`, which is liveness. `ReportsMoveOn` is what it rests on: with each
place left for good, a report stays in memory only if a step that fairness takes
is never taken. `StuckFilesHaveFailed` says of the refuted comment exactly when it
goes wrong: with the failure of a post, and until the process dies.

## 5. HistoryStore and WordStore

### State

| variable | code |
|---|---|
| `dict`, `tmp` | the directory of the dictionary and the one a flush fills beside it; of their files, whether header and body are there, and the words |
| `group` | the object in `dictionaryGroup` of the facilitator |
| `alive`, `exists`, `bin`, `queue` | per object: not freed, `_dircExists`, `mBinaryDictionary` (nil, without a native dictionary, or open with words), the blocks of its serial queue |
| `lookup`, `flush`, `main` | where a lookup, the flush of an object, and learning or unlearning on the main thread stand |
| `asked`, `saved`, `troubles` | history: what the user taught, what the last flush wrote, what went wrong |

### Actions

A block of a serial queue is one action (`RunUpdate`, `RunUnlearn`, `RunReload`,
`RunRead`, `RunDiscard`). A flush is not on the queue: it runs on the thread that
asks, one action for each step on the disk (`MakeTmp`, `WriteHeader`,
`WriteBody`, `RemoveDict`, `Rename`, `Reopen`), and the queue goes on between
them. `DiskFails` is a step that fails, `Kill` the end of the process between any
two. `Create` is the reset of the facilitator; `Release` and `LastReference` let
an object go, which flushes once more. `Learn...`, `Unlearn...` and `Lookup...` are
the steps of the callers; the lookup holds the semaphore of the facilitator.
`RunWeak` is a block whose object was freed: the reload reads an instance variable
of nil, and the process ends.

Left out: the migration from format 402, `needsToRecreate`, which nothing sets,
the counts by which a garbage collection drops words, and the byte layout.

### Runs

| run | instance | shows |
|---|---|---|
| `history_store` | one word, two objects, queues of two, at most one trouble | what is learnt is known, what is saved stays, only an overlap makes deaf, every lookup is answered, and the whole is a `WordStore` |
| `history_race` | one word, one object | refutes that a flush writes what memory holds |

Bounds. Words do not interact, so one tells everything apart: learnt, unlearnt,
saved. Two objects are what an overlap needs. A queue of two holds a reload with
a block behind it, or two reloads. The constraint `Focus` ends the search behind
an overlap, after which little is promised, and at the second trouble; without
it the run has 5.7 million states and passes as well. The objects are
interchangeable, and no property is a liveness one, so `Symmetry` is sound.

### What the properties say

- `KnowsWhatWasTaught`: the words known, with the blocks that wait, are those
  taught, no more and no less, through saving, letting go and loading again.
- `SavedStays`: what a finished flush wrote is on the disk, whatever dies when.
- `DeafOnlyAfterOverlap`: an object that takes no words is the product of two
  objects of one file, never of the queue alone.
- `LookupAnswered`: a lookup that waits has its block on the queue of an object
  that is alive.
- `Implements`: what the user can see of all this is a `WordStore`, which knows
  nothing of objects, queues and directories. A word changes in it only while an
  order about it is on its way, and the last order makes it as it was taught; a
  save replaces what is kept by all that is known; a new process starts from what
  is kept. The mapping takes `known` from the object in use or, where none is
  loaded, from the file; `waiting` from the blocks of the queue; `kept` from the
  directory or, once that is removed, from the temporary one. So of the six steps
  of a flush one is the save, `RemoveDict`, and the others change nothing. An
  order that is lost, a word that is dropped with an object, a file that holds half
  of what is known would each be a step that `WordStore` does not have. `fine`
  ends with the first trouble; behind it `WordStore` promises nothing.

The exceptions, each of which TLC found to be needed:

| trouble | where |
|---|---|
| `overlap` | the last flush of an object runs while the next one of the same file is made |
| `failed` | a step of a flush fails, the dictionary counts as corrupted and a good file is removed |
| `raced` | a word is learnt between the writing of the body and the opening |
| `reloaded` | a second queued reload of an object that found no file when it was made puts an empty dictionary over the learnt one |
| `cut` | the process ends between the removal of the directory and the rename |

### Where code and comments disagree

4. `history_race`. `CMExpandableBinaryDictionary.h:27` describes the flush as one
of what is in memory; it runs beside the queue, and a word that is learnt
meanwhile is in neither the file nor the dictionary that is opened from it.

### What is proved

`HistoryStoreProofs`, for any words, objects and queue bound:

| theorem | says |
|---|---|
| `TypeCorrect` | `Spec => []TypeOK` |
| `OneObject` | without an overlap one object at a time is in use |
| `KnowsWhatWasTaughtAlways`, `SavedWordsStay`, `Deaf`, `LookupsAnswered` | the four invariants of the run |
| `StoresWords` | `Spec => Implements`, step by step, for any number of words and objects |
| `KnownAsItWasTaught` | until something goes wrong, a word that no waiting block is about is known exactly if it was taught: an invariant of `WordStore`, carried over by the refinement |
| `FlushesWriteExactly` | where no block ran beside a flush and no objects overlapped, a flush about to read the file again has written the words in memory, all of them and no other (`WritesExactly`) |
| `CommentHoldsUnlessRaced` | there the comment that `history_race` refutes holds |

The invariants are built on each other: `Shape` (which objects are held, and what
a flush says of its object), `Single` (one object in use), `DiskInv` (what the two
directories hold at each step of a flush), `Clean` (an object without mishaps
knows its file), and `SavedInv` and `KnowInv`, the two properties with the flush
under way and the blocks that wait taken in. `WritesInv` says what a flush holds at
each of its steps. It needs neither `Clean` nor `KnowInv`: disks that fail, second
reloads and kills may lose words, but not between the memory and the file of a
flush that comes to its end. Each invariant holds as long as the troubles it names
were not met. The refinement rests on all of them but `SavedInv` and `WritesInv`:
one object is in use or none (`SeenOfOne`), and each of its steps is the save
(`StepKeeps`), follows one order (`BlockFollows`, where `KnowInv` after the step
says that the last order about a word makes it as it was taught), gives one
(`CallTeaches`), or is not seen.

## 6. SuggestionPipeline

A key changes the composer, then the text, then asks for a list. The list comes
back over four threads: the main thread, the serial queue of the update blocks,
the operation queue and the queue of the strip. `Handle`, `Commit`, `HostEdit`,
`RepeatRequest` and the two `Load...` actions are the main thread; `Block...` are the steps of
`perfromUpdateSuggestionStrip`, `Op...` those of the operation in `CMSuggest.m`;
`StripUpdate` is the bind block of the strip. Which text and which word a key leads
to is the matter of `InputLogic`; here it is any. What is kept of a handler is
what it asks for: a lookup, an empty strip, an emoji list, or nothing.
`RepeatRequest` is `updateSuggestionStrip` without a handler, by a `loadKeyboard`
within a session or a finished layout: it asks again for what was asked for last.

The block waits for its lookup half a second at most. The model lets it stop
waiting at any time, so that slow lookups and fast keys are both in it. Where the
operation is gone before the block adds it, `addOperation:` gets `nil` and the
process ends; `BlockAddNil` goes on with the next process.

| run | instance | shows |
|---|---|---|
| `suggestion_strip` | an empty text and one other, answers one at a time to the main thread, see `Focus` | at rest the strip shows the list asked for last; at most two lookups wait |

Two texts are enough because the filter only compares a text with the last one,
and the empty text is the one treated apart. `Focus` ends the search at a second
trouble, and where much is on its way at once; it bounds what is explored, not
what is true: the proofs hold without it.

`StripSettles` says what a user sees: when everything has come to rest, the list
on the strip is one that was asked for last. Five exceptions, each tried:

| trouble | where |
|---|---|
| `skipped` | a handler that asks for nothing cancels the waiting block of one that does |
| `torn` | the operation reads a composer that no longer fits the text of its block |
| `late` | an answer without a lookup (an empty strip, an emoji list) is overtaken by a lookup's |
| `dropped` | an operation that ends cancels the next one, which `self.op` already is |
| `repeat` | the strip was given another list and the filter still holds the key for answered |

`SuggestionPipelineProofs` proves for any texts and bounds `TypeCorrect`,
`StripAlwaysSettles` and `FewLookupsWait`. The invariant says where the right
list is at each moment (`DueInv`, `SettleInv`): with the block that waits, the
operation, the answer, the binding, or on the strip; `LastInv`, `OtherInv`,
`TextInv` and `AskedInv` say what the block and the filter know, and `PileInv`
counts the operations by who can still cancel them.

Left out: the lists of URL fields, of gestures and of the cloud.

## 7. CloudPrediction

`own` is `self.webSocket`, which three threads write without a lock: the main
thread, the serial queue of the jobs and the queue of the input logic; `midway`
says which of them is between its test and its assignment. A socket that
`self.webSocket` no longer names lives on (`others`), and its callbacks act on
`self.webSocket`, whichever that is by then. `jobs`, `delayed` and `task` are the
blocks that reconnect, the delayed calls and the request for the address;
`address` and `fresh` are its cache. A request made while another runs is dropped
with its completion block. The socket library is external, and modelled by its
states and its callbacks.

| run | instance | shows |
|---|---|---|
| `cloud_connection` | one job on the queue, three faults | the connections left behind are bounded; a connection comes up and stays |

- `ConnectionsBounded`: at most two live sockets and five more for every fault
  used. Five is needed: with four TLC finds a run. The two are needed without
  any fault: two threads that find no connection both make one.
- `Recovers`: in the end `self.webSocket` is open and stays so. Fairness: threads
  go on, timers and callbacks come, requests end, forty minutes pass, and the user
  goes on typing. Faults (the user turns the feature off, a language that is not
  served, an unusable, failed or refused address, a socket that fails or is closed)
  are bounded by `MaxFaults`, and nothing is assumed of when they happen. It is
  what the code can promise: with faults for ever no connection stays.

`CloudPredictionProofs` proves, for any number of faults:

| theorem | says | argument |
|---|---|---|
| `TypeCorrect` | `Spec => []TypeOK` | by action |
| `ConnectionsAlwaysBounded` | `Spec => []ConnectionsBounded` | the invariant counts, with the live sockets, every step under way that can still make one, and two for each pending request, against the faults |
| `StoreWearsOff` | what is left to come of earlier faults grows by two for a fault and by nothing else (`PendingWearsOff`) | by action, with the sums as numbers |
| `OpenConnectionStays` | a connection that is up when nothing is left to come stays until the next fault (`SteadyStays`) | by action: no callback of another socket comes then, and no thread is between its test and its assignment |
| `RequestsEnd` | `isRequesting` is set exactly while a request is under way (`OneRequest`) | inductive |
| `RetriesAreOwed` | failed sockets, delayed calls and a request asked again are never more than the faults (`RetriesOwed`) | inductive with `OneRequest` |

`Recovers` is liveness and only checked. The third and the fourth are the safety it
rests on: what faults leave behind wears off, and then a connection that is up stays.

Bounds. A second job on the queue would be the first one again a moment later;
three faults are two failures of a socket, after which the code stops trying on its
own, and one more behind them.

Left out: the numbers of words and answers, the reports that ride on words, and
the two steps in which `isRequesting` is read and set.

## 8. KeyboardShiftState and KeyboardSwitch

`KeyboardShiftState` has the methods of `CMKeyboardShiftState.m` as functions on
a record: the state, the double-tap window and its pending closings, the
capitals of the field, and the key as shown. `KeyboardSwitch` has the rest of the
state: the layout shown, what covers it, the field, the load asked for and those
begun, the switches of language on the input queue, the dictionaries.

| action | code |
|---|---|
| `LoadKeyboard`, `TapLayoutSwitch`, `ReturnToKeys` | handlers that ask for a layout; a new one cancels the last unless it has begun |
| `TapMultiLanguage`, `RunSwitch` | the language key, and its block on the input queue |
| `BeginLoad`, `TakeLayout`, `LoadFails` | a block of the serial queue of loads, and its two ends on the main thread |
| `MemoryWarning` | the rows and the covered keyboard that are given up |
| `ShowEmoji`, `ShowSettings`, `TapAutoCapitalization` | what covers the keys, and the switch in the settings |
| `TapShift`, `TapReturn`, `TapOther`, `CloseWindow` | keys, and the delayed closing of the window |

Abstractions: `"number"` is both symbol layouts. A field and the layout key load
with the same handler. The settings stand also for the view that moves the cursor,
which covers the keys in the same way. The wait of the language block may end at
any time. A load fails only where a memory warning took the rows it counted on.
Left out: the preloading at the start, and the end of the controller.

| run | instance | shows |
|---|---|---|
| `keyboard_switch` | three fields (capitals by sentence, all capitals, numbers), two languages, one switch pending, see `Focus` | the shift key, the lock, the layout, its capitals and its dictionaries; loading ends |

Bounds. Two languages and three fields are what the cases of `Settle` and
`TakenShift` tell apart. No state has more than one
delayed closing, though two are allowed. The constraint ends the search where more than two things are under way
or went wrong; a search with one trouble and everything else free (6.3 million
states) passes all the safety properties. `LoadsSettle` is checked within the
constraint: a search that leaves states out can miss a counterexample that goes
through them, so it says that loads settle among runs of that kind only.
Fairness: the queue of loads and the input queue run, the delayed calls come.

- `KeyShowsState`: the key shows the state from which the case of a letter is taken.
- `WindowWillClose`: an open double-tap window has a closing on its way.
- `LockIsMeant`: the lock is put on by a field all in capitals or by a double tap
  with at most returns between: no other key, no layout that came up, no emoji and
  no settings. The history `taps` says what came since the last tap on shift. The
  "?123" key, the language key and a new field are the exception (`parted`): none
  of them tells the shift state, so a tap on each side of one locks as well. The
  property says how far that goes: only while the layout asked for is on its way
  (`OnItsWay`), or when its load has failed (`failed`). Without either exception
  the run fails.
- `LastAskedIsShown`, `CapsFollowField`, `DictionaryMatchesKeys`: at rest the
  layout, its capitals and its dictionaries are those asked for last.
- `LoadsSettle`: when nobody asks, nothing stays on its way.

The exceptions, each tried: `behind` (a layout was asked for while a switch of
language was loading: it brings the old keys back, under the new dictionaries),
`robbed` (a switch cancelled the layout a field had asked for), `missed` (a load
failed; a field's load is not tried again), `released` (the keyboard was given up
under the emoji and came back by a handler that does not reset the state).

Weaknesses the model keeps: the second tap leaves the double-tap window open, and
so does the return key; shift, "?123" and shift before the symbols are there put
the lock on (`KeyboardViewController.m:1378-1425` return before the shift state
hears of the key; no comment or document says what they should do); a keyboard given up under the emoji comes back by the id
of the other layout; `CMKeyboardShiftState.h` gives `Sentences` as the capitals at
the start, the object starts with `None`; a memory warning drops `CMInputLogic`
with the word being composed (`CMKeyboardManager.m:116`).

`KeyboardSwitchProofs` proves, for all fields, languages and bounds, `TypeCorrect`
and the six safety properties of the run. The invariant joins `FieldInv`, `ShiftInv`,
`PartedInv`, `DictInv`, `KindInv` and `CapsInv`; `Synced` says when key and state agree. `ShiftStep` and
`LoadStep` sort the actions by what they do to the shift key and to the loads, so
that each part is shown once for a sort and not for every action.
`LoadsSettle` is liveness and only checked.

## 9. GestureInput

A word is drawn in one stroke over the keys. `CMBaseKeyboardView` follows the
finger; `onStartBatchInput` and `onEndBatchInput:` run on the main thread; a block
of the input queue and an operation of the suggestion queue look the stroke up and
write the word, first to the composer, then to the text. The module extends
`InputLogic`: its handlers are taken as they are, and beside each stands what it
does to the stroke, which lives in the composer.

| variable | code |
|---|---|
| `batch`, `points` | `isBatchMode` and `inputPointers` of the composer |
| `drawing` | `isInBatchInput` of the view |
| `asked`, `decoding` | the lookup that waits, and the one that runs; `commits` says that its word goes into the text |
| `unseen`, `fit`, `left` | history: the text changed where no composer looked; nothing came between the last stroke and now; the session was left open |

| action | code |
|---|---|
| `StartGesture`, `EndGesture` | `onStartBatchInput` with the space it inserts (`SetApart`), `onEndBatchInput:` and the block that asks for the lookup |
| `Abandon` | the finger leaves the keys: no handler is told |
| `StartDecode`, `DropDecode`, `StartUpdate` | the operation starts, is cancelled, or an update of the strip looks the stroke up again |
| `Answer`, `SetWord`, `CommitWord` | the three steps of the completion block, on the thread of the lookup |
| `Letter`, `Closing`, `Shift`, `Delete`, `BatchDelete`, `Pick`, `Host`, `Load`, `Background` | the handlers of `InputLogic`; `BatchDelete` takes a drawn word out whole |

A lookup finds a word or none, and without a stroke none. A key that acts when the
finger is lifted cannot come during a stroke, because lifting a finger ends the
stroke; one that acts when it is touched can. An answer to a lookup of the other
kind is `FinishLookup` of `InputLogic`. The double-space period is off: a stroke
neither opens nor closes its window.

| run | instance | shows |
|---|---|---|
| `gesture_input` | a letter, a closing mark, an emoji, a drawn word of two letters and a picked one of one, texts up to 5, ordinary and URL fields, see `Focus` | what is drawn stands apart, is composed where it stands, and is deleted whole |

Bounds. A text of 5 holds two drawn words and the space between; a drawn word has
two letters and a picked one has one, so that a wrong count shows. `Focus` lets the
search go on from states with at most one of: text that was not seen, a stroke given
up, an ordinary lookup, a URL field, one mark other than letters and single spaces.

- `ComposerMatchesText`, `TextBeforeWordKept`: those of `InputLogic`, with strokes.
- `GapKept`: where no word is composed and no space owed, the text ends in no letter.
  It is what lets a stroke begin at once.
- `GestureWordApart`: a drawn word is not joined to the word before it, where nothing
  came between the start of its stroke and its commit.
- `NoSpaceOwedInWord`: no space is owed inside a word, drawn or typed.
- `SessionEndsOrDraws`: a session in which the host is ignored is about to end, or is
  that of a stroke.
- `StrokeWaits`: the stroke that a lookup waits for is still in the composer when
  nothing came between.

Each exception was tried, and each is a weakness that the model keeps:

- the word of a stroke is committed wherever the cursor is when its lookup ends, so
  that a key, a pick, the host or the next stroke in between joins it to another word,
  or leaves the composer with a word that is not there;
- `setbatchInputWord:` writes over what is composed, and wipes the stroke that
  was drawn meanwhile: the second of two quick words is lost;
- a reload after the session has timed out wipes a stroke that still waits;
- an operation that ends cancels the one that `self.op` is by then, as in section 6;
- a pick while a lookup runs owes a space that then lands inside the drawn word;
- a stroke that leaves the keys (`CMBaseKeyboardView.m:425`) leaves the session open:
  nothing calls `onCancelBatchInput:`;
- the first stroke of a keyboard is joined to a word that is at the cursor already,
  because only a key takes that word up;
- `CMSuggest.m:275` says that the word found acts as typed and "not as an 'auto correct
  word'"; the `NO` of line 283 is 0, which `CMInputLogic.m:1205` takes for the first of
  the list: the word becomes the correction of whatever is composed.

### What is proved

`GestureInputProofs` proves all seven properties of the run, for any alphabet, URL
test, suggester, decoder, fields and bounds that satisfy the assumptions of
`InputLogic` and `GestureAssumption` (what the decoder finds is not empty; no letter
is a connector; the double-space period is off):

| theorem | says | argument |
|---|---|---|
| `GestureTypeCorrect` | `GestureSpec => []GestureTypeOK` | by action; a step of a handler is one of `Next` (`HandlerIsStep`) and `TypeStep` of `InputLogicProofs` takes it |
| `FitStrokeApart` | from its start to its lookup, with nothing between, a stroke finds nothing composed and no space owed (`FitApart`) | inductive with the types; a key that changes neither the text nor the word owes no new space (`QuietKey`) |
| `StrokeIsKept` | `GestureSpec => []StrokeWaits` | under `FitApart`: only a key that finds a word composed, or takes one up, wipes the stroke |
| `NoSpaceInDrawnWord` | `GestureSpec => []NoSpaceOwedInWord` | `OwedStep` for the handlers; a commit that leaves its word composed owes no space, by `FitApart` |
| `DrawnWordAtCursor` | `GestureSpec => []ComposerMatchesText` | `ComposerStep` for the handlers; a commit adds the word that is composed |
| `TextBeforeDrawnWord` | `GestureSpec => TextBeforeWordKept` | `TextStep` for the handlers; a rejection deletes no more than the word |
| `GapAlwaysKept` | `GestureSpec => []GapKept` | not inductive: a delete or a rejection uncovers what was before the word, so that the invariant `Apart` says of every composed word that it starts at a gap |
| `DrawnWordApart` | `GestureSpec => GestureWordApart` | a stroke finds a gap or puts a space, and keeps it while nothing comes between (`FitGap`) |
| `SessionIsClosed` | `GestureSpec => []SessionEndsOrDraws` | by action, inductive as it stands |

## 10. Not modelled

- *Dictionary facilitator*: the neural decoder, its search flags and its memory
  warnings beyond what reaches the user's dictionary, the order of suggestions. The
  decoders themselves are C++ and tensorflow; what they find is a constant.
- *Cloud prediction*: the numbers of words and answers, and the reports.
- *Kinfoc reporter*: which reports sampling turns away, the byte format;
  `stopReport` and `rebuildPublicSection`, which nothing calls.
- *Infoc reporters*: two more uploaders of the same shape.
- *Cloud configuration, network requests*: cached values without a protocol of their
  own, and wrappers of a library.
- *Key views, themes, container application*: geometry, images and screens.
- *Shift case, learning by `CMInputLogic`*: the case a word is typed in; the calls that
  learn a word are the `Learn...` actions of `HistoryStore`.
- *Decoders and vendored code*: nearly all C and C++ of the repository is tensorflow,
  protobuf, eigen and other vendored libraries. The program's own logic is Objective-C
  (`.m`, `.mm`) and a few files of the dictionary, and the modules translate that. A
  share of the vendored lines is not aimed at.

