SPECIFICATION Spec

CONSTANTS
  Letters <- OneLetter
  Connectors = {}
  Digits = {}
  Separators <- Marks
  ClosingMarks = {"."}
  OtherSymbols = {"e"}
  Emojis = {"e"}
  Space = " "
  Newline = "n"
  Period = "."
  NotBeforePeriod = {".", " "}
  DoubleSpacePeriod = FALSE
  Kinds = {"text", "noauto", "url"}
  AutoCorrect <- Corrections
  LooksLikeURL <- Slashes
  SuggestedWords <- StripWords
  HostTexts <- Hosts
  MaxText = 3
  MaxTapTimers = 0

INVARIANTS
  ComposerMatchesText
  SpaceOwedOnce
  RevertTargetStands

PROPERTIES
  TextBeforeWordKept
