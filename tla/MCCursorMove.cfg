SPECIFICATION Spec

CONSTANTS
  Letters <- OneLetter
  Connectors = {"'"}
  Digits = {}
  Separators <- Marks
  ClosingMarks = {"."}
  OtherSymbols = {"e"}
  Emojis = {"e"}
  Space = " "
  Newline = "n"
  Period = "."
  NotBeforePeriod = {".", " "}
  DoubleSpacePeriod = FALSE
  Kinds = {"text"}
  AutoCorrect <- Corrections
  LooksLikeURL <- NoURL
  SuggestedWords <- StripWords
  HostTexts <- Hosts
  MaxText = 3
  MaxTapTimers = 0

INVARIANTS
  SettledComposerMatches
