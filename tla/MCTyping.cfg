SPECIFICATION Spec

CONSTANTS
  Letters <- OneLetter
  Connectors = {}
  Digits = {"1"}
  Separators = {"."}
  ClosingMarks = {"."}
  OtherSymbols = {}
  Emojis = {}
  Space = " "
  Newline = "n"
  Period = "."
  NotBeforePeriod = {".", " "}
  DoubleSpacePeriod = TRUE
  Kinds = {"text"}
  AutoCorrect <- Corrections
  LooksLikeURL <- NoURL
  SuggestedWords <- StripWords
  HostTexts <- Hosts
  MaxText = 4
  MaxTapTimers = 2

INVARIANTS
  TypeOK
  ComposerMatchesText
  PhantomOnlyBetweenWords
  RevertTargetStands
  ActiveInputEnds
  TapWindowCloses

PROPERTIES
  TextBeforeWordKept

CONSTRAINT ShortDigits
