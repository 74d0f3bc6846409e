SPECIFICATION GestureSpec
CONSTANTS
    Letters = {"a"}
    Connectors = {}
    Digits = {}
    Separators = {"."}
    ClosingMarks = {"."}
    OtherSymbols = {"e"}
    Emojis = {"e"}
    Space = " "
    Newline = "nl"
    Period = "."
    NotBeforePeriod = {" ", "."}
    DoubleSpacePeriod = FALSE
    Kinds = {"text", "url"}
    AutoCorrect <- NoCorrections
    LooksLikeURL <- NoURL
    SuggestedWords <- MCSuggestedWords
    GestureWords <- MCGestureWords
    HostTexts <- MCHostTexts
    MaxText = 5
    MaxTapTimers = 0
CONSTRAINT Focus
INVARIANTS
    ComposerMatchesText
    GapKept
    NoSpaceOwedInWord
    SessionEndsOrDraws
    StrokeWaits
PROPERTIES
    TextBeforeWordKept
    GestureWordApart
