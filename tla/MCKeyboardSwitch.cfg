SPECIFICATION FairSpec
CONSTANTS
    Fields = {"message", "code", "number"}
    CapsOf <- MCCapsOf
    KindOf <- MCKindOf
    Languages = {"en", "fr"}
    NextLanguage <- MCNextLanguage
    FirstLanguage = "en"
    NoField = NoField
    MaxClosings = 2
    MaxSwitches = 1
CONSTRAINT Focus
INVARIANTS
    KeyShowsState
    WindowWillClose
    LastAskedIsShown
    CapsFollowField
    DictionaryMatchesKeys
PROPERTIES
    LockIsMeant
    LoadsSettle
