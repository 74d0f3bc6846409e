SPECIFICATION Spec
CONSTANTS
  r1 = r1
  r2 = r2
  f1 = f1
  Reports <- TwoAndForced
  Forced <- OneForced
  BatchLimit = 2
  Capacity = 1
  MaxKills = 0
INVARIANTS
  FilteredIsReporting
