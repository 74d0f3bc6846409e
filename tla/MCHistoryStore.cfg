SPECIFICATION Spec
CONSTANTS
  w1 = w1
  w2 = w2
  d1 = d1
  d2 = d2
  None = None
  Words <- OneWord
  Dicts <- TwoDicts
  MaxQueue = 2
SYMMETRY Symmetry
INVARIANTS
  KnowsWhatWasTaught
  SavedStays
  DeafOnlyAfterOverlap
  LookupAnswered
PROPERTY
  Implements
CONSTRAINT Focus
