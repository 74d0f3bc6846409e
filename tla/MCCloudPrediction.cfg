CONSTANTS
  None = None
  MaxJobs = 1
  MaxFaults = 3
SPECIFICATION FairSpec
INVARIANT ConnectionsBounded
PROPERTY Recovers
