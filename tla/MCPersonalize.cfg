SPECIFICATION FairSpec
CONSTANTS
  None = None
  Blank = Blank
  Partial = Partial
  Torn = Torn
  MaxRuns = 4
  MaxFaults = 3
INVARIANTS
  TypeOK
  LockedIsWhole
  ExportsStay
  SuccessIsComplete
PROPERTIES
  ResumesUntilLocked
CHECK_DEADLOCK FALSE
