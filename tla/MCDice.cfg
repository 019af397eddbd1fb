SPECIFICATION FairSpec
CONSTANTS
  Window = 4
  Windows = 4
  UdsSize = 3
  Sizes <- MCSizes
  Measurements <- MCMeasurements
  Erased = Erased
  Torn = Torn
  Blob = Blob
  MaxFaults = 2
INVARIANTS
  TypeOK
  CurrentChain
  NoStaleTail
  WholeUnlessCut
PROPERTIES
  ReachesOwner
