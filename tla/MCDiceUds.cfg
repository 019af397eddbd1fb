SPECIFICATION Spec
CONSTANTS
  Window = 4
  Windows = 4
  UdsSize = 3
  Sizes <- MCSizes
  Measurements <- MCMeasurements
  Erased = Erased
  Torn = Torn
  Blob = Blob
  MaxFaults = 1
INVARIANTS
  UdsStays
