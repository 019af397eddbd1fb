SPECIFICATION FairSpec
CONSTANTS
  DefaultMinSecVer = 0
  MaxVersion = 2
  RequestTypes = {"MinBl0SecVerReq"}
  RequestSlots = {"A", "B"}
  RecoveryKey = TRUE
  None = None
  MaxCounter = 6
  MaxFaults = 0
PROPERTY BootsWithAnyRequest
