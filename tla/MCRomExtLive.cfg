SPECIFICATION FairSpec
CONSTANTS
  DefaultMinSecVer = 1
  MaxVersion = 2
  RequestTypes = {"NextBl0SlotReq", "PrimaryBl0SlotReq", "MinBl0SecVerReq"}
  RequestSlots = {"A", "B"}
  RecoveryKey = TRUE
  None = None
  MaxCounter = 7
  MaxFaults = 1
PROPERTY BootsWithAnyRequest
