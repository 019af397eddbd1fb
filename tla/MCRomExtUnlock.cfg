SPECIFICATION Spec
CONSTANTS
  DefaultMinSecVer = 0
  MaxVersion = 2
  RequestTypes = {"MinBl0SecVerReq", "OwnershipUnlockReq"}
  RequestSlots = {"A", "B"}
  RecoveryKey = TRUE
  None = None
  MaxCounter = 8
  MaxFaults = 2
PROPERTIES EachUnlockTakesANonce OnlyTrustedKeysUnlock
