SPECIFICATION Spec
CONSTANTS
  DefaultMinSecVer = 1
  MaxVersion = 2
  RequestTypes = {"OwnershipUnlockReq"}
  RequestSlots = {"A", "B"}
  RecoveryKey = TRUE
  None = None
  MaxCounter = 6
  MaxFaults = 0
INVARIANT BadPagesAreDestroyed
