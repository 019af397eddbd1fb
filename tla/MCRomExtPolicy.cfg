SPECIFICATION Spec
CONSTANTS
  DefaultMinSecVer = 1
  MaxVersion = 3
  RequestTypes = {"NextBl0SlotReq", "PrimaryBl0SlotReq", "MinBl0SecVerReq"}
  RequestSlots = {"A", "B", "bad"}
  RecoveryKey = TRUE
  None = None
  MaxCounter = 7
  MaxFaults = 2
INVARIANTS TypeOK NoRollback AnswersHold
PROPERTIES MinSecVerNeverDrops OneTimeSlotIsNotKept
