SPECIFICATION Spec
CONSTANTS
  Big = 2
  Buffer = 4
  MsgLen = 2
  Pages = 2
  FrameMod = 4
  HostMaxErrors = 2
  StartTries = 2
  FileLens = {3, 5, 9}
  Junk = {"chars", "eof"}
  None = None
  MaxCommands = 1
  MaxNaks = 1
  MaxFaults = 1
INVARIANTS
  AcknowledgedIsStored
CHECK_DEADLOCK FALSE
