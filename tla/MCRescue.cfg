SPECIFICATION FairSpec
CONSTANTS
  Big = 2
  Buffer = 4
  MsgLen = 2
  Pages = 2
  FrameMod = 4
  HostMaxErrors = 2
  StartTries = 2
  FileLens = {3, 5, 9}
  Junk = {"chars"}
  None = None
  MaxCommands = 2
  MaxNaks = 1
  MaxFaults = 2
INVARIANTS
  TypeOK
  FramesFit
  PagesInOrder
  DownloadIsExact
  AcknowledgedIsStored
PROPERTIES
  ImplementsTransfer
  OperationsEnd
  DamagedFramesAreRepeated
CHECK_DEADLOCK FALSE
