SPECIFICATION FairSpec
CONSTANTS
  ProgPage = 2
  FlashPage = 2
  BankSize = 4
  ImageLen = 2
  Versions = {1, 2}
  EraseAddrs = {7, 8}
  ProgAddrs = {1, 4}
  Erased = Erased
  Garbage = Garbage
  Unknown = Unknown
  None = None
  MaxCommands = 4
  MaxFaults = 1
INVARIANTS
  TypeOK
  NothingSurvives
  HostSeesMemory
  NewestRuns
  CountersAgree
PROPERTIES
  ImplementsSpiFlash
  BusyClears
  BootsValidImage
CHECK_DEADLOCK FALSE
