SPECIFICATION FairSpec
CONSTANTS
  EntriesPerPage = 2
  s0 = s0
  Settings = {s0}
  DefaultSettings = s0
  LcStates = {"Dev", "Prod"}
  DefaultInProdEn = FALSE
  Erased = Erased
  Zeros = Zeros
  Garbage = Garbage
  None = None
  MaxCounter = 9
  MaxFaults = 2
INVARIANTS TypeOK PagesNeverTie ProgramsErasedWords
PROPERTIES
  Atomic EventuallyBoots
