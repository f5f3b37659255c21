SPECIFICATION Spec
CONSTANTS
  Missing = Missing
  Unreadable = Unreadable
  None = None
  Order <- OneSlot
  Packs <- AllPacks
  Configured = None
  TLPCanSet = FALSE
  Windows <- SomeWindows
  MaxChanges = 1
INVARIANTS
  RuntimeIsHonest
  HealthIsOfOnePair
  GapsAreReported
PROPERTIES
  SetIsHonest
