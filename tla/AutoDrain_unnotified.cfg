SPECIFICATION Spec
CONSTANTS
  Ticker = ticker
  Responders = {r1}
  NoConfig = noConfig
  Configs <- PlainOrRehearsed
  Readings <- LowOrAC
  SendOutcomes = {"delivered", "panicked", "failed"}
  MaxPrompts = 1
  MaxClock = 1
INVARIANTS
  NeverWithoutNotification
