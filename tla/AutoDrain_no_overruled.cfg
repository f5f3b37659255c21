SPECIFICATION Spec
CONSTANTS
  Ticker = ticker
  Responders = {r1, r2}
  NoConfig = noConfig
  Configs <- OneConfig
  Readings <- LowOrAC
  SendOutcomes = {"delivered", "failed"}
  MaxPrompts = 2
  MaxClock = 1
SYMMETRY Symmetry
PROPERTIES
  NoKeepsHostUp
