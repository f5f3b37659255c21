SPECIFICATION FairSpec
CONSTANTS
  Ticker = ticker
  Responders = {r1}
  NoConfig = noConfig
  Configs <- Settings
  Readings <- EachOutcome
  SendOutcomes = {"delivered", "failed"}
  MaxPrompts = 1
  MaxClock = 2
INVARIANTS
  RunNeedsConsent
PROPERTIES
  HostRunIsReported
  WindowHonoured
  PromptSettles
