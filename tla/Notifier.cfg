SPECIFICATION FairSpec
CONSTANTS
  s1 = s1
  s2 = s2
  Senders = {s1, s2}
  Kinds = {"BATTERY_CRITICAL", "AUTO_DRAIN_WARNING"}
  Exempt = {"AUTO_DRAIN_WARNING"}
  NoConfig = noConfig
  Configs <- AllConfigs
  MaxAttempts = 2
  Cooldown = 2
  CallTimeout = 1
INVARIANTS
  OneDeliveryPerKind
  ResultIsHonest
PROPERTIES
  NoSpam
  OffGoesQuiet
  SendReturns
