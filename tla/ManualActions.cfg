SPECIFICATION FairSpec
CONSTANTS
  r1 = r1
  r2 = r2
  Requests = {r1, r2}
  k1 = k1
  Keys = {k1}
  NoKey = noKey
  NoConfig = noConfig
  Configs <- Saved
  Readings <- Sensed
  MaxClock = 1
INVARIANTS
  OneAtATime
PROPERTIES
  SuccessesApart
  DuplicateHasRun
  GatesHonoured
  GuardIsReleased
