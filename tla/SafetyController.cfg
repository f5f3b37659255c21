SPECIFICATION FairSpec
CONSTANTS
  Poller = poller
  s1 = s1
  Simulators = {s1}
  NoConfig = noConfig
  Configs <- Retuned
  Readings <- Everything
  MaxClock = 1
INVARIANTS
  LowIsAlerted
PROPERTIES
  OneAlertPerEpisode
  CriticalIsReported
