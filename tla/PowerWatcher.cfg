SPECIFICATION FairSpec
CONSTANTS
  NumAdapters = 2
  Debounce = 2
  MaxAge = 6
PROPERTIES
  StableForDebounce
  DurationWithinOutage
  StableIsCommitted
