\* Two timeouts on RIOT.
CONSTANTS
  TIMEOUTS = 2
  MAX_DELAY = 3
  MAX_STALL = 1
  ZERO_DISARMS = FALSE
SPECIFICATION FairSpec
INVARIANTS
  TimeoutsTypeOK
  NeverEarly
  NoneForgotten
PROPERTIES
  ImplementsService
  EveryTimeoutPasses
