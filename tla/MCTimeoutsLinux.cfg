\* Violated: a delay of zero disarms the timer.
CONSTANTS
  TIMEOUTS = 2
  MAX_DELAY = 3
  MAX_STALL = 1
  ZERO_DISARMS = TRUE
SPECIFICATION Spec
INVARIANTS
  NoneForgotten
