\* Every read finds the sender's next chunk.
CONSTANTS
  TIMEOUTS = 2
  LISTEN_TIMERS = TRUE
  CHUNKS = 3
  MAX_STRINGS = 2
  RELIABLE = TRUE
SPECIFICATION Spec
INVARIANT ReassembledInOrder
CHECK_DEADLOCK FALSE
