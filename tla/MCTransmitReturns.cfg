\* Violated: TRANSMIT gives the slot timer away.
CONSTANTS
  TIMEOUTS = 3
  NSLOTS = 2
  NFREQS = 2
  MAX_PACKETS = 1
  LISTEN_TIMERS = TRUE
  BYTE_BITS = 2
  SLOT_BYTES = 1
  SYNC_TRIES = 2
  MAX_WAKEUP = 2
SPECIFICATION FairSpec
PROPERTIES
  TransmitReturnsToActive
