\* A node with the NATIVE stubs: synchronisation in full, frames of one slot.
CONSTANTS
  TIMEOUTS = 3
  NSLOTS = 1
  NFREQS = 2
  MAX_PACKETS = 1
  LISTEN_TIMERS = FALSE
  BYTE_BITS = 1
  SLOT_BYTES = 1
  SYNC_TRIES = 2
  MAX_WAKEUP = 2
SPECIFICATION FairSpec
INVARIANTS
  SyncTimersHeld
  SelectionHasTimer
PROPERTIES
  CollectionEnds
  CfPhaseTerminates
