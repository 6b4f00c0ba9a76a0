\* Chunks are lost, other frames and errors are heard.
CONSTANTS
  TIMEOUTS = 2
  LISTEN_TIMERS = TRUE
  CHUNKS = 3
  MAX_STRINGS = 2
  RELIABLE = FALSE
SPECIFICATION FairSpec
INVARIANTS
  TypeOK
  CountersAgree
  StringsAccounted
  SyncPacketIsFresh
PROPERTIES
  ImplementsListenService
  ListenEnds
