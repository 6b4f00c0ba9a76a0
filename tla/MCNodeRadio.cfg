\* A node with radio code: listens arm timeouts.
CONSTANTS
  TIMEOUTS = 4
  NSLOTS = 2
  NFREQS = 2
  MAX_PACKETS = 1
  LISTEN_TIMERS = TRUE
  BYTE_BITS = 2
  SLOT_BYTES = 1
  SYNC_TRIES = 2
  MAX_WAKEUP = 2
SPECIFICATION FairSpec
INVARIANTS
  TypeOK
  TransmitInOwnSlot
  SlotTimerHeld
  UpdatesAccepted
  OnlyCollisionRepeatsActive
  CollisionRecordConsistent
  FinishedClean
  FirstNodeOwnsFirstSlot
  SelectedSlotWasFree
PROPERTIES
  InitializationEnds
  ElectedAfterDetection
  CfMessageNearOwnCfSlot
