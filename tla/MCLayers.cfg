SPECIFICATION FairSpec
CONSTANTS
  Builds = {"riot", "linux"}
  MAX_PACKETS = 2
  MAX_QUEUES = 3
  MAX_ELEMENTS = 1
  QUEUE_SIZE = 2
  Threads = {1, 2}
  PREEMPTIVE = FALSE
  MAC = 1
  Routings = {0, 2}
  Topologies = {{1}, {2}}
INVARIANTS
  TypeOK
  SendRingsConsistent
  ReceivedRingConsistent
  SoleReceiverGetsWhatWasSent
PROPERTIES
  PacketNotLost
  WriteReturnsOnRiot
CHECK_DEADLOCK FALSE
