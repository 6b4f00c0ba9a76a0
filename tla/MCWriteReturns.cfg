SPECIFICATION FairSpec
CONSTANTS
  Builds = {"linux"}
  MAX_PACKETS = 2
  MAX_QUEUES = 3
  MAX_ELEMENTS = 1
  QUEUE_SIZE = 2
  Threads = {1, 2}
  PREEMPTIVE = FALSE
  MAC = 1
  Routings = {1}
  Topologies = {{1}}
PROPERTY WriteReturns
CHECK_DEADLOCK FALSE
