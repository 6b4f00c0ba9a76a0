SPECIFICATION Spec
CONSTANTS
  Builds = {"riot"}
  MAX_PACKETS = 2
  MAX_QUEUES = 3
  MAX_ELEMENTS = 1
  QUEUE_SIZE = 2
  Threads = {1, 2, 3}
  PREEMPTIVE = FALSE
  MAC = 1
  Routings = {0}
  Topologies = {{1, 3}}
INVARIANT ReceivedAsSent
CHECK_DEADLOCK FALSE
