SPECIFICATION Spec
CONSTANTS
  None = None
  Workers = {1, 2}
  Pids = {1, 2}
  PidOf <- OwnPids
  QueueCap = 2
  MaxExits = 1
  Silent = {}
  MaxStalls = 0
  InitialCardinality = 1
  Targets = {}
  Requests = {}
  Chatty = {}
  MaxRequests = 0
  MaxOutages = 0
PROPERTIES
  LoopEnds
CHECK_DEADLOCK FALSE
