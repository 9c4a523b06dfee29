SPECIFICATION Spec
CONSTANTS
  None = None
  Workers = {1, 2}
  Pids = {1, 2}
  PidOf <- OwnPids
  QueueCap = 2
  MaxExits = 0
  Silent = {}
  MaxStalls = 0
  InitialCardinality = 1
  Targets = {}
  Requests = {}
  Chatty = {}
  MaxRequests = 0
  MaxOutages = 1
PROPERTIES
  StartupFailureStopsTask
CHECK_DEADLOCK FALSE
