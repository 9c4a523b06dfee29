SPECIFICATION Spec
CONSTANTS
  None = None
  Workers = {1, 2}
  Pids = {1, 2}
  PidOf <- OwnPids
  QueueCap = 1
  MaxExits = 2
  Silent = {}
  MaxStalls = 0
  InitialCardinality = 2
  Targets = {}
  Requests = {"status"}
  Chatty = {}
  MaxRequests = 1
  MaxOutages = 0
PROPERTIES
  BroadcastReturns
CHECK_DEADLOCK FALSE
