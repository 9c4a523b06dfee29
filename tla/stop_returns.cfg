SPECIFICATION Spec
CONSTANTS
  None = None
  Workers = {1, 2}
  Pids = {1, 2}
  PidOf <- OwnPids
  QueueCap = 2
  MaxExits = 0
  Silent = {}
  MaxStalls = 0
  InitialCardinality = 1
  Targets = {}
  Requests = {"stop"}
  Chatty = {}
  MaxRequests = 1
  MaxOutages = 0
PROPERTIES
  StopReturns
CHECK_DEADLOCK FALSE
