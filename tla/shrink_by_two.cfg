SPECIFICATION Spec
CONSTANTS
  None = None
  Workers = {1, 2, 3}
  Pids = {1, 2, 3}
  PidOf <- OwnPids
  QueueCap = 2
  MaxExits = 0
  Silent = {}
  MaxStalls = 0
  InitialCardinality = 3
  Targets = {1}
  Requests = {"set"}
  Chatty = {}
  MaxRequests = 1
  MaxOutages = 0
PROPERTIES
  OnlySurplusStopped
CHECK_DEADLOCK FALSE
