SPECIFICATION Spec
CONSTANTS
  None = None
  Workers = {1, 2, 3, 4}
  Pids = {1, 2, 3, 4}
  PidOf <- OwnPids
  QueueCap = 2
  MaxExits = 1
  Silent = {1}
  MaxStalls = 1
  InitialCardinality = 1
  Targets = {0, 2}
  Requests = {"set", "listworkers", "status", "stop"}
  Chatty = {2}
  MaxRequests = 1
  MaxOutages = 1
INVARIANTS
  NeverShort
PROPERTIES
  ResponsiveUnlessHung
  PoolRefilled
CHECK_DEADLOCK FALSE
