SPECIFICATION Spec
CONSTANTS
  None = None
  Workers = {1, 2, 3, 4, 5}
  Pids = {1, 2, 5}
  PidOf <- ReusedPids
  QueueCap = 2
  MaxExits = 2
  Silent = {}
  MaxStalls = 0
  InitialCardinality = 2
  Targets = {}
  Requests = {"status", "stop"}
  Chatty = {1}
  MaxRequests = 1
  MaxOutages = 0
INVARIANTS
  NoSendOnClosedChannel
  AnsweredBeforeClose
  StraySignals
  ExitsConserved
CHECK_DEADLOCK FALSE
