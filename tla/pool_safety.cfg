SPECIFICATION Spec
CONSTANTS
  None = None
  Workers = {1, 2, 3}
  Pids = {1, 2, 3}
  PidOf <- OwnPids
  QueueCap = 2
  MaxExits = 1
  Silent = {1, 2, 3}
  MaxStalls = 1
  InitialCardinality = 2
  Targets = {1}
  Requests = {"set", "stop"}
  Chatty = {1}
  MaxRequests = 2
  MaxOutages = 0
INVARIANTS
  TypeOK
  ExitsConserved
  StallReported
  AliveTracked
  StopAnsweredAllDead
  NoLoopEnds
  StoppedNeverReturns
PROPERTIES
  ImplementsPool
  HungForGood
CHECK_DEADLOCK FALSE
