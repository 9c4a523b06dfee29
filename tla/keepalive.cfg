SPECIFICATION Spec
CONSTANTS
  None = None
  Instances = {1, 10}
  NameOf <- PrefixNames
  Pids = {11}
  WireCap = 1
  SocketCap = 2
  ChannelCap = 1
INVARIANTS
  TypeOK
  ClosedOnceByTask
PROPERTIES
  HandlerResponsive
  HandlerEnds
CHECK_DEADLOCK FALSE
