SPECIFICATION Spec
CONSTANTS
  None = None
  NoTask = NoTask
  T1 = T1
  T2 = T2
  Tasks = {T1, T2}
  AutoStart = {T1}
  Requests = {}
  First = First
  Second = Second
  Lines <- RunnerLines
  InboxCap = 2
  QueueCap = 1
  MaxHangs = 0
INVARIANTS
  KilledBeforeExit
CHECK_DEADLOCK FALSE
