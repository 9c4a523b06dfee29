SPECIFICATION Spec
CONSTANTS
  None = None
  NoTask = NoTask
  T1 = T1
  T2 = T2
  Tasks = {T1, T2}
  AutoStart = {T1}
  Requests = {r1, r2}
  First = First
  Second = Second
  Lines <- RunnerLines
  InboxCap = 2
  QueueCap = 1
  MaxHangs = 1
INVARIANTS
  TypeOK
  Supervised
  NothingAfterStop
  AnswersToTheirOwn
PROPERTIES
  AnswersComplete
  ActiveAsAsked
  ImplementsSupervisor
  RequestsAnswered
  RepliesReturn
  InterruptExits
CHECK_DEADLOCK FALSE
