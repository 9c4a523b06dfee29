------------------------- MODULE TaskManager_proofs -------------------------
(***************************************************************************)
(* Theorems about TaskManager, for any number of workers, any targets and  *)
(* any of the bounds.                                                      *)
(***************************************************************************)
EXTENDS TaskManager, TLAPS

USE NoneAssumption, PidAssumption, CardinalityAssumption, RequestsAssumption

-----------------------------------------------------------------------------
(* Type correctness *)

LEMMA TypeInit == Init => TypeOK
<1> SUFFICES ASSUME Init PROVE TypeOK
  OBVIOUS
<1>1. WorkerTypeOK /\ commands \in Seq(Messages)
  BY DEF Init, WorkerInit, WorkerTypeOK, RunStates, Callers
<1>2. /\ cardinality \in Nat /\ nStoppedWorkers \in Nat /\ nStalledWorkers \in Nat
      /\ started \in Nat /\ outages \in Nat /\ sent \in Nat
  BY DEF Init
<1>3. /\ active \in BOOLEAN /\ runnerActive \in BOOLEAN /\ sending \in BOOLEAN
      /\ failing \in BOOLEAN /\ stopAnswered \in BOOLEAN /\ timedOut \in BOOLEAN
      /\ givenUp \in BOOLEAN
  BY DEF Init
<1>4. /\ workerChannels    \in [Pids -> Workers \cup {None}]
      /\ keepaliveChannels \in [Pids -> Workers \cup {None}]
      /\ stopper \in [Workers -> {"none", "send", "wait"}]
  BY DEF Init
<1>5. /\ tpc \in TaskStates /\ after \in Continuations
      /\ current \in Workers \cup {None} /\ todo \subseteq Workers
      /\ keepalives \subseteq Pids /\ startReply \in {"open", "closed"}
  BY DEF Init, TaskStates, Continuations
<1> QED
  BY <1>1, <1>2, <1>3, <1>4, <1>5 DEF TypeOK

\* The steps of a worker keep the types.
LEMMA WorkerStepType ==
  ASSUME TypeOK, NEW w \in Workers, WorkerStep(w)
  PROVE  TypeOK'
<1> USE DEF TypeOK, WorkerTypeOK, RunStates, Callers, taskVars, controlVars, poolVars,
            counterVars, startVars, requestVars, historyVars
<1>1. \A s \in BOOLEAN : StoppedWorker(w, s) \in Messages
  BY DEF StoppedWorker, Messages
<1>2. CASE TakeExit(w) /\ UNCHANGED taskVars
  BY <1>2 DEF TakeExit
<1>3. CASE Forward(w) /\ UNCHANGED taskVars
  <2>1. StoppedWorker(w, FALSE) \in Messages
    BY <1>1
  <2>2. PICK m \in Messages : commands' = Append(commands, m)
    BY <2>1, <1>3, Zenon DEF Forward
  <2>3. commands' \in Seq(Messages)
    BY <2>2
  <2> QED
    BY <1>3, <2>3 DEF Forward
<1>4. CASE StallTick(w) /\ UNCHANGED taskVars
  BY <1>4 DEF StallTick, BeginStop, SendSignal
<1>5. CASE TakeClosed(w) /\ UNCHANGED taskVars
  BY <1>5 DEF TakeClosed, BeginStop, SendSignal
<1>6. CASE GraceExpires(w) /\ UNCHANGED taskVars
  BY <1>6 DEF GraceExpires, SendSignal
<1>7. CASE Feedback(w) /\ UNCHANGED taskVars
  <2>1. stalled[w] \in BOOLEAN
    OBVIOUS
  <2>2. commands' \in Seq(Messages)
    BY <1>1, <1>7, <2>1 DEF Feedback
  <2> QED
    BY <1>7, <2>2 DEF Feedback
<1>8. CASE ProcessStep(w)
  <2>1. UNCHANGED taskVars
    BY <1>8 DEF ProcessStep
  <2>2. CASE ExitAlone(w) \/ ExitOnSignal(w)
    BY <2>1, <2>2 DEF ExitAlone, ExitOnSignal
  <2>3. CASE Reap(w)
    BY <2>1, <2>3 DEF Reap
  <2>4. CASE Elapse(w)
    BY <2>1, <2>4 DEF Elapse
  <2> QED
    BY <1>8, <2>2, <2>3, <2>4 DEF ProcessStep
<1>9. CASE SendStop(w)
  BY <1>9 DEF SendStop, BeginStop, SendSignal
<1>10. CASE AnswerStop(w)
  BY <1>10 DEF AnswerStop, StopTakesExit
<1>11. CASE EmitKeepAlive(w)
  BY <1>11 DEF EmitKeepAlive, workerVars
<1>12. CASE AnswerOnClosed(w)
  BY <1>12 DEF AnswerOnClosed, workerVars, TaskStates
<1> QED
  BY <1>2, <1>3, <1>4, <1>5, <1>6, <1>7, <1>8, <1>9, <1>10, <1>11, <1>12
     DEF WorkerStep, LoopStep

\* What a report and a set command carry.
LEMMA StoppedWorkerType ==
  ASSUME NEW m \in Messages, m.type = "stoppedworker"
  PROVE  m.worker \in Workers /\ m.stalled \in BOOLEAN
BY DEF Messages

LEMMA SetType ==
  ASSUME NEW m \in Messages, m.type = "set"
  PROVE  m.value \in Nat
BY DEF Messages

\* A command taken off the channel is one, and leaves a queue of commands.
LEMMA ReceiveType ==
  ASSUME TypeOK, NEW t, Receive(t)
  PROVE  /\ Head(commands) \in Messages
         /\ Head(commands).type = t
         /\ commands' \in Seq(Messages)
BY DEF TypeOK, Receive

\* The steps of the task keep the types.
LEMMA TaskStepType ==
  ASSUME TypeOK, TaskStep
  PROVE  TypeOK'
<1> USE DEF TypeOK, TaskStates, Continuations, controlVars, poolVars, counterVars,
            startVars, requestVars, historyVars
<1>1. ASSUME UNCHANGED workerVars PROVE WorkerTypeOK'
  BY <1>1 DEF WorkerTypeOK, workerVars
<1>2. ASSUME NEW w \in Workers, StartupStarts(w) \/ Restock(w) PROVE TypeOK'
  <2>1. StartWorker(w)
    BY <1>2 DEF StartupStarts, Restock
  <2>2. WorkerTypeOK'
    BY <2>1 DEF StartWorker, Spawn, WorkerTypeOK, RunStates
  <2>3. /\ workerChannels'    \in [Pids -> Workers \cup {None}]
        /\ keepaliveChannels' \in [Pids -> Workers \cup {None}]
    BY <2>1 DEF StartWorker
  <2>4. CASE StartupStarts(w)
    BY <2>2, <2>3, <2>4 DEF StartupStarts
  <2>5. CASE Restock(w)
    BY <2>2, <2>3, <2>5 DEF Restock
  <2> QED
    BY <1>2, <2>4, <2>5
<1>3. ASSUME NEW w \in Workers, CollectInfo(w) PROVE TypeOK'
  <2>1. WorkerTypeOK'
    BY <1>3 DEF CollectInfo, AnswerInfo, WorkerTypeOK, RunStates
  <2> QED
    BY <1>3, <2>1 DEF CollectInfo
<1>4. CASE StartupFails
  BY <1>1, <1>4 DEF StartupFails, StartWorkerFails, StopWorkersByPid
<1>5. CASE StartFailed
  BY <1>1, <1>5 DEF StartFailed, ReplyToStart
<1>6. CASE EnterLoop
  BY <1>1, <1>6 DEF EnterLoop
<1>7. CASE LeaveLoop
  BY <1>1, <1>7 DEF LeaveLoop, StopWorkersByPid
<1>8. CASE Terminated
  BY <1>1, <1>8 DEF Terminated, ReplyToStart
<1>9. CASE CleanWorkerReference
  <2>1. /\ Head(commands) \in Messages
        /\ Head(commands).type = "stoppedworker"
        /\ commands' \in Seq(Messages)
    BY <1>9, ReceiveType DEF CleanWorkerReference
  <2>2. Head(commands).worker \in Workers
    BY <2>1, StoppedWorkerType
  <2>3. nStoppedWorkers' \in Nat /\ nStalledWorkers' \in Nat
    BY <1>9 DEF CleanWorkerReference, CountExit
  <2>4. /\ cmdClosed' \in [Workers -> BOOLEAN]
        /\ workerChannels' \in [Pids -> Workers \cup {None}]
        /\ keepaliveChannels' \in [Pids -> Workers \cup {None}]
    BY <1>9, <2>2 DEF CleanWorkerReference, ForgetWorker, WorkerTypeOK
  <2>5. WorkerTypeOK'
    BY <1>9, <2>4 DEF CleanWorkerReference, WorkerTypeOK
  <2> QED
    BY <1>9, <2>1, <2>3, <2>4, <2>5 DEF CleanWorkerReference
<1>10. CASE Set
  <2>1. /\ Head(commands) \in Messages
        /\ Head(commands).type = "set"
        /\ commands' \in Seq(Messages)
    BY <1>10, ReceiveType DEF Set
  <2>2. Head(commands).value \in Nat
    BY <2>1, SetType
  <2> QED
    BY <1>1, <1>10, <2>1, <2>2 DEF Set
<1>11. CASE Stop
  <2>1. commands' \in Seq(Messages)
    BY <1>11, ReceiveType DEF Stop
  <2> QED
    BY <1>1, <1>11, <2>1 DEF Stop, StopWorkersByPid
<1>12. ASSUME NEW t, AskWorkers(t) PROVE TypeOK'
  <2>1. commands' \in Seq(Messages)
    BY <1>12, ReceiveType DEF AskWorkers
  <2> QED
    BY <1>1, <1>12, <2>1 DEF AskWorkers, Tracked
<1>13. CASE Maintained
  BY <1>1, <1>13 DEF Maintained
<1>14. CASE Stopped
  BY <1>1, <1>14 DEF Stopped
<1>15. CASE Replied
  BY <1>1, <1>15 DEF Replied
<1>16. CASE RestockFails
  BY <1>1, <1>16 DEF RestockFails, StartWorkerFails
<1>17. CASE Restored
  BY <1>1, <1>17 DEF Restored
<1>18. CASE AtCardinality
  BY <1>1, <1>18 DEF AtCardinality
<1>19. CASE StopExtraWorkers
  BY <1>1, <1>19 DEF StopExtraWorkers, StopWorkersByPid
<1>20. CASE SendInfo
  <2>1. WorkerTypeOK'
    BY <1>20 DEF SendInfo, TakeInfo, WorkerTypeOK, RunStates
  <2> QED
    BY <1>20, <2>1 DEF SendInfo, Tracked
<1>21. CASE BroadcastTimesOut
  BY <1>1, <1>21 DEF BroadcastTimesOut
<1>22. CASE DeliverKeepAlive
  <2>1. WorkerTypeOK'
    BY <1>22 DEF DeliverKeepAlive, TakeKeepAlive, WorkerTypeOK
  <2> QED
    BY <1>22, <2>1 DEF DeliverKeepAlive
<1>23. CASE DropKeepAliveChannel
  BY <1>1, <1>23 DEF DropKeepAliveChannel
<1>24. ASSUME NEW p \in Pids, KeepWorkerAlive(p) PROVE TypeOK'
  BY <1>1, <1>24 DEF KeepWorkerAlive
<1> HIDE DEF TypeOK
<1> QED
  BY <1>2, <1>3, <1>4, <1>5, <1>6, <1>7, <1>8, <1>9, <1>10, <1>11, <1>12, <1>13,
     <1>14, <1>15, <1>16, <1>17, <1>18, <1>19, <1>20, <1>21, <1>22, <1>23, <1>24
     DEF TaskStep, TakeCommand, Status, ListWorkers

\* The steps of the Runner and of the operating system keep the types.
LEMMA EnvironmentType ==
  ASSUME TypeOK, Environment
  PROVE  TypeOK'
<1> USE DEF TypeOK, WorkerTypeOK, workerVars, controlVars, poolVars, counterVars,
            startVars, historyVars
<1>1. CASE Request
  <2>1. PICK c \in ForwardedCommands :
          /\ commands' = Append(commands, c)
          /\ runnerActive' = (c.type # "stop")
          /\ sending' \in IF c.type \in {"status", "stop"} THEN BOOLEAN ELSE {FALSE}
    BY <1>1 DEF Request
  <2>2. c \in Messages
    BY DEF ForwardedCommands, Command, SetCommand, Messages
  <2>3. sending' \in BOOLEAN
    BY <2>1
  <2> QED
    BY <1>1, <2>1, <2>2, <2>3 DEF Request
<1>2. CASE SentToAll
  BY <1>2 DEF SentToAll
<1>3. CASE Outage
  BY <1>3 DEF Outage, requestVars
<1>4. CASE OutageEnds
  BY <1>4 DEF OutageEnds, requestVars
<1> QED
  BY <1>1, <1>2, <1>3, <1>4 DEF Environment

\* Type correctness: every variable keeps its type, whatever the cardinalities,
\* the number of workers and the allocation of pids.
THEOREM TypeCorrect == Spec => []TypeOK
<1>1. TypeOK /\ [Next]_vars => TypeOK'
  <2> SUFFICES ASSUME TypeOK, [Next]_vars PROVE TypeOK'
    OBVIOUS
  <2>1. CASE Next
    BY <2>1, TaskStepType, EnvironmentType, WorkerStepType DEF Next
  <2>2. CASE UNCHANGED vars
    BY <2>2 DEF vars, TypeOK, WorkerTypeOK, workerVars, taskVars, controlVars,
       poolVars, counterVars, startVars, requestVars, historyVars
  <2> QED
    BY <2>1, <2>2
<1> QED
  BY <1>1, TypeInit, PTL DEF Spec

-----------------------------------------------------------------------------
(* Channels *)

\* A map entry is the open channel of a worker that was started with that pid,
\* and the channels the task is sending on are in the map.
ChannelInv ==
  /\ \A p \in Pids : workerChannels[p] # None =>
       /\ PidOf[workerChannels[p]] = p
       /\ proc[workerChannels[p]] # "none"
       /\ ~cmdClosed[workerChannels[p]]
  /\ \A w \in Workers : proc[w] = "none" => ~cmdClosed[w]
  /\ \A w \in Workers : stopper[w] # "none" =>
       tpc \in {"stopwait", "panic"} /\ w \in Tracked
  /\ tpc = "bsend" => todo \subseteq Tracked /\ current \in todo

\* Every step keeps the channels of the map open.
LEMMA ChannelStep ==
  ASSUME TypeOK, ChannelInv, Next
  PROVE  ChannelInv'
<1> USE DEF TypeOK, WorkerTypeOK, workerVars, taskVars, controlVars, poolVars,
            counterVars, startVars, requestVars, historyVars, ChannelInv, Tracked
<1>1. ASSUME NEW w \in Workers, ExitAlone(w) /\ UNCHANGED taskVars PROVE ChannelInv'
  BY <1>1 DEF ExitAlone
<1>2. ASSUME NEW w \in Workers, ExitOnSignal(w) /\ UNCHANGED taskVars PROVE ChannelInv'
  BY <1>2 DEF ExitOnSignal
<1>3. ASSUME NEW w \in Workers, SendStop(w) PROVE ChannelInv'
  BY <1>3 DEF SendStop, BeginStop, SendSignal
<1>4. ASSUME NEW w \in Workers, AnswerStop(w) PROVE ChannelInv'
  BY <1>4 DEF AnswerStop, StopTakesExit
<1>5. ASSUME NEW w \in Workers, StartupStarts(w) PROVE ChannelInv'
  BY <1>5 DEF StartupStarts, StartWorker, Spawn, NextFresh, Fresh
<1>6. ASSUME NEW w \in Workers, Restock(w) PROVE ChannelInv'
  BY <1>6 DEF Restock, BelowCardinality, StartWorker, Spawn, NextFresh, Fresh
<1>7. ASSUME NEW w \in Workers, CollectInfo(w) PROVE ChannelInv'
  BY <1>7 DEF CollectInfo, AnswerInfo
<1>8. CASE StartupFails
  BY <1>8 DEF StartupFails, StartWorkerFails, StopWorkersByPid
<1>9. CASE StartFailed
  BY <1>9 DEF StartFailed, ReplyToStart, StoppersDone
<1>10. CASE EnterLoop
  BY <1>10 DEF EnterLoop
<1>11. CASE LeaveLoop
  BY <1>11 DEF LeaveLoop, StopWorkersByPid
<1>12. CASE Terminated
  BY <1>12 DEF Terminated, ReplyToStart, StoppersDone
<1>13. CASE CleanWorkerReference
  <2>1. /\ Head(commands) \in Messages
        /\ Head(commands).type = "stoppedworker"
    BY <1>13, ReceiveType DEF CleanWorkerReference
  <2>2. Head(commands).worker \in Workers
    BY <2>1, StoppedWorkerType
  <2>3. PICK pid \in Pids : ForgetWorker(pid)
    BY <1>13, <2>2 DEF CleanWorkerReference
  <2>4. /\ tpc = "loop" /\ tpc' = "restore"
        /\ UNCHANGED <<proc, stopper>>
    BY <1>13 DEF CleanWorkerReference, Receive
  <2>5. CASE workerChannels[pid] = None
    BY <2>3, <2>4, <2>5 DEF ForgetWorker
  <2>6. CASE workerChannels[pid] # None
    BY <2>3, <2>4, <2>6 DEF ForgetWorker
  <2> QED
    BY <2>5, <2>6
<1>14. CASE Set
  BY <1>14 DEF Set, Receive
<1>15. CASE Stop
  BY <1>15 DEF Stop, Receive, StopWorkersByPid
<1>16. ASSUME NEW t, AskWorkers(t) PROVE ChannelInv'
  BY <1>16 DEF AskWorkers, Receive
<1>17. CASE Maintained \/ Stopped \/ Replied
  BY <1>17 DEF Maintained, Stopped, Replied, StoppersDone
<1>18. CASE RestockFails
  BY <1>18 DEF RestockFails, BelowCardinality, StartWorkerFails
<1>19. CASE Restored
  BY <1>19 DEF Restored
<1>20. CASE AtCardinality
  BY <1>20 DEF AtCardinality
<1>21. CASE StopExtraWorkers
  BY <1>21 DEF StopExtraWorkers, StopWorkersByPid
<1>22. CASE SendInfo
  BY <1>22 DEF SendInfo, TakeInfo
<1>23. CASE DeliverKeepAlive
  BY <1>23 DEF DeliverKeepAlive, TakeKeepAlive
<1>24. CASE DropKeepAliveChannel
  BY <1>24 DEF DropKeepAliveChannel
<1>25. ASSUME NEW p \in Pids, KeepWorkerAlive(p) PROVE ChannelInv'
  BY <1>25 DEF KeepWorkerAlive
<1>26. CASE UNCHANGED <<workerChannels, cmdClosed, proc, stopper, tpc, todo, current>>
  BY <1>26
<1>27. ASSUME NEW w \in Workers,
              (TakeExit(w) /\ UNCHANGED taskVars) \/
              (Forward(w) /\ UNCHANGED taskVars) \/
              (StallTick(w) /\ UNCHANGED taskVars) \/
              (TakeClosed(w) /\ UNCHANGED taskVars) \/
              (GraceExpires(w) /\ UNCHANGED taskVars) \/
              (Feedback(w) /\ UNCHANGED taskVars) \/
              (Reap(w) /\ UNCHANGED taskVars) \/
              (Elapse(w) /\ UNCHANGED taskVars) \/ EmitKeepAlive(w)
      PROVE  ChannelInv'
  BY <1>27, <1>26
     DEF TakeExit, Forward, StallTick, BeginStop, SendSignal, TakeClosed,
         GraceExpires, Feedback, Reap, Elapse, EmitKeepAlive
<1>28. CASE Environment
  BY <1>28, <1>26 DEF Environment, Request, SentToAll, Outage, OutageEnds
<1>29. CASE BroadcastTimesOut
  BY <1>29 DEF BroadcastTimesOut
<1>30. ASSUME NEW w \in Workers, AnswerOnClosed(w) PROVE ChannelInv'
  BY <1>30 DEF AnswerOnClosed
<1> QED
  BY <1>1, <1>2, <1>3, <1>4, <1>5, <1>6, <1>7, <1>8, <1>9, <1>10, <1>11, <1>12,
     <1>13, <1>14, <1>15, <1>16, <1>17, <1>18, <1>19, <1>20, <1>21, <1>22, <1>23,
     <1>24, <1>25, <1>26, <1>27, <1>28, <1>29, <1>30
     DEF Next, TaskStep, TakeCommand, Status, ListWorkers, WorkerStep, LoopStep,
     ProcessStep

\* Every entry of workerChannels is the open channel of a worker with that pid,
\* and only such channels are sent on, even when pids are reused.
THEOREM ChannelsMapped == Spec => []ChannelInv
<1>1. Init => ChannelInv
  BY DEF Init, WorkerInit, ChannelInv
<1>2. TypeOK /\ ChannelInv /\ [Next]_vars => ChannelInv'
  <2>1. CASE Next
    BY <2>1, ChannelStep
  <2>2. CASE UNCHANGED vars
    BY <2>2 DEF vars, workerVars, taskVars, controlVars, poolVars,
       counterVars, startVars, requestVars, historyVars, ChannelInv, Tracked
  <2> QED
    BY <2>1, <2>2
<1> QED
  BY <1>1, <1>2, TypeCorrect, PTL DEF Spec

\* No stop and no info command is ever sent on a closed channel, even when pids
\* are reused: StopWorker() needs no recover().
THEOREM ChannelsOpen == Spec => []NoSendOnClosedChannel
<1>1. ChannelInv => NoSendOnClosedChannel
  BY DEF ChannelInv, NoSendOnClosedChannel, Tracked
<1> QED
  BY <1>1, ChannelsMapped, PTL

-----------------------------------------------------------------------------
(* Broadcasts *)

\* A worker is told of a broadcast and answers it before it is over.
LEMMA BroadcastStep ==
  ASSUME TypeOK, ChannelInv, AnsweredBeforeClose, Next
  PROVE  AnsweredBeforeClose'
<1> USE DEF TypeOK, WorkerTypeOK, workerVars, taskVars, controlVars, poolVars,
            counterVars, startVars, requestVars, historyVars, Answering,
            AnsweredBeforeClose, Tracked
<1>1. ASSUME NEW w \in Workers, TakeExit(w) /\ UNCHANGED taskVars PROVE AnsweredBeforeClose'
  BY <1>1 DEF TakeExit
<1>2. ASSUME NEW w \in Workers, Forward(w) /\ UNCHANGED taskVars PROVE AnsweredBeforeClose'
  BY <1>2 DEF Forward
<1>3. ASSUME NEW w \in Workers, StallTick(w) /\ UNCHANGED taskVars PROVE AnsweredBeforeClose'
  BY <1>3 DEF StallTick, BeginStop, SendSignal
<1>4. ASSUME NEW w \in Workers, TakeClosed(w) /\ UNCHANGED taskVars PROVE AnsweredBeforeClose'
  BY <1>4 DEF TakeClosed, BeginStop, SendSignal
<1>5. ASSUME NEW w \in Workers, GraceExpires(w) /\ UNCHANGED taskVars PROVE AnsweredBeforeClose'
  BY <1>5 DEF GraceExpires, SendSignal
<1>6. ASSUME NEW w \in Workers, Feedback(w) /\ UNCHANGED taskVars PROVE AnsweredBeforeClose'
  BY <1>6 DEF Feedback
<1>7. ASSUME NEW w \in Workers, SendStop(w) PROVE AnsweredBeforeClose'
  BY <1>7 DEF SendStop, BeginStop, SendSignal
<1>8. ASSUME NEW w \in Workers, AnswerStop(w) PROVE AnsweredBeforeClose'
  BY <1>8 DEF AnswerStop, StopTakesExit
<1>9. ASSUME NEW w \in Workers, StartupStarts(w) PROVE AnsweredBeforeClose'
  BY <1>9 DEF StartupStarts, StartWorker, Spawn, NextFresh, Fresh
<1>10. ASSUME NEW w \in Workers, Restock(w) PROVE AnsweredBeforeClose'
  BY <1>10 DEF Restock, BelowCardinality, StartWorker, Spawn, NextFresh, Fresh
<1>11. ASSUME NEW w \in Workers, CollectInfo(w) PROVE AnsweredBeforeClose'
  BY <1>11 DEF CollectInfo, AnswerInfo
<1>12. CASE StartupFails
  BY <1>12 DEF StartupFails, StartWorkerFails, StopWorkersByPid
<1>13. CASE StartFailed
  BY <1>13 DEF StartFailed, ReplyToStart, StoppersDone
<1>14. CASE EnterLoop
  BY <1>14 DEF EnterLoop
<1>15. CASE LeaveLoop
  BY <1>15 DEF LeaveLoop, StopWorkersByPid
<1>16. CASE Terminated
  BY <1>16 DEF Terminated, ReplyToStart, StoppersDone
<1>17. CASE CleanWorkerReference
  BY <1>17 DEF CleanWorkerReference, Receive, CountExit, ForgetWorker
<1>18. CASE Set
  BY <1>18 DEF Set, Receive
<1>19. CASE Stop
  BY <1>19 DEF Stop, Receive, StopWorkersByPid
<1>20. ASSUME NEW t, AskWorkers(t) PROVE AnsweredBeforeClose'
  BY <1>20 DEF AskWorkers, Receive
<1>21. CASE Maintained \/ Stopped \/ Replied
  BY <1>21 DEF Maintained, Stopped, Replied
<1>22. CASE RestockFails
  BY <1>22 DEF RestockFails, BelowCardinality, StartWorkerFails
<1>23. CASE Restored
  BY <1>23 DEF Restored
<1>24. CASE AtCardinality
  BY <1>24 DEF AtCardinality
<1>25. CASE StopExtraWorkers
  BY <1>25 DEF StopExtraWorkers, StopWorkersByPid
<1>26. CASE SendInfo
  <2>1. todo \subseteq Tracked /\ current \in todo /\ current \in Workers
    BY <1>26 DEF SendInfo, ChannelInv
  <2>2. CASE todo = {current}
    BY <1>26, <2>1, <2>2 DEF SendInfo, TakeInfo
  <2>3. CASE todo # {current}
    BY <1>26, <2>1, <2>3 DEF SendInfo, TakeInfo
  <2> QED
    BY <2>2, <2>3
<1>27. CASE DeliverKeepAlive
  BY <1>27 DEF DeliverKeepAlive, TakeKeepAlive
<1>28. CASE DropKeepAliveChannel
  BY <1>28 DEF DropKeepAliveChannel
<1>29. ASSUME NEW p \in Pids, KeepWorkerAlive(p) PROVE AnsweredBeforeClose'
  BY <1>29 DEF KeepWorkerAlive
<1>30. CASE UNCHANGED <<run, tpc, todo, workerChannels, timedOut>>
  BY <1>30
<1>31. ASSUME NEW w \in Workers,
              (ExitAlone(w) /\ UNCHANGED taskVars) \/
              (ExitOnSignal(w) /\ UNCHANGED taskVars) \/
              (Reap(w) /\ UNCHANGED taskVars) \/
              (Elapse(w) /\ UNCHANGED taskVars) \/ EmitKeepAlive(w)
      PROVE  AnsweredBeforeClose'
  BY <1>31, <1>30
     DEF ExitAlone, ExitOnSignal, Reap, Elapse, EmitKeepAlive
<1>32. CASE Environment
  BY <1>32, <1>30 DEF Environment, Request, SentToAll, Outage, OutageEnds
<1>33. CASE BroadcastTimesOut
  BY <1>33 DEF BroadcastTimesOut
<1>34. ASSUME NEW w \in Workers, AnswerOnClosed(w) PROVE AnsweredBeforeClose'
  <2>1. timedOut
    BY <1>34 DEF AnswerOnClosed
  <2> QED
    BY <1>34, <2>1 DEF AnswerOnClosed
<1> HIDE DEF AnsweredBeforeClose, Answering
<1> QED
  BY <1>1, <1>2, <1>3, <1>4, <1>5, <1>6, <1>7, <1>8, <1>9, <1>10, <1>11, <1>12,
     <1>13, <1>14, <1>15, <1>16, <1>17, <1>18, <1>19, <1>20, <1>21, <1>22, <1>23,
     <1>24, <1>25, <1>26, <1>27, <1>28, <1>29, <1>30, <1>31, <1>32, <1>33, <1>34
     DEF Next, TaskStep, TakeCommand, Status, ListWorkers, WorkerStep, LoopStep,
     ProcessStep

\* A worker never answers on a closed collector, unless a broadcast timed out:
\* Broadcast() counts the answers, and as many are still due as workers have the
\* command, also when one of them was told, and answers, before the others.
THEOREM BroadcastAnswered == Spec => []AnsweredBeforeClose
<1>1. Init => AnsweredBeforeClose
  BY DEF Init, WorkerInit, AnsweredBeforeClose
<1>2. TypeOK /\ ChannelInv /\ AnsweredBeforeClose /\ [Next]_vars => AnsweredBeforeClose'
  <2>1. CASE Next
    BY <2>1, BroadcastStep
  <2>2. CASE UNCHANGED vars
    BY <2>2 DEF vars, workerVars, taskVars, controlVars, poolVars,
       counterVars, startVars, requestVars, historyVars, AnsweredBeforeClose,
       Answering, Tracked
  <2> QED
    BY <2>1, <2>2
<1> QED
  BY <1>1, <1>2, TypeCorrect, ChannelsMapped, PTL DEF Spec

-----------------------------------------------------------------------------
(* Stalls *)

\* What the ticker saw still holds while Stop() runs.
StallInv ==
  /\ \A w \in Workers :
       caller[w] = "stall" /\ run[w] \in {"stopping", "killing"} => stale[w]
  /\ StallReported

\* No keep-alive is taken while Stop() runs.
LEMMA StallStep ==
  ASSUME TypeOK, StallInv, Next
  PROVE  StallInv'
<1> USE DEF TypeOK, WorkerTypeOK, workerVars, taskVars, controlVars, poolVars,
            counterVars, startVars, requestVars, historyVars, StallInv, StallReported
<1>1. ASSUME NEW w \in Workers, TakeExit(w) /\ UNCHANGED taskVars PROVE StallInv'
  BY <1>1 DEF TakeExit
<1>2. ASSUME NEW w \in Workers, Forward(w) /\ UNCHANGED taskVars PROVE StallInv'
  BY <1>2 DEF Forward
<1>3. ASSUME NEW w \in Workers, StallTick(w) /\ UNCHANGED taskVars PROVE StallInv'
  BY <1>3 DEF StallTick, BeginStop, SendSignal
<1>4. ASSUME NEW w \in Workers, TakeClosed(w) /\ UNCHANGED taskVars PROVE StallInv'
  BY <1>4 DEF TakeClosed, BeginStop, SendSignal
<1>5. ASSUME NEW w \in Workers, GraceExpires(w) /\ UNCHANGED taskVars PROVE StallInv'
  BY <1>5 DEF GraceExpires, SendSignal
<1>6. ASSUME NEW w \in Workers, Feedback(w) /\ UNCHANGED taskVars PROVE StallInv'
  BY <1>6 DEF Feedback
<1>7. ASSUME NEW w \in Workers, Elapse(w) /\ UNCHANGED taskVars PROVE StallInv'
  BY <1>7 DEF Elapse
<1>8. ASSUME NEW w \in Workers, SendStop(w) PROVE StallInv'
  BY <1>8 DEF SendStop, BeginStop, SendSignal
<1>9. ASSUME NEW w \in Workers, AnswerStop(w) PROVE StallInv'
  BY <1>9 DEF AnswerStop, StopTakesExit
<1>10. ASSUME NEW w \in Workers, StartupStarts(w) PROVE StallInv'
  BY <1>10 DEF StartupStarts, StartWorker, Spawn, NextFresh, Fresh
<1>11. ASSUME NEW w \in Workers, Restock(w) PROVE StallInv'
  BY <1>11 DEF Restock, BelowCardinality, StartWorker, Spawn, NextFresh, Fresh
<1>12. ASSUME NEW w \in Workers, CollectInfo(w) PROVE StallInv'
  BY <1>12 DEF CollectInfo, AnswerInfo
<1>13. CASE SendInfo
  BY <1>13 DEF SendInfo, TakeInfo
<1>14. CASE DeliverKeepAlive
  BY <1>14 DEF DeliverKeepAlive, TakeKeepAlive
<1>15. CASE UNCHANGED <<caller, run, stale, stalled>>
  BY <1>15
<1>16. ASSUME NEW w \in Workers,
              (ExitAlone(w) /\ UNCHANGED taskVars) \/
              (ExitOnSignal(w) /\ UNCHANGED taskVars) \/
              (Reap(w) /\ UNCHANGED taskVars) \/ EmitKeepAlive(w) \/ AnswerOnClosed(w)
      PROVE  StallInv'
  BY <1>16, <1>15
     DEF ExitAlone, ExitOnSignal, Reap, EmitKeepAlive, AnswerOnClosed
<1>17. ASSUME NEW t,
              AskWorkers(t)
      PROVE  StallInv'
  BY <1>17, <1>15
     DEF AskWorkers, Receive
<1>18. ASSUME NEW p \in Pids,
              KeepWorkerAlive(p)
      PROVE  StallInv'
  BY <1>18, <1>15
     DEF KeepWorkerAlive
<1>19. CASE StartupFails \/ StartFailed \/ EnterLoop \/ LeaveLoop \/
              Terminated \/ CleanWorkerReference \/ Set \/ Stop \/ Maintained \/
              Stopped \/ Replied \/ BroadcastTimesOut \/ Environment \/
              RestockFails \/ Restored \/ AtCardinality \/ StopExtraWorkers \/
              DropKeepAliveChannel
  BY <1>19, <1>15
     DEF StartupFails, StartWorkerFails, StopWorkersByPid, StartFailed,
         ReplyToStart, StoppersDone, EnterLoop, LeaveLoop, Terminated,
         CleanWorkerReference, Receive, CountExit, ForgetWorker, Set, Stop,
         Maintained, Stopped, Replied, BroadcastTimesOut, Environment, SentToAll,
         Outage, OutageEnds, RestockFails, BelowCardinality, Restored, AtCardinality,
         StopExtraWorkers, DropKeepAliveChannel, Request
<1> QED
  BY <1>1, <1>2, <1>3, <1>4, <1>5, <1>6, <1>7, <1>8, <1>9, <1>10, <1>11, <1>12,
     <1>13, <1>14, <1>15, <1>16, <1>17, <1>18, <1>19
     DEF Next, TaskStep, TakeCommand, Status, ListWorkers, WorkerStep, LoopStep,
     ProcessStep

\* A worker stopped by the ticker is reported as stalled: what HasStalled() saw
\* in the loop it sees again at the end of Stop().
THEOREM StallsReported == Spec => []StallReported
<1>1. Init => StallInv
  BY DEF Init, WorkerInit, StallInv, StallReported
<1>2. TypeOK /\ StallInv /\ [Next]_vars => StallInv'
  <2>1. CASE Next
    BY <2>1, StallStep
  <2>2. CASE UNCHANGED vars
    BY <2>2 DEF vars, workerVars, taskVars, controlVars, poolVars,
       counterVars, startVars, requestVars, historyVars, StallInv, StallReported
  <2> QED
    BY <2>1, <2>2
<1>3. StallInv => StallReported
  BY DEF StallInv
<1> QED
  BY <1>1, <1>2, <1>3, TypeCorrect, PTL DEF Spec

=============================================================================
