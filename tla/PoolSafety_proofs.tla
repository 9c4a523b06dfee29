------------------------- MODULE PoolSafety_proofs -------------------------
(***************************************************************************)
(* What TaskManager guarantees about its processes when the kernel gives   *)
(* every process a pid of its own, for any number of workers, any targets  *)
(* and any of the bounds: none is forgotten, no loop ends, none is left    *)
(* when a stop is answered; and, reused pids or not, whom a stray signal   *)
(* can hit and what the task cannot get out of: a hang, the last stop.     *)
(***************************************************************************)
EXTENDS TaskManager_proofs, FiniteSetTheorems

USE NoneAssumption, PidAssumption, CardinalityAssumption, RequestsAssumption

\* No two of the processes ever started have the same pid.
NoPidReuse == \A v, w \in Workers : PidOf[v] = PidOf[w] => v = w

-----------------------------------------------------------------------------
(* Exits *)

\* What was reported was reaped, and what was reaped has exited.
ExitInv ==
  /\ \A w \in Workers : waiter[w] \in {"send", "done"} => proc[w] = "exited"
  /\ \A w \in Workers : run[w] \in {"forward", "feedback"} => waiter[w] = "done"
  /\ \A i \in 1..Len(commands) :
       commands[i].type = "stoppedworker" => waiter[commands[i].worker] = "done"

LEMMA AppendElements ==
  ASSUME NEW S, NEW q \in Seq(S), NEW m \in S
  PROVE  /\ Len(Append(q, m)) = Len(q) + 1
         /\ \A i \in 1..Len(q) : Append(q, m)[i] = q[i]
         /\ Append(q, m)[Len(q) + 1] = m
OBVIOUS

\* A message put on the channel keeps the reports there true.
LEMMA AppendReport ==
  ASSUME TypeOK, ExitInv, NEW m \in Messages, commands' = Append(commands, m),
         m.type = "stoppedworker" => waiter[m.worker] = "done",
         UNCHANGED waiter
  PROVE  \A i \in 1..Len(commands') :
           commands'[i].type = "stoppedworker" => waiter'[commands'[i].worker] = "done"
<1>1. commands \in Seq(Messages)
  BY DEF TypeOK
<1>2. /\ Len(commands') = Len(commands) + 1
      /\ \A i \in 1..Len(commands) : commands'[i] = commands[i]
      /\ commands'[Len(commands) + 1] = m
  BY <1>1, AppendElements
<1>3. \A i \in 1..Len(commands') : i \in 1..Len(commands) \/ i = Len(commands) + 1
  BY <1>1, <1>2
<1> QED
  BY <1>2, <1>3 DEF ExitInv

\* Only a reaped process is reported.
LEMMA ExitStep ==
  ASSUME TypeOK, ExitInv, Next
  PROVE  ExitInv'
<1> USE DEF TypeOK, WorkerTypeOK, workerVars, taskVars, controlVars, poolVars,
            counterVars, startVars, requestVars, historyVars, ExitInv
<1>1. ASSUME NEW w \in Workers, TakeExit(w) /\ UNCHANGED taskVars PROVE ExitInv'
  BY <1>1 DEF TakeExit
<1>2. ASSUME NEW w \in Workers, Forward(w) /\ UNCHANGED taskVars PROVE ExitInv'
  <2>1. /\ StoppedWorker(w, FALSE) \in Messages
        /\ StoppedWorker(w, FALSE).type = "stoppedworker"
        /\ StoppedWorker(w, FALSE).worker = w
    BY DEF StoppedWorker, Messages
  <2>2. /\ commands' = Append(commands, StoppedWorker(w, FALSE))
        /\ waiter[w] = "done" /\ UNCHANGED waiter
    BY <1>2 DEF Forward
  <2>3. PICK m \in Messages : /\ commands' = Append(commands, m)
                              /\ m.worker = w
    BY <2>1, <2>2, Zenon
  <2>4. \A i \in 1..Len(commands') :
          commands'[i].type = "stoppedworker" => waiter'[commands'[i].worker] = "done"
    BY <2>2, <2>3, AppendReport
  <2> QED
    BY <1>2, <2>4 DEF Forward
<1>3. ASSUME NEW w \in Workers, StallTick(w) /\ UNCHANGED taskVars PROVE ExitInv'
  BY <1>3 DEF StallTick, BeginStop, SendSignal
<1>4. ASSUME NEW w \in Workers, TakeClosed(w) /\ UNCHANGED taskVars PROVE ExitInv'
  BY <1>4 DEF TakeClosed, BeginStop, SendSignal
<1>5. ASSUME NEW w \in Workers, GraceExpires(w) /\ UNCHANGED taskVars PROVE ExitInv'
  BY <1>5 DEF GraceExpires, SendSignal
<1>6. ASSUME NEW w \in Workers, Feedback(w) /\ UNCHANGED taskVars PROVE ExitInv'
  <2>1. /\ StoppedWorker(w, stalled[w]) \in Messages
        /\ StoppedWorker(w, stalled[w]).type = "stoppedworker"
        /\ StoppedWorker(w, stalled[w]).worker = w
    BY DEF StoppedWorker, Messages
  <2>2. /\ commands' = Append(commands, StoppedWorker(w, stalled[w]))
        /\ waiter[w] = "done" /\ UNCHANGED waiter
    BY <1>6 DEF Feedback
  <2>3. PICK m \in Messages : /\ commands' = Append(commands, m)
                              /\ m.worker = w
    BY <2>1, <2>2, Zenon
  <2>4. \A i \in 1..Len(commands') :
          commands'[i].type = "stoppedworker" => waiter'[commands'[i].worker] = "done"
    BY <2>2, <2>3, AppendReport
  <2> QED
    BY <1>6, <2>4 DEF Feedback
<1>7. ASSUME NEW w \in Workers, ExitAlone(w) /\ UNCHANGED taskVars PROVE ExitInv'
  BY <1>7 DEF ExitAlone
<1>8. ASSUME NEW w \in Workers, ExitOnSignal(w) /\ UNCHANGED taskVars PROVE ExitInv'
  BY <1>8 DEF ExitOnSignal
<1>9. ASSUME NEW w \in Workers, Reap(w) /\ UNCHANGED taskVars PROVE ExitInv'
  BY <1>9 DEF Reap
<1>10. ASSUME NEW w \in Workers, SendStop(w) PROVE ExitInv'
  BY <1>10 DEF SendStop, BeginStop, SendSignal
<1>11. ASSUME NEW w \in Workers, AnswerStop(w) PROVE ExitInv'
  BY <1>11 DEF AnswerStop, StopTakesExit
<1>12. ASSUME NEW w \in Workers, StartupStarts(w) PROVE ExitInv'
  BY <1>12 DEF StartupStarts, StartWorker, Spawn, NextFresh, Fresh
<1>13. ASSUME NEW w \in Workers, Restock(w) PROVE ExitInv'
  BY <1>13 DEF Restock, BelowCardinality, StartWorker, Spawn, NextFresh, Fresh
<1>14. ASSUME NEW w \in Workers, CollectInfo(w) PROVE ExitInv'
  BY <1>14 DEF CollectInfo, AnswerInfo
<1>15. CASE CleanWorkerReference
  BY <1>15 DEF CleanWorkerReference, Receive, CountExit, ForgetWorker
<1>16. CASE Set
  BY <1>16 DEF Set, Receive
<1>17. CASE Stop
  BY <1>17 DEF Stop, Receive, StopWorkersByPid
<1>18. ASSUME NEW t, AskWorkers(t) PROVE ExitInv'
  BY <1>18 DEF AskWorkers, Receive
<1>19. CASE SendInfo
  BY <1>19 DEF SendInfo, TakeInfo
<1>20. CASE Request
  <2>1. PICK c \in ForwardedCommands : commands' = Append(commands, c)
    BY <1>20 DEF Request
  <2>2. c \in Messages /\ c.type # "stoppedworker"
    BY DEF ForwardedCommands, Command, SetCommand, Messages
  <2>3. UNCHANGED <<waiter, proc, run>>
    BY <1>20 DEF Request
  <2>4. \A i \in 1..Len(commands') :
          commands'[i].type = "stoppedworker" => waiter'[commands'[i].worker] = "done"
    BY <2>1, <2>2, <2>3, AppendReport
  <2> QED
    BY <2>3, <2>4
<1>21. CASE UNCHANGED <<waiter, proc, run, commands>>
  BY <1>21
<1>22. ASSUME NEW w \in Workers,
              (Elapse(w) /\ UNCHANGED taskVars) \/ EmitKeepAlive(w) \/ AnswerOnClosed(w)
      PROVE  ExitInv'
  BY <1>22, <1>21
     DEF Elapse, EmitKeepAlive, AnswerOnClosed
<1>23. ASSUME NEW p \in Pids,
              KeepWorkerAlive(p)
      PROVE  ExitInv'
  BY <1>23, <1>21
     DEF KeepWorkerAlive
<1>24. CASE StartupFails \/ StartFailed \/ EnterLoop \/ LeaveLoop \/
              Terminated \/ Maintained \/ Stopped \/ Replied \/
              BroadcastTimesOut \/ RestockFails \/ Restored \/
              AtCardinality \/ StopExtraWorkers \/ DeliverKeepAlive \/
              DropKeepAliveChannel
  BY <1>24, <1>21
     DEF StartupFails, StartWorkerFails, StopWorkersByPid, StartFailed,
         ReplyToStart, StoppersDone, EnterLoop, LeaveLoop, Terminated,
         Maintained, Stopped, Replied, BroadcastTimesOut,
         RestockFails, BelowCardinality, Restored, AtCardinality, StopExtraWorkers,
         DeliverKeepAlive, TakeKeepAlive, DropKeepAliveChannel
<1>25. CASE SentToAll \/ Outage \/ OutageEnds
  BY <1>25, <1>21 DEF SentToAll, Outage, OutageEnds
<1> QED
  BY <1>1, <1>2, <1>3, <1>4, <1>5, <1>6, <1>7, <1>8, <1>9, <1>10, <1>11, <1>12,
     <1>13, <1>14, <1>15, <1>16, <1>17, <1>18, <1>19, <1>20, <1>21, <1>22, <1>23,
     <1>24, <1>25
     DEF Next, Environment, TaskStep, TakeCommand, Status, ListWorkers, WorkerStep, LoopStep,
     ProcessStep

\* A report on the channel, or in the hands of a worker, is about a process that
\* has exited and was reaped.
THEOREM ExitsReaped == Spec => []ExitInv
<1>1. Init => ExitInv
  BY DEF Init, WorkerInit, ExitInv
<1>2. TypeOK /\ ExitInv /\ [Next]_vars => ExitInv'
  <2>1. CASE Next
    BY <2>1, ExitStep
  <2>2. CASE UNCHANGED vars
    BY <2>2 DEF vars, workerVars, taskVars, controlVars, poolVars,
       counterVars, startVars, requestVars, historyVars, ExitInv
  <2> QED
    BY <2>1, <2>2
<1> QED
  BY <1>1, <1>2, TypeCorrect, PTL DEF Spec

-----------------------------------------------------------------------------
(* Signals *)

\* The goroutines of a worker exist since it was started, only a started process
\* is signalled, and no two processes that were not reaped have the same pid.
SignalInv ==
  /\ \A w \in Workers : proc[w] = "none" =>
       signal[w] = "none" /\ waiter[w] = "none" /\ run[w] = "none"
  /\ \A w \in Workers : waiter[w] = "none" => proc[w] = "none"
  /\ \A v, w \in Workers :
       PidOf[v] = PidOf[w] /\ waiter[v] = "wait" /\ waiter[w] = "wait" => v = w
  /\ StraySignals

\* A Stop() that signals another process than its own signals an heir of the pid.
LEMMA KillStep ==
  ASSUME TypeOK, ExitInv, SignalInv, NEW w \in Workers, NEW s \in {"term", "kill"},
         SendSignal(PidOf[w], s), run[w] # "none",
         run'[w] \in {"stopping", "killing"},
         \A v \in Workers \ {w} : run'[v] = run[v],
         UNCHANGED <<proc, waiter>>
  PROVE  SignalInv'
<1> USE DEF SignalInv
<1>1. /\ proc \in [Workers -> {"none", "running", "exited"}]
      /\ signal \in [Workers -> {"none", "term", "kill"}]
      /\ waiter \in [Workers -> {"none", "wait", "send", "done"}]
  BY DEF TypeOK, WorkerTypeOK
<1>2. waiter[w] # "none" /\ proc[w] # "none"
  BY <1>1
<1>3. ASSUME NEW v \in Workers, proc[v] = "none"
      PROVE  signal'[v] = "none" /\ run'[v] = "none"
  BY <1>2, <1>3 DEF SendSignal
<1>4. ASSUME NEW v \in Live, signal'[v] # "none", run'[v] \notin {"stopping", "killing"}
      PROVE  \E u \in Workers \ {v} : PidOf[u] = PidOf[v] /\ waiter[u] \in {"send", "done"}
  <2>1. v # w /\ v \in Workers /\ run[v] \notin {"stopping", "killing"}
    BY <1>4 DEF Live
  <2>2. CASE signal[v] # "none"
    BY <1>4, <2>1, <2>2 DEF StraySignals
  <2>3. CASE PidOf[v] = PidOf[w]
    <3>1. waiter[v] = "wait"
      BY <1>1, <1>4, <2>1 DEF ExitInv, Live
    <3>2. waiter[w] \in {"send", "done"}
      BY <1>1, <1>2, <2>1, <2>3, <3>1
    <3> QED
      BY <2>1, <2>3, <3>2
  <2>4. signal'[v] = signal[v] \/ PidOf[v] = PidOf[w]
    BY <2>1 DEF SendSignal
  <2> QED
    BY <1>4, <2>2, <2>3, <2>4
<1>5. StraySignals'
  BY <1>4 DEF StraySignals, Live
<1> QED
  BY <1>3, <1>5

\* A new process has a pid that no unreaped one has.
LEMMA SpawnStep ==
  ASSUME TypeOK, ExitInv, SignalInv, NEW w \in Workers, Spawn(w)
  PROVE  SignalInv'
<1> USE DEF SignalInv
<1>1. /\ proc[w] = "none" /\ PidFree(PidOf[w])
      /\ signal[w] = "none" /\ signal' = signal
      /\ proc'[w] = "running" /\ waiter'[w] = "wait" /\ run'[w] = "select"
      /\ \A v \in Workers \ {w} :
           proc'[v] = proc[v] /\ waiter'[v] = waiter[v] /\ run'[v] = run[v]
  BY DEF Spawn, NextFresh, Fresh, TypeOK, WorkerTypeOK
<1>2. \A v \in Workers \ {w} : PidOf[v] = PidOf[w] => waiter'[v] # "wait"
  BY <1>1 DEF PidFree
<1>3. StraySignals'
  <2> SUFFICES ASSUME NEW v \in Live', signal'[v] # "none",
                      run'[v] \notin {"stopping", "killing"}
               PROVE  \E u \in Workers \ {v} :
                        PidOf[u] = PidOf[v] /\ waiter'[u] \in {"send", "done"}
    BY DEF StraySignals
  <2>1. v \in Live /\ v # w
    BY <1>1 DEF Live
  <2>2. PICK u \in Workers \ {v} : PidOf[u] = PidOf[v] /\ waiter[u] \in {"send", "done"}
    BY <1>1, <2>1 DEF StraySignals, Live
  <2>3. u # w
    BY <1>1, <2>2
  <2> QED
    BY <1>1, <2>2, <2>3
<1> QED
  BY <1>1, <1>2, <1>3

\* The waiter of a reaped process goes on, and its loop leaves Stop().
LEMMA ReapedStep ==
  ASSUME TypeOK, ExitInv, SignalInv, NEW w \in Workers,
         UNCHANGED <<proc, signal>>, proc[w] = "exited",
         waiter'[w] \in {waiter[w], "send", "done"},
         \A v \in Workers \ {w} : waiter'[v] = waiter[v] /\ run'[v] = run[v]
  PROVE  SignalInv'
<1> USE DEF SignalInv, ExitInv
<1>1. waiter'[w] # "none" /\ waiter'[w] = "wait" => waiter[w] = "wait"
  OBVIOUS
<1>2. StraySignals'
  <2> SUFFICES ASSUME NEW v \in Live', signal'[v] # "none",
                      run'[v] \notin {"stopping", "killing"}
               PROVE  \E u \in Workers \ {v} :
                        PidOf[u] = PidOf[v] /\ waiter'[u] \in {"send", "done"}
    BY DEF StraySignals
  <2>1. v \in Live /\ v # w
    BY DEF Live
  <2>2. PICK u \in Workers \ {v} : PidOf[u] = PidOf[v] /\ waiter[u] \in {"send", "done"}
    BY <2>1 DEF StraySignals, Live
  <2> QED
    BY <2>2
<1> QED
  BY <1>1, <1>2

\* The loop is in another place than Stop() before and after.
LEMMA RunStep ==
  ASSUME SignalInv, NEW w \in Workers, UNCHANGED <<proc, signal, waiter>>,
         run[w] \notin {"none", "stopping", "killing"},
         \A v \in Workers \ {w} : run'[v] = run[v]
  PROVE  SignalInv'
<1>1. StraySignals'
  BY DEF SignalInv, StraySignals, Live
<1> QED
  BY <1>1 DEF SignalInv

\* A signal goes to the process of the worker that sends it, or to an heir of its pid.
LEMMA SignalStep ==
  ASSUME TypeOK, ChannelInv, ExitInv, SignalInv, Next
  PROVE  SignalInv'
<1>0. /\ proc \in [Workers -> {"none", "running", "exited"}]
      /\ waiter \in [Workers -> {"none", "wait", "send", "done"}]
      /\ run \in [Workers -> RunStates]
  BY DEF TypeOK, WorkerTypeOK
<1>1. CASE UNCHANGED <<proc, signal, waiter, run>>
  BY <1>1 DEF SignalInv, StraySignals, Live
<1>2. ASSUME NEW w \in Workers, NEW who, BeginStop(w, who) PROVE SignalInv'
  BY <1>0, <1>2, KillStep DEF BeginStop
<1>3. ASSUME NEW w \in Workers, LoopStep(w) PROVE SignalInv'
  <2>1. CASE TakeExit(w)
    BY <1>0, <2>1, ReapedStep DEF TakeExit, ExitInv
  <2>2. CASE Forward(w)
    BY <1>0, <2>2, RunStep DEF Forward
  <2>3. CASE StallTick(w) \/ TakeClosed(w)
    BY <1>2, <2>3 DEF StallTick, TakeClosed
  <2>4. CASE GraceExpires(w)
    BY <1>0, <2>4, KillStep DEF GraceExpires
  <2>5. CASE Feedback(w)
    BY <1>0, <2>5, RunStep DEF Feedback
  <2> QED
    BY <1>3, <2>1, <2>2, <2>3, <2>4, <2>5 DEF LoopStep
<1>4. ASSUME NEW w \in Workers, ProcessStep(w) PROVE SignalInv'
  <2>1. CASE ExitAlone(w) \/ ExitOnSignal(w)
    <3>1. /\ proc[w] = "running" /\ proc'[w] = "exited"
          /\ \A v \in Workers \ {w} : proc'[v] = proc[v]
          /\ UNCHANGED <<signal, waiter, run>>
      BY <1>0, <2>1 DEF ExitAlone, ExitOnSignal
    <3>2. Live' \subseteq Live
      BY <3>1 DEF Live
    <3>3. StraySignals'
      BY <3>1, <3>2 DEF SignalInv, StraySignals
    <3> QED
      BY <3>1, <3>3 DEF SignalInv
  <2>2. CASE Reap(w)
    BY <1>0, <2>2, ReapedStep DEF Reap, SignalInv
  <2>3. CASE Elapse(w)
    BY <1>1, <2>3 DEF Elapse
  <2> QED
    BY <1>4, <2>1, <2>2, <2>3 DEF ProcessStep
<1>5. ASSUME NEW w \in Workers, SendStop(w) PROVE SignalInv'
  BY <1>2, <1>5 DEF SendStop
<1>6. ASSUME NEW w \in Workers, AnswerStop(w) PROVE SignalInv'
  BY <1>0, <1>6, ReapedStep DEF AnswerStop, StopTakesExit, ExitInv
<1>7. ASSUME NEW w \in Workers, StartupStarts(w) \/ Restock(w) PROVE SignalInv'
  BY <1>7, SpawnStep DEF StartupStarts, Restock, StartWorker
<1>8. ASSUME NEW w \in Workers, CollectInfo(w) PROVE SignalInv'
  BY <1>0, <1>8, RunStep DEF CollectInfo, AnswerInfo
<1>9. CASE SendInfo
  <2>1. current \in Workers
    BY <1>9 DEF SendInfo, ChannelInv, Tracked
  <2> QED
    BY <1>0, <1>9, <2>1, RunStep DEF SendInfo, TakeInfo
<1>10. ASSUME NEW w \in Workers, EmitKeepAlive(w) \/ AnswerOnClosed(w) PROVE SignalInv'
  BY <1>1, <1>10 DEF EmitKeepAlive, AnswerOnClosed, workerVars
<1>11. ASSUME NEW p \in Pids, KeepWorkerAlive(p) PROVE SignalInv'
  BY <1>1, <1>11 DEF KeepWorkerAlive, workerVars
<1>12. CASE Environment
  BY <1>1, <1>12 DEF Environment, Request, SentToAll, Outage, OutageEnds, workerVars
<1>13. CASE TakeCommand
  BY <1>1, <1>13 DEF TakeCommand, CleanWorkerReference, Set, Stop, Status, ListWorkers,
     AskWorkers, workerVars
<1>14. CASE StartupFails \/ StartFailed \/ EnterLoop \/ LeaveLoop \/ Terminated
  BY <1>1, <1>14 DEF StartupFails, StartWorkerFails, StartFailed, EnterLoop, LeaveLoop,
     Terminated, ReplyToStart, workerVars
<1>15. CASE Maintained \/ Stopped \/ Replied \/ BroadcastTimesOut
  BY <1>1, <1>15 DEF Maintained, Stopped, Replied, BroadcastTimesOut, workerVars
<1>16. CASE \/ RestockFails \/ Restored \/ AtCardinality \/ StopExtraWorkers
            \/ DeliverKeepAlive \/ DropKeepAliveChannel
  BY <1>1, <1>16 DEF RestockFails, StartWorkerFails, Restored, AtCardinality,
     StopExtraWorkers, DeliverKeepAlive, TakeKeepAlive, DropKeepAliveChannel, workerVars
<1> QED
  BY <1>3, <1>4, <1>5, <1>6, <1>7, <1>8, <1>9, <1>10, <1>11, <1>12, <1>13, <1>14,
     <1>15, <1>16 DEF Next, TaskStep, WorkerStep

\* However pids are reused: a running process that was signalled without being in
\* Stop() inherited its pid from a worker of the task whose process was reaped.
\* Every other signal hits the process it is meant for.
THEOREM SignalsExplained == Spec => []StraySignals
<1>1. Init => SignalInv
  BY DEF Init, WorkerInit, SignalInv, StraySignals, Live
<1>2. TypeOK /\ ChannelInv /\ ExitInv /\ SignalInv /\ [Next]_vars => SignalInv'
  <2>1. CASE Next
    BY <2>1, SignalStep
  <2>2. CASE UNCHANGED vars
    BY <2>2 DEF vars, workerVars, SignalInv, StraySignals, Live
  <2> QED
    BY <2>1, <2>2
<1>3. SignalInv => StraySignals
  BY DEF SignalInv
<1> QED
  BY <1>1, <1>2, <1>3, TypeCorrect, ChannelsMapped, ExitsReaped, PTL DEF Spec

-----------------------------------------------------------------------------
(* No process is forgotten *)

\* The entry of a running process is never deleted or overwritten.
LEMMA TrackedStep ==
  ASSUME TypeOK, ExitInv, NoPidReuse, AliveTracked, Next
  PROVE  AliveTracked'
<1> USE DEF TypeOK, WorkerTypeOK, workerVars, taskVars, controlVars, poolVars,
            counterVars, startVars, requestVars, historyVars, AliveTracked, Live
<1>1. ASSUME NEW w \in Workers, ExitAlone(w) /\ UNCHANGED taskVars PROVE AliveTracked'
  BY <1>1 DEF ExitAlone
<1>2. ASSUME NEW w \in Workers, ExitOnSignal(w) /\ UNCHANGED taskVars PROVE AliveTracked'
  BY <1>2 DEF ExitOnSignal
<1>3. ASSUME NEW w \in Workers, StartupStarts(w) PROVE AliveTracked'
  BY <1>3 DEF StartupStarts, StartWorker, Spawn, NoPidReuse
<1>4. ASSUME NEW w \in Workers, Restock(w) PROVE AliveTracked'
  BY <1>4 DEF Restock, StartWorker, Spawn, NoPidReuse
<1>5. CASE CleanWorkerReference
  <2>1. /\ Head(commands) \in Messages
        /\ Head(commands).type = "stoppedworker"
    BY <1>5, ReceiveType DEF CleanWorkerReference
  <2>2. Head(commands).worker \in Workers
    BY <2>1, StoppedWorkerType
  <2>3. proc[Head(commands).worker] = "exited"
    <3>1. commands # << >> /\ Head(commands) = commands[1] /\ 1 \in 1..Len(commands)
      BY <1>5 DEF CleanWorkerReference, Receive
    <3> QED
      BY <2>1, <2>2, <3>1 DEF ExitInv
  <2>4. PICK v \in Workers : proc[v] = "exited" /\ ForgetWorker(PidOf[v])
    BY <1>5, <2>2, <2>3 DEF CleanWorkerReference
  <2>5. \A w \in Live : PidOf[w] # PidOf[v]
    BY <2>4 DEF NoPidReuse
  <2>6. UNCHANGED proc
    BY <1>5 DEF CleanWorkerReference
  <2> QED
    BY <2>4, <2>5, <2>6 DEF ForgetWorker
<1>6. CASE UNCHANGED <<proc, workerChannels>>
  BY <1>6
<1>7. ASSUME NEW w \in Workers,
              (TakeExit(w) /\ UNCHANGED taskVars) \/
              (Forward(w) /\ UNCHANGED taskVars) \/
              (StallTick(w) /\ UNCHANGED taskVars) \/
              (TakeClosed(w) /\ UNCHANGED taskVars) \/
              (GraceExpires(w) /\ UNCHANGED taskVars) \/
              (Feedback(w) /\ UNCHANGED taskVars) \/
              (Reap(w) /\ UNCHANGED taskVars) \/
              (Elapse(w) /\ UNCHANGED taskVars) \/ SendStop(w) \/
              AnswerStop(w) \/ EmitKeepAlive(w) \/ CollectInfo(w) \/
              AnswerOnClosed(w)
      PROVE  AliveTracked'
  BY <1>7, <1>6
     DEF TakeExit, Forward, StallTick, BeginStop, SendSignal, TakeClosed,
         GraceExpires, Feedback, Reap, Elapse, SendStop, AnswerStop, StopTakesExit,
         EmitKeepAlive, CollectInfo, AnswerInfo, AnswerOnClosed
<1>8. ASSUME NEW t,
              AskWorkers(t)
      PROVE  AliveTracked'
  BY <1>8, <1>6
     DEF AskWorkers, Receive
<1>9. ASSUME NEW p \in Pids,
              KeepWorkerAlive(p)
      PROVE  AliveTracked'
  BY <1>9, <1>6
     DEF KeepWorkerAlive
<1>10. CASE StartupFails \/ StartFailed \/ EnterLoop \/ LeaveLoop \/
              Terminated \/ Set \/ Stop \/ Maintained \/ Stopped \/
              Replied \/ BroadcastTimesOut \/ RestockFails \/
              Restored \/ AtCardinality \/ StopExtraWorkers \/ SendInfo \/
              DeliverKeepAlive \/ DropKeepAliveChannel \/ Environment
  BY <1>10, <1>6
     DEF StartupFails, StartWorkerFails, StopWorkersByPid, StartFailed,
         ReplyToStart, StoppersDone, EnterLoop, LeaveLoop, Terminated, Set,
         Receive, Stop, Maintained, Stopped, Replied, BroadcastTimesOut, RestockFails, BelowCardinality, Restored,
         AtCardinality, StopExtraWorkers, SendInfo, TakeInfo, DeliverKeepAlive,
         TakeKeepAlive, DropKeepAliveChannel, Environment, Request,
         SentToAll, Outage, OutageEnds
<1> QED
  BY <1>1, <1>2, <1>3, <1>4, <1>5, <1>6, <1>7, <1>8, <1>9, <1>10
     DEF Next, TaskStep, TakeCommand, Status, ListWorkers, WorkerStep, LoopStep,
     ProcessStep

\* With pids of their own, every running process is in workerChannels, so that a
\* stop reaches it: a report only deletes the process it is about.
THEOREM NoneForgotten ==
  ASSUME NoPidReuse
  PROVE  Spec => []AliveTracked
<1>1. Init => AliveTracked
  BY DEF Init, WorkerInit, AliveTracked, Live
<1>2. TypeOK /\ ExitInv /\ AliveTracked /\ [Next]_vars => AliveTracked'
  <2>1. CASE Next
    BY <2>1, TrackedStep
  <2>2. CASE UNCHANGED vars
    BY <2>2 DEF vars, workerVars, taskVars, controlVars, poolVars,
       counterVars, startVars, requestVars, historyVars, AliveTracked, Live
  <2> QED
    BY <2>1, <2>2
<1> QED
  BY <1>1, <1>2, TypeCorrect, ExitsReaped, PTL DEF Spec

-----------------------------------------------------------------------------
(* Stopping *)

\* Nothing starts once a stop was taken, and the answer waits for the living.
StopInv ==
  /\ ~active => tpc \in {"start", "loop", "stopwait", "reply", "ended", "panic"}
  /\ after # "none" => tpc \in {"stopwait", "reply", "panic"}
  /\ after = "stopped" => ~active
  /\ after = "stopped" /\ tpc = "stopwait" => \A w \in Live : stopper[w] # "none"
  /\ after = "stopped" /\ tpc = "reply" => Live = {}
  /\ stopAnswered =>
       /\ ~active /\ Live = {}
       /\ tpc \in {"loop", "stopwait", "ended", "panic"}
       /\ after \in {"none", "final"}

\* Nothing starts during a stop, and every running process is waited for.
LEMMA StopStep ==
  ASSUME TypeOK, ExitInv, AliveTracked, StopInv, Next
  PROVE  StopInv'
<1> USE DEF TypeOK, WorkerTypeOK, workerVars, taskVars, controlVars, poolVars,
            counterVars, startVars, requestVars, historyVars, StopInv, Live, ExitInv
<1>1. ASSUME NEW w \in Workers, ExitAlone(w) /\ UNCHANGED taskVars PROVE StopInv'
  BY <1>1 DEF ExitAlone
<1>2. ASSUME NEW w \in Workers, ExitOnSignal(w) /\ UNCHANGED taskVars PROVE StopInv'
  BY <1>2 DEF ExitOnSignal
<1>3. ASSUME NEW w \in Workers, SendStop(w) PROVE StopInv'
  BY <1>3 DEF SendStop, BeginStop, SendSignal
<1>4. ASSUME NEW w \in Workers, AnswerStop(w) PROVE StopInv'
  BY <1>4 DEF AnswerStop, StopTakesExit
<1>5. ASSUME NEW w \in Workers, StartupStarts(w) PROVE StopInv'
  BY <1>5 DEF StartupStarts, StartWorker, Spawn, NextFresh, Fresh
<1>6. ASSUME NEW w \in Workers, Restock(w) PROVE StopInv'
  BY <1>6 DEF Restock, BelowCardinality, StartWorker, Spawn, NextFresh, Fresh
<1>7. ASSUME NEW w \in Workers, CollectInfo(w) PROVE StopInv'
  BY <1>7 DEF CollectInfo, AnswerInfo
<1>8. CASE StartupFails
  BY <1>8 DEF StartupFails, StartWorkerFails, StopWorkersByPid
<1>9. CASE StartFailed
  BY <1>9 DEF StartFailed, ReplyToStart, StoppersDone
<1>10. CASE EnterLoop
  BY <1>10 DEF EnterLoop
<1>11. CASE LeaveLoop
  BY <1>11 DEF LeaveLoop, StopWorkersByPid
<1>12. CASE Terminated
  BY <1>12 DEF Terminated, ReplyToStart, StoppersDone
<1>13. CASE CleanWorkerReference
  BY <1>13 DEF CleanWorkerReference, Receive, CountExit, ForgetWorker
<1>14. CASE Set
  BY <1>14 DEF Set, Receive
<1>15. CASE Stop
  BY <1>15 DEF Stop, Receive, StopWorkersByPid, AliveTracked, Tracked
<1>16. ASSUME NEW t, AskWorkers(t) PROVE StopInv'
  BY <1>16 DEF AskWorkers, Receive
<1>17. CASE Maintained
  BY <1>17 DEF Maintained
<1>18. CASE RestockFails
  BY <1>18 DEF RestockFails, BelowCardinality, StartWorkerFails
<1>19. CASE Restored
  BY <1>19 DEF Restored
<1>20. CASE AtCardinality
  BY <1>20 DEF AtCardinality
<1>21. CASE StopExtraWorkers
  BY <1>21 DEF StopExtraWorkers, StopWorkersByPid
<1>22. CASE SendInfo
  BY <1>22 DEF SendInfo, TakeInfo
<1>23. CASE DeliverKeepAlive
  BY <1>23 DEF DeliverKeepAlive, TakeKeepAlive
<1>24. CASE DropKeepAliveChannel
  BY <1>24 DEF DropKeepAliveChannel
<1>25. ASSUME NEW p \in Pids, KeepWorkerAlive(p) PROVE StopInv'
  BY <1>25 DEF KeepWorkerAlive
<1>26. CASE UNCHANGED <<proc, active, tpc, after, stopper, stopAnswered>>
  BY <1>26
<1>27. ASSUME NEW w \in Workers,
              (TakeExit(w) /\ UNCHANGED taskVars) \/
              (Forward(w) /\ UNCHANGED taskVars) \/
              (StallTick(w) /\ UNCHANGED taskVars) \/
              (TakeClosed(w) /\ UNCHANGED taskVars) \/
              (GraceExpires(w) /\ UNCHANGED taskVars) \/
              (Feedback(w) /\ UNCHANGED taskVars) \/
              (Reap(w) /\ UNCHANGED taskVars) \/
              (Elapse(w) /\ UNCHANGED taskVars) \/ EmitKeepAlive(w)
      PROVE  StopInv'
  BY <1>27, <1>26
     DEF TakeExit, Forward, StallTick, BeginStop, SendSignal, TakeClosed,
         GraceExpires, Feedback, Reap, Elapse, EmitKeepAlive
<1>28. CASE Environment
  BY <1>28, <1>26 DEF Environment, Request, SentToAll, Outage, OutageEnds
<1>29. CASE Stopped
  BY <1>29 DEF Stopped, StoppersDone
<1>30. CASE Replied
  BY <1>30 DEF Replied
<1>31. CASE BroadcastTimesOut
  BY <1>31 DEF BroadcastTimesOut
<1>32. ASSUME NEW w \in Workers, AnswerOnClosed(w) PROVE StopInv'
  BY <1>32 DEF AnswerOnClosed
<1> HIDE DEF StopInv
<1> QED
  BY <1>1, <1>2, <1>3, <1>4, <1>5, <1>6, <1>7, <1>8, <1>9, <1>10, <1>11, <1>12,
     <1>13, <1>14, <1>15, <1>16, <1>17, <1>18, <1>19, <1>20, <1>21, <1>22, <1>23,
     <1>24, <1>25, <1>26, <1>27, <1>28, <1>29, <1>30,
     <1>31, <1>32
     DEF Next, TaskStep, TakeCommand, Status, ListWorkers, WorkerStep, LoopStep,
     ProcessStep

\* With pids of their own, nothing starts during a stop, and every running process
\* is waited for by a goroutine of the stop.
THEOREM StopsCovered ==
  ASSUME NoPidReuse
  PROVE  Spec => []StopInv
<1>1. Init => StopInv
  BY DEF Init, WorkerInit, StopInv, Live
<1>2. TypeOK /\ ExitInv /\ AliveTracked /\ StopInv /\ [Next]_vars => StopInv'
  <2>1. CASE Next
    BY <2>1, StopStep
  <2>2. CASE UNCHANGED vars
    BY <2>2 DEF vars, workerVars, taskVars, controlVars, poolVars,
       counterVars, startVars, requestVars, historyVars, StopInv, Live
  <2> QED
    BY <2>1, <2>2
<1> QED
  BY <1>1, <1>2, TypeCorrect, ExitsReaped, NoneForgotten, PTL DEF Spec

\* With pids of their own, no process of the task is alive when the stop command
\* is answered, nor ever after.
THEOREM StopsComplete ==
  ASSUME NoPidReuse
  PROVE  Spec => []StopAnsweredAllDead
<1>1. StopInv => StopAnsweredAllDead
  BY DEF StopInv, StopAnsweredAllDead
<1> QED
  BY <1>1, StopsCovered, PTL

-----------------------------------------------------------------------------
(* The loops of the workers *)

\* Only the channel of a reported worker is closed, and the Stop() that the loop
\* calls then waits for an exit message that was taken.
LoopInv ==
  /\ NoLoopEnds
  /\ \A w \in Workers : cmdClosed[w] => waiter[w] = "done"
  /\ \A w \in Workers : caller[w] = "closed" =>
       run[w] \in {"stopping", "killing"} /\ waiter[w] = "done"

\* No step ends a loop.
LEMMA LoopInvStep ==
  ASSUME TypeOK, ChannelInv, ExitInv, NoPidReuse, LoopInv, Next
  PROVE  LoopInv'
<1> USE DEF TypeOK, WorkerTypeOK, workerVars, taskVars, controlVars, poolVars,
            counterVars, startVars, requestVars, historyVars, LoopInv, NoLoopEnds
<1>1. ASSUME NEW w \in Workers, UNCHANGED taskVars,
             \/ TakeExit(w) \/ Forward(w) \/ StallTick(w) \/ TakeClosed(w)
             \/ GraceExpires(w) \/ Feedback(w) \/ Reap(w)
      PROVE  LoopInv'
  <2>1. CASE TakeExit(w)
    BY <2>1 DEF TakeExit
  <2>2. CASE Reap(w)
    <3>1. ~cmdClosed[w] /\ caller[w] # "closed"
      BY <2>2 DEF Reap
    <3>2. /\ waiter' = [waiter EXCEPT ![w] = "send"]
          /\ UNCHANGED <<run, caller, cmdClosed>>
      BY <2>2 DEF Reap
    <3>3. \A v \in Workers : v # w => waiter'[v] = waiter[v]
      BY <3>2
    <3> QED
      BY <3>1, <3>2, <3>3
  <2>3. CASE Forward(w) \/ GraceExpires(w)
    <3>1. /\ caller[w] # "closed" \/ run[w] = "stopping"
          /\ run'[w] \in {"select", "killing"}
          /\ run[w] = "stopping" => run'[w] = "killing"
          /\ \A v \in Workers : v # w => run'[v] = run[v]
          /\ UNCHANGED <<waiter, cmdClosed, caller>>
      BY <2>3 DEF Forward, GraceExpires
    <3> QED
      BY <3>1
  <2>4. CASE StallTick(w)
    <3>1. /\ run'[w] = "stopping" /\ caller'[w] = "stall"
          /\ \A v \in Workers : v # w => run'[v] = run[v] /\ caller'[v] = caller[v]
          /\ UNCHANGED <<waiter, cmdClosed>>
      BY <2>4 DEF StallTick, BeginStop
    <3> QED
      BY <3>1
  <2>5. CASE TakeClosed(w)
    <3>1. /\ run'[w] = "stopping" /\ caller'[w] = "closed"
          /\ \A v \in Workers : v # w => run'[v] = run[v] /\ caller'[v] = caller[v]
          /\ UNCHANGED <<waiter, cmdClosed>>
      BY <2>5 DEF TakeClosed, BeginStop
    <3>2. waiter[w] = "done"
      BY <2>5 DEF TakeClosed
    <3> QED
      BY <3>1, <3>2
  <2>6. CASE Feedback(w)
    BY <2>6 DEF Feedback
  <2> QED
    BY <1>1, <2>1, <2>2, <2>3, <2>4, <2>5, <2>6
<1>2. ASSUME NEW w \in Workers, SendStop(w) PROVE LoopInv'
  BY <1>2 DEF SendStop, BeginStop
<1>3. ASSUME NEW w \in Workers, AnswerStop(w) PROVE LoopInv'
  BY <1>3 DEF AnswerStop, StopTakesExit
<1>4. ASSUME NEW w \in Workers, StartupStarts(w) \/ Restock(w) PROVE LoopInv'
  BY <1>4 DEF StartupStarts, Restock, StartWorker, Spawn, NextFresh, Fresh, ExitInv
<1>5. ASSUME NEW w \in Workers, CollectInfo(w) PROVE LoopInv'
  BY <1>5 DEF CollectInfo, AnswerInfo
<1>6. CASE CleanWorkerReference
  <2>1. PICK v \in Workers : waiter[v] = "done" /\ ForgetWorker(PidOf[v])
    <3>1. /\ Head(commands) \in Messages
          /\ Head(commands).type = "stoppedworker"
          /\ Head(commands) = commands[1] /\ 1 \in 1..Len(commands)
      BY <1>6, ReceiveType DEF CleanWorkerReference, Receive
    <3>2. /\ Head(commands).worker \in Workers
          /\ waiter[Head(commands).worker] = "done"
      BY <3>1, StoppedWorkerType DEF ExitInv
    <3> QED
      BY <1>6, <3>2 DEF CleanWorkerReference
  <2>2. UNCHANGED <<waiter, run, caller>>
    BY <1>6 DEF CleanWorkerReference
  <2>3. \A w \in Workers : cmdClosed'[w] => waiter[w] = "done"
    <3>1. PidOf[v] \in Pids
      OBVIOUS
    <3>2. workerChannels[PidOf[v]] # None => workerChannels[PidOf[v]] = v
      BY <3>1 DEF ChannelInv, NoPidReuse
    <3>3. CASE workerChannels[PidOf[v]] = None
      BY <2>1, <3>3 DEF ForgetWorker
    <3>4. CASE workerChannels[PidOf[v]] = v
      <4>1. cmdClosed' = [cmdClosed EXCEPT ![v] = TRUE]
        BY <2>1, <3>4, NoneAssumption DEF ForgetWorker
      <4> QED
        BY <2>1, <4>1
    <3> QED
      BY <3>2, <3>3, <3>4
  <2> QED
    BY <2>2, <2>3
<1>7. CASE SendInfo \/ DeliverKeepAlive
  BY <1>7 DEF SendInfo, TakeInfo, DeliverKeepAlive, TakeKeepAlive
<1>8. CASE UNCHANGED <<waiter, run, caller, cmdClosed>>
  BY <1>8
<1>9. ASSUME NEW w \in Workers,
             (ExitAlone(w) \/ ExitOnSignal(w) \/ Elapse(w)) \/ EmitKeepAlive(w) \/ AnswerOnClosed(w)
      PROVE  LoopInv'
  BY <1>8, <1>9 DEF ExitAlone, ExitOnSignal, Elapse, EmitKeepAlive,
     AnswerOnClosed
<1>10. CASE StartupFails \/ StartFailed \/ EnterLoop \/ LeaveLoop \/ Terminated
           \/ Set \/ Stop \/ Maintained \/ Stopped \/ Replied
           \/ BroadcastTimesOut \/ RestockFails \/ Restored \/ AtCardinality
           \/ StopExtraWorkers \/ DropKeepAliveChannel \/ Environment
  BY <1>8, <1>10
     DEF StartupFails, StartWorkerFails, StartFailed, ReplyToStart, EnterLoop,
         LeaveLoop, Terminated, Set, Stop, Maintained, Stopped, Replied,
         BroadcastTimesOut, RestockFails, Restored,
         AtCardinality, StopExtraWorkers, DropKeepAliveChannel, Environment, Request,
         SentToAll, Outage, OutageEnds
<1>11. ASSUME NEW t, AskWorkers(t) PROVE LoopInv'
  BY <1>8, <1>11 DEF AskWorkers
<1>12. ASSUME NEW p \in Pids, KeepWorkerAlive(p) PROVE LoopInv'
  BY <1>8, <1>12 DEF KeepWorkerAlive
<1> HIDE DEF LoopInv
<1> QED
  BY <1>1, <1>3, <1>4, <1>5, <1>6, <1>7, <1>9, <1>10, <1>11, <1>12, <1>2
     DEF Next, TaskStep, TakeCommand, Status, ListWorkers, WorkerStep, LoopStep,
     ProcessStep

\* With pids of their own no worker's loop ever ends: the goroutine of a reported
\* worker stays in the Stop() of cleanTermination(), or in its select, for good.
THEOREM LoopsGoOn ==
  ASSUME NoPidReuse
  PROVE  Spec => []NoLoopEnds
<1>1. Init => LoopInv
  BY DEF Init, WorkerInit, LoopInv, NoLoopEnds
<1>2. TypeOK /\ ChannelInv /\ ExitInv /\ LoopInv /\ [Next]_vars => LoopInv'
  <2>1. CASE Next
    BY <2>1, LoopInvStep
  <2>2. CASE UNCHANGED vars
    BY <2>2 DEF vars, workerVars, LoopInv, NoLoopEnds
  <2> QED
    BY <2>1, <2>2
<1>3. LoopInv => NoLoopEnds
  BY DEF LoopInv
<1> QED
  BY <1>1, <1>2, <1>3, TypeCorrect, ChannelsMapped, ExitsReaped, PTL DEF Spec

-----------------------------------------------------------------------------
(* The second stop *)

\* A stop leaves workerChannels as it was, so that the last one waits for every
\* worker whose exit message the first one took.
ReturnInv ==
  /\ ~active => tpc \in {"start", "loop", "stopwait", "reply", "ended", "panic"}
  /\ after # "none" => tpc \in {"stopwait", "reply", "panic"}
  /\ after = "stopped" =>
       ~active /\ \A w \in Tracked : stopper[w] = "none" => waiter[w] = "done"
  /\ after = "stopped" /\ tpc = "reply" => \A w \in Tracked : waiter[w] = "done"
  /\ stopAnswered =>
       /\ ~active
       /\ tpc \in {"loop", "stopwait", "ended", "panic"}
       /\ after \in {"none", "final"}
       /\ \A w \in Tracked : waiter[w] = "done"
       /\ tpc = "stopwait" => \A w \in Tracked : stopper[w] # "none"
       /\ tpc = "ended" => Tracked = {}

\* No step gets the goroutine out of the second stop.
LEMMA ReturnStep ==
  ASSUME TypeOK, ExitInv, ReturnInv, Next
  PROVE  ReturnInv'
<1> USE DEF TypeOK, WorkerTypeOK, workerVars, taskVars, controlVars, poolVars,
            counterVars, startVars, requestVars, historyVars, ReturnInv, Tracked
<1>1. CASE UNCHANGED <<waiter, active, tpc, after, stopper, stopAnswered, workerChannels>>
  BY <1>1
<1>2. ASSUME NEW w \in Workers,
             \/ /\ \/ Forward(w) \/ StallTick(w) \/ TakeClosed(w) \/ GraceExpires(w)
                   \/ Feedback(w) \/ ExitAlone(w) \/ ExitOnSignal(w) \/ Elapse(w)
                /\ UNCHANGED taskVars
             \/ EmitKeepAlive(w)
      PROVE  ReturnInv'
  BY <1>1, <1>2
     DEF Forward, StallTick, BeginStop, TakeClosed, GraceExpires, Feedback,
         ExitAlone, ExitOnSignal, Elapse, EmitKeepAlive
<1>3. ASSUME NEW w \in Workers, TakeExit(w) \/ Reap(w), UNCHANGED taskVars
      PROVE  ReturnInv'
  BY <1>3 DEF TakeExit, Reap
<1>4. ASSUME NEW w \in Workers, SendStop(w) PROVE ReturnInv'
  BY <1>4 DEF SendStop, BeginStop
<1>5. ASSUME NEW w \in Workers, AnswerStop(w) PROVE ReturnInv'
  BY <1>5 DEF AnswerStop, StopTakesExit
<1>6. ASSUME NEW w \in Workers, StartupStarts(w) PROVE ReturnInv'
  BY <1>6 DEF StartupStarts, StartWorker, Spawn, NextFresh, Fresh
<1>7. ASSUME NEW w \in Workers, Restock(w) PROVE ReturnInv'
  BY <1>7 DEF Restock, BelowCardinality, StartWorker, Spawn, NextFresh, Fresh
<1>8. ASSUME NEW w \in Workers, CollectInfo(w) PROVE ReturnInv'
  BY <1>8 DEF CollectInfo, AnswerInfo
<1>9. CASE StartupFails
  BY <1>9 DEF StartupFails, StartWorkerFails, StopWorkersByPid
<1>10. CASE StartFailed
  BY <1>10 DEF StartFailed, ReplyToStart
<1>11. CASE EnterLoop \/ Restored \/ AtCardinality
  BY <1>11 DEF EnterLoop, Restored, AtCardinality
<1>12. CASE LeaveLoop
  BY <1>12 DEF LeaveLoop, StopWorkersByPid
<1>13. CASE Terminated
  BY <1>13 DEF Terminated, ReplyToStart, StoppersDone
<1>14. CASE CleanWorkerReference
  BY <1>14 DEF CleanWorkerReference, Receive
<1>15. CASE Set
  BY <1>15 DEF Set, Receive
<1>16. CASE Stop
  BY <1>16 DEF Stop, Receive, StopWorkersByPid
<1>17. ASSUME NEW t, AskWorkers(t) PROVE ReturnInv'
  BY <1>17 DEF AskWorkers, Receive
<1>18. CASE Maintained
  BY <1>18 DEF Maintained
<1>19. CASE RestockFails
  BY <1>19 DEF RestockFails, BelowCardinality, StartWorkerFails
<1>20. CASE StopExtraWorkers
  BY <1>20 DEF StopExtraWorkers, StopWorkersByPid
<1>21. CASE SendInfo
  BY <1>21 DEF SendInfo, TakeInfo
<1>22. CASE DeliverKeepAlive \/ DropKeepAliveChannel
  BY <1>22 DEF DeliverKeepAlive, TakeKeepAlive, DropKeepAliveChannel
<1>23. ASSUME NEW p \in Pids, KeepWorkerAlive(p) PROVE ReturnInv'
  BY <1>23 DEF KeepWorkerAlive
<1>24. CASE Environment
  BY <1>1, <1>24 DEF Environment, Request, SentToAll, Outage, OutageEnds
<1>25. CASE Stopped
  BY <1>25 DEF Stopped, StoppersDone
<1>26. CASE Replied
  BY <1>26 DEF Replied
<1>27. CASE BroadcastTimesOut
  BY <1>27 DEF BroadcastTimesOut
<1>28. ASSUME NEW w \in Workers, AnswerOnClosed(w) PROVE ReturnInv'
  BY <1>28 DEF AnswerOnClosed
<1> HIDE DEF ReturnInv
<1> QED
  BY <1>2, <1>3, <1>4, <1>5, <1>6, <1>7, <1>8, <1>9, <1>10, <1>11, <1>12, <1>13,
     <1>14, <1>15, <1>16, <1>17, <1>18, <1>19, <1>20, <1>21, <1>22, <1>23, <1>24,
     <1>25, <1>26, <1>27, <1>28
     DEF Next, TaskStep, TakeCommand, Status, ListWorkers, WorkerStep, LoopStep,
     ProcessStep

\* Even when pids are reused: after a stop command that found a worker Start()
\* does not return.
THEOREM StopsNeverReturn == Spec => []StoppedNeverReturns
<1>1. Init => ReturnInv
  BY DEF Init, ReturnInv
<1>2. TypeOK /\ ExitInv /\ ReturnInv /\ [Next]_vars => ReturnInv'
  <2>1. CASE Next
    BY <2>1, ReturnStep
  <2>2. CASE UNCHANGED vars
    BY <2>2 DEF vars, workerVars, taskVars, controlVars, poolVars, requestVars, historyVars,
       ReturnInv, Tracked
  <2> QED
    BY <2>1, <2>2
<1>3. ReturnInv => StoppedNeverReturns
  BY DEF ReturnInv, StoppedNeverReturns
<1> QED
  BY <1>1, <1>2, <1>3, TypeCorrect, ExitsReaped, PTL DEF Spec

-----------------------------------------------------------------------------
(* Hangs *)

\* Nobody sends a second exit message: a Stop() that waits for it waits on.
LEMMA DoomedStays ==
  ASSUME TypeOK, ExitInv, Next, NEW w \in Workers, Doomed(w)
  PROVE  Doomed(w)'
<1> USE DEF TypeOK, WorkerTypeOK, Doomed
<1>1. run[w] \in {"stopping", "killing"} /\ waiter[w] = "done" /\ proc[w] # "none"
  BY DEF ExitInv
<1>2. CASE UNCHANGED <<run, waiter>>
  BY <1>2
<1>3. ASSUME NEW v \in Workers, LoopStep(v) \/ ProcessStep(v) PROVE Doomed(w)'
  <2>1. CASE TakeExit(v)
    BY <1>1, <2>1 DEF TakeExit
  <2>2. CASE Forward(v)
    BY <1>1, <2>2 DEF Forward
  <2>3. CASE StallTick(v) \/ TakeClosed(v)
    BY <1>1, <2>3 DEF StallTick, TakeClosed, BeginStop
  <2>4. CASE GraceExpires(v)
    BY <1>1, <2>4 DEF GraceExpires
  <2>5. CASE Feedback(v)
    BY <1>1, <2>5 DEF Feedback
  <2>6. CASE Reap(v)
    BY <1>1, <2>6 DEF Reap
  <2>7. CASE ExitAlone(v) \/ ExitOnSignal(v) \/ Elapse(v)
    BY <1>2, <2>7 DEF ExitAlone, ExitOnSignal, Elapse
  <2> QED
    BY <1>3, <2>1, <2>2, <2>3, <2>4, <2>5, <2>6, <2>7 DEF LoopStep, ProcessStep
<1>4. ASSUME NEW v \in Workers, SendStop(v) PROVE Doomed(w)'
  BY <1>1, <1>4 DEF SendStop, BeginStop
<1>5. ASSUME NEW v \in Workers, AnswerStop(v) PROVE Doomed(w)'
  BY <1>1, <1>5 DEF AnswerStop, StopTakesExit
<1>6. ASSUME NEW v \in Workers, StartupStarts(v) \/ Restock(v) PROVE Doomed(w)'
  BY <1>1, <1>6 DEF StartupStarts, Restock, StartWorker, Spawn, NextFresh, Fresh
<1>7. ASSUME NEW v \in Workers, CollectInfo(v) PROVE Doomed(w)'
  BY <1>1, <1>7 DEF CollectInfo, AnswerInfo
<1>8. CASE SendInfo \/ DeliverKeepAlive
  BY <1>1, <1>8 DEF SendInfo, TakeInfo, DeliverKeepAlive, TakeKeepAlive
<1>9. CASE \/ StartupFails \/ StartFailed \/ EnterLoop \/ LeaveLoop \/ Terminated
           \/ Set \/ Stop \/ Maintained \/ Stopped \/ Replied
           \/ BroadcastTimesOut \/ RestockFails \/ Restored \/ AtCardinality
           \/ StopExtraWorkers \/ DropKeepAliveChannel \/ Environment
           \/ CleanWorkerReference
           \/ \E v \in Workers : EmitKeepAlive(v) \/ AnswerOnClosed(v)
           \/ \E p \in Pids : KeepWorkerAlive(p)
           \/ \E t \in {"status", "listworkers"} : AskWorkers(t)
  BY <1>2, <1>9
     DEF StartupFails, StartWorkerFails, StartFailed, ReplyToStart, EnterLoop,
         LeaveLoop, Terminated, Set, Stop, Maintained, Stopped, Replied,
         BroadcastTimesOut, RestockFails, Restored,
         AtCardinality, StopExtraWorkers, DropKeepAliveChannel, Environment, Request,
         SentToAll, Outage, OutageEnds, CleanWorkerReference, EmitKeepAlive, AnswerOnClosed,
         KeepWorkerAlive, AskWorkers, workerVars
<1> HIDE DEF TypeOK, WorkerTypeOK, Doomed
<1> QED
  BY <1>3, <1>4, <1>5, <1>6, <1>7, <1>8, <1>9
     DEF Next, TaskStep, TakeCommand, Status, ListWorkers, WorkerStep

\* Only the task takes reports off the channel, and it waits elsewhere.
LEMMA BlockedStays ==
  ASSUME TypeOK, ExitInv, Next, NEW w \in Workers, Blocked(w),
         tpc \in {"stopwait", "bsend", "keepalive"}
  PROVE  Blocked(w)'
<1>1. /\ run[w] \in {"forward", "feedback"} /\ proc[w] # "none"
      /\ Len(commands) >= QueueCap
      /\ commands \in Seq(Messages) /\ run \in [Workers -> RunStates]
  BY DEF ExitInv, Blocked, TypeOK, WorkerTypeOK
<1>2. CASE run'[w] = run[w] /\ UNCHANGED commands
  BY <1>1, <1>2 DEF Blocked
<1>3. ASSUME NEW v \in Workers, LoopStep(v) \/ ProcessStep(v) PROVE Blocked(w)'
  <2>1. ~Forward(v) /\ ~Feedback(v)
    <3>1. ~(Len(commands) < QueueCap)
      BY <1>1, QueueAssumption
    <3> QED
      BY <3>1 DEF Forward, Feedback
  <2>2. CASE TakeExit(v)
    BY <1>1, <1>2, <2>2 DEF TakeExit
  <2>3. CASE StallTick(v) \/ TakeClosed(v)
    BY <1>1, <1>2, <2>3 DEF StallTick, TakeClosed, BeginStop
  <2>4. CASE GraceExpires(v)
    BY <1>1, <1>2, <2>4 DEF GraceExpires
  <2>5. CASE ExitAlone(v) \/ ExitOnSignal(v) \/ Reap(v) \/ Elapse(v)
    BY <1>2, <2>5 DEF ExitAlone, ExitOnSignal, Reap, Elapse
  <2> QED
    BY <1>3, <2>1, <2>2, <2>3, <2>4, <2>5 DEF LoopStep, ProcessStep
<1>4. ASSUME NEW v \in Workers, SendStop(v) \/ AnswerStop(v) PROVE Blocked(w)'
  BY <1>1, <1>2, <1>4 DEF SendStop, BeginStop, AnswerStop, StopTakesExit
<1>5. ASSUME NEW v \in Workers, StartupStarts(v) \/ Restock(v) PROVE Blocked(w)'
  BY <1>1, <1>2, <1>5 DEF StartupStarts, Restock, StartWorker, Spawn, NextFresh, Fresh
<1>6. ASSUME NEW v \in Workers, CollectInfo(v) PROVE Blocked(w)'
  BY <1>1, <1>2, <1>6 DEF CollectInfo, AnswerInfo
<1>7. CASE SendInfo \/ DeliverKeepAlive
  BY <1>1, <1>2, <1>7 DEF SendInfo, TakeInfo, DeliverKeepAlive, TakeKeepAlive
<1>8. CASE Environment
  <2>1. ~Request
    <3>1. ~(Len(commands) < QueueCap)
      BY <1>1, QueueAssumption
    <3> QED
      BY <3>1 DEF Request
  <2>2. UNCHANGED <<run, commands>>
    BY <1>8, <2>1 DEF Environment, SentToAll, Outage, OutageEnds, workerVars
  <2> QED
    BY <1>2, <2>2
<1>9. CASE TakeCommand \/ (\E p \in Pids : KeepWorkerAlive(p))
  BY <1>9 DEF TakeCommand, Status, ListWorkers, AskWorkers, Set, Stop,
     CleanWorkerReference, Receive, KeepWorkerAlive
<1>10. CASE \/ StartupFails \/ StartFailed \/ EnterLoop \/ LeaveLoop \/ Terminated
            \/ Maintained \/ Stopped \/ Replied \/ BroadcastTimesOut \/ RestockFails \/ Restored \/ AtCardinality
            \/ StopExtraWorkers \/ DropKeepAliveChannel
            \/ \E v \in Workers : EmitKeepAlive(v) \/ AnswerOnClosed(v)
  BY <1>2, <1>10
     DEF StartupFails, StartWorkerFails, StartFailed, ReplyToStart, EnterLoop,
         LeaveLoop, Terminated, Maintained, Stopped, Replied, BroadcastTimesOut, RestockFails, Restored, AtCardinality,
         StopExtraWorkers, DropKeepAliveChannel, EmitKeepAlive, AnswerOnClosed,
         workerVars
<1> QED
  BY <1>3, <1>4, <1>5, <1>6, <1>7, <1>8, <1>9, <1>10 DEF Next, TaskStep, WorkerStep

\* The goroutine waits on for a worker whose loop and Stop() do not meet it.
LEMMA AwaitedStays ==
  ASSUME TypeOK, Next, NEW w \in Workers, Awaited(w),
         run[w] \notin {"select", "ended"}, waiter[w] # "send", tpc' # "panic"
  PROVE  Awaited(w)'
<1> USE DEF Awaited
<1>1. /\ tpc \in {"stopwait", "bsend", "keepalive"}
      /\ stopper \in [Workers -> {"none", "send", "wait"}]
  BY DEF TypeOK
<1>2. CASE UNCHANGED <<tpc, stopper, todo, current>>
  BY <1>2
<1>3. ASSUME NEW v \in Workers,
             \/ LoopStep(v) \/ ProcessStep(v) \/ EmitKeepAlive(v) \/ StartupStarts(v)
             \/ Restock(v)
      PROVE  Awaited(w)'
  BY <1>2, <1>3 DEF LoopStep, ProcessStep, EmitKeepAlive, StartupStarts, Restock,
     taskVars, controlVars
<1>4. ASSUME NEW v \in Workers, SendStop(v) PROVE Awaited(w)'
  BY <1>1, <1>4 DEF SendStop, controlVars
<1>5. ASSUME NEW v \in Workers, AnswerStop(v) PROVE Awaited(w)'
  <2>1. v # w
    BY <1>5 DEF AnswerStop, StopTakesExit
  <2> QED
    BY <1>1, <1>5, <2>1 DEF AnswerStop, controlVars
<1>6. CASE SendInfo
  BY <1>6 DEF SendInfo, TakeInfo
<1>7. CASE DeliverKeepAlive \/ DropKeepAliveChannel
  BY <1>7 DEF DeliverKeepAlive, TakeKeepAlive, DropKeepAliveChannel
<1>8. CASE StartFailed \/ Terminated \/ Maintained \/ Stopped
  BY <1>8 DEF StartFailed, Terminated, Maintained, Stopped, StoppersDone
<1>9. CASE Environment
  BY <1>2, <1>9 DEF Environment, Request, SentToAll, Outage, OutageEnds, controlVars
<1>10. ASSUME NEW v \in Workers, CollectInfo(v) PROVE FALSE
  BY <1>1, <1>10 DEF CollectInfo
<1>11. CASE \/ Replied \/ BroadcastTimesOut \/ StartupFails \/ EnterLoop \/ LeaveLoop \/ RestockFails \/ Restored
            \/ AtCardinality \/ StopExtraWorkers \/ TakeCommand
            \/ \E p \in Pids : KeepWorkerAlive(p)
  BY <1>1, <1>11 DEF Replied, BroadcastTimesOut, StartupFails, EnterLoop, LeaveLoop, RestockFails, BelowCardinality,
     Restored, AtCardinality, StopExtraWorkers, TakeCommand, Status, ListWorkers,
     AskWorkers, Set, Stop, CleanWorkerReference, Receive, KeepWorkerAlive
<1>12. ASSUME NEW v \in Workers, AnswerOnClosed(v) PROVE FALSE
  BY <1>12 DEF AnswerOnClosed
<1> HIDE DEF Awaited
<1> QED
  BY <1>3, <1>4, <1>5, <1>6, <1>7, <1>8, <1>9, <1>10, <1>11, <1>12
     DEF Next, TaskStep, WorkerStep

\* Even when pids are reused, and with channels of any capacity: a task that hangs
\* never comes back, unless another goroutine takes the whole manager down.
THEOREM HangsForGood == Spec => HungForGood
<1>1. TypeOK /\ ExitInv /\ [Next]_vars => [Hung => Hung' \/ tpc' = "panic"]_vars
  <2> SUFFICES ASSUME TypeOK, ExitInv, Next, Hung, tpc' # "panic" PROVE Hung'
    OBVIOUS
  <2>1. PICK w \in Workers : Awaited(w) /\ (Doomed(w) \/ Blocked(w))
    BY DEF Hung
  <2>2. run[w] \notin {"select", "ended"} /\ waiter[w] # "send"
    BY <2>1 DEF Doomed, Blocked, ExitInv
  <2>3. Awaited(w)'
    BY <2>1, <2>2, AwaitedStays
  <2>4. Doomed(w)' \/ Blocked(w)'
    <3>1. tpc \in {"stopwait", "bsend", "keepalive"}
      BY <2>1 DEF Awaited
    <3> QED
      BY <2>1, <3>1, DoomedStays, BlockedStays
  <2> QED
    BY <2>3, <2>4 DEF Hung
<1> QED
  BY <1>1, TypeCorrect, ExitsReaped, PTL DEF Spec, HungForGood

=============================================================================
