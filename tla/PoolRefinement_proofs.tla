----------------------- MODULE PoolRefinement_proofs -----------------------
(***************************************************************************)
(* TaskManager implements WorkerPool when the kernel gives every process a *)
(* pid of its own: each of its steps is a step of the abstract pool or     *)
(* leaves it alone.                                                        *)
(***************************************************************************)
EXTENDS PoolSafety_proofs

USE NoneAssumption, PidAssumption, CardinalityAssumption, RequestsAssumption

-----------------------------------------------------------------------------
(* How many processes run *)

LEMMA LiveFinite == IsFiniteSet(Live) /\ Cardinality(Live) \in Nat
BY WorkersAssumption, FS_Subset, FS_CardinalityType DEF Live

LEMMA LiveShrinks ==
  ASSUME Live' \subseteq Live
  PROVE  Cardinality(Live') \in Nat /\ Cardinality(Live') <= Cardinality(Live)
BY LiveFinite, FS_Subset, FS_CardinalityType

LEMMA LiveGrows ==
  ASSUME NEW w \in Workers, Live' = Live \cup {w}
  PROVE  Cardinality(Live') \in Nat /\ Cardinality(Live') <= Cardinality(Live) + 1
<1>1. Cardinality(Live') = IF w \in Live THEN Cardinality(Live) ELSE Cardinality(Live) + 1
  BY LiveFinite, FS_AddElement, Zenon
<1> QED
  BY <1>1, LiveFinite

\* While Start() is in its loop no more processes run than the loop has started.
StartInv ==
  tpc = "start" \/ after = "startfail" => Cardinality(Live) <= started

\* Every process of the loop of Start() is one of its iterations.
LEMMA StartStep ==
  ASSUME TypeOK, StopInv, StartInv, Next
  PROVE  StartInv'
<1> USE DEF TypeOK, WorkerTypeOK, workerVars, taskVars, controlVars, poolVars,
            counterVars, startVars, requestVars, historyVars, StartInv, StopInv
<1>1. ASSUME NEW w \in Workers, ExitAlone(w) /\ UNCHANGED taskVars PROVE StartInv'
  <2>1. Live' \subseteq Live
    BY <1>1 DEF ExitAlone, Live
  <2> QED
    BY <1>1, <2>1, LiveShrinks, LiveFinite DEF ExitAlone
<1>2. ASSUME NEW w \in Workers, ExitOnSignal(w) /\ UNCHANGED taskVars PROVE StartInv'
  <2>1. Live' \subseteq Live
    BY <1>2 DEF ExitOnSignal, Live
  <2> QED
    BY <1>2, <2>1, LiveShrinks, LiveFinite DEF ExitOnSignal
<1>3. ASSUME NEW w \in Workers, StartupStarts(w) PROVE StartInv'
  <2>1. Live' = Live \cup {w}
    BY <1>3 DEF StartupStarts, StartWorker, Spawn, Live
  <2>2. Cardinality(Live') \in Nat /\ Cardinality(Live') <= Cardinality(Live) + 1
    BY <2>1, LiveGrows
  <2> QED
    BY <1>3, <2>2, LiveFinite DEF StartupStarts
<1>4. ASSUME NEW w \in Workers, Restock(w) PROVE StartInv'
  BY <1>4 DEF Restock, BelowCardinality, StartWorker, Spawn, NextFresh, Fresh
<1>5. ASSUME NEW w \in Workers, CollectInfo(w) PROVE StartInv'
  BY <1>5 DEF CollectInfo, AnswerInfo
<1>6. CASE StartupFails
  <2>1. Live' = Live
    BY <1>6 DEF StartupFails, StartWorkerFails, StopWorkersByPid, Live
  <2> QED
    BY <1>6, <2>1, LiveFinite DEF StartupFails, StartWorkerFails, StopWorkersByPid
<1>7. CASE StartFailed
  <2>1. Live' = Live
    BY <1>7 DEF StartFailed, ReplyToStart, Live
  <2> QED
    BY <1>7, <2>1, LiveFinite DEF StartFailed, ReplyToStart
<1>8. CASE EnterLoop
  BY <1>8 DEF EnterLoop
<1>9. CASE LeaveLoop
  BY <1>9 DEF LeaveLoop, StopWorkersByPid
<1>10. CASE Terminated
  BY <1>10 DEF Terminated, ReplyToStart, StoppersDone
<1>11. CASE CleanWorkerReference
  BY <1>11 DEF CleanWorkerReference, Receive, CountExit, ForgetWorker
<1>12. CASE Set
  BY <1>12 DEF Set, Receive
<1>13. CASE Stop
  BY <1>13 DEF Stop, Receive, StopWorkersByPid
<1>14. ASSUME NEW t, AskWorkers(t) PROVE StartInv'
  BY <1>14 DEF AskWorkers, Receive
<1>15. CASE Maintained \/ Stopped \/ Replied \/ BroadcastTimesOut
  BY <1>15 DEF Maintained, Stopped, Replied, BroadcastTimesOut
<1>16. CASE RestockFails
  BY <1>16 DEF RestockFails, BelowCardinality, StartWorkerFails
<1>17. CASE Restored
  BY <1>17 DEF Restored
<1>18. CASE AtCardinality
  BY <1>18 DEF AtCardinality
<1>19. CASE StopExtraWorkers
  BY <1>19 DEF StopExtraWorkers, StopWorkersByPid
<1>20. CASE SendInfo
  BY <1>20 DEF SendInfo, TakeInfo
<1>21. CASE DeliverKeepAlive
  BY <1>21 DEF DeliverKeepAlive, TakeKeepAlive
<1>22. CASE DropKeepAliveChannel
  BY <1>22 DEF DropKeepAliveChannel
<1>23. ASSUME NEW p \in Pids, KeepWorkerAlive(p) PROVE StartInv'
  BY <1>23 DEF KeepWorkerAlive
<1>24. CASE UNCHANGED <<proc, tpc, after, started>>
  BY <1>24 DEF Live
<1>25. ASSUME NEW w \in Workers,
              (TakeExit(w) /\ UNCHANGED taskVars) \/
              (Forward(w) /\ UNCHANGED taskVars) \/
              (StallTick(w) /\ UNCHANGED taskVars) \/
              (TakeClosed(w) /\ UNCHANGED taskVars) \/
              (GraceExpires(w) /\ UNCHANGED taskVars) \/
              (Feedback(w) /\ UNCHANGED taskVars) \/
              (Reap(w) /\ UNCHANGED taskVars) \/
              (Elapse(w) /\ UNCHANGED taskVars) \/ SendStop(w) \/
              AnswerStop(w) \/ EmitKeepAlive(w)
      PROVE  StartInv'
  BY <1>25, <1>24
     DEF TakeExit, Forward, StallTick, BeginStop, SendSignal, TakeClosed,
         GraceExpires, Feedback, Reap, Elapse, SendStop, AnswerStop, StopTakesExit,
         EmitKeepAlive
<1>26. CASE Environment
  BY <1>26, <1>24 DEF Environment, Request, SentToAll, Outage, OutageEnds
<1>27. ASSUME NEW w \in Workers, AnswerOnClosed(w) PROVE StartInv'
  <2>1. Live' = Live
    BY <1>27 DEF AnswerOnClosed, Live
  <2> QED
    BY <1>27, <2>1 DEF AnswerOnClosed
<1> HIDE DEF StartInv
<1> QED
  BY <1>1, <1>2, <1>3, <1>4, <1>5, <1>6, <1>7, <1>8, <1>9, <1>10, <1>11, <1>12,
     <1>13, <1>14, <1>15, <1>16, <1>17, <1>18, <1>19, <1>20, <1>21, <1>22, <1>23,
     <1>24, <1>25, <1>26, <1>27
     DEF Next, TaskStep, TakeCommand, Status, ListWorkers, WorkerStep, LoopStep,
     ProcessStep

\* While Start() is in its loop, no more processes run than it has started.
THEOREM StartupCounted ==
  ASSUME NoPidReuse
  PROVE  Spec => []StartInv
<1>1. Init => StartInv
  <2>1. Init => Live = {}
    BY DEF Init, WorkerInit, Live
  <2> QED
    BY <2>1, FS_EmptySet DEF Init, StartInv
<1>2. TypeOK /\ StopInv /\ StartInv /\ [Next]_vars => StartInv'
  <2>1. CASE Next
    BY <2>1, StartStep
  <2>2. CASE UNCHANGED vars
    BY <2>2 DEF vars, workerVars, taskVars, controlVars, poolVars,
       counterVars, startVars, requestVars, historyVars, StartInv, Live
  <2> QED
    BY <2>1, <2>2
<1> QED
  BY <1>1, <1>2, TypeCorrect, StopsCovered, PTL DEF Spec

-----------------------------------------------------------------------------
(* The steps of the pool *)

\* The abstract pool is open, see ImplementsPool.
Open == active \/ tpc = "start" \/ after = "startfail"

PoolStep == Pool!Next \/ UNCHANGED Pool!poolState

\* A step that neither starts nor ends a process.
LEMMA PoolUnchanged ==
  ASSUME UNCHANGED <<proc, cardinality, stopAnswered>>, Open' <=> Open
  PROVE  PoolStep
BY DEF PoolStep, Pool!poolState, Open, Live

\* The cardinality of the instance is the one of FiniteSets.
LEMMA PoolCardinality == Pool!Cardinality(Live) = Cardinality(Live)
BY DEF Pool!Cardinality, Cardinality

LEMMA PoolStarts ==
  ASSUME TypeOK, NEW w \in Workers, proc[w] = "none",
         proc' = [proc EXCEPT ![w] = "running"], Cardinality(Live) < cardinality,
         UNCHANGED <<cardinality, stopAnswered>>, Open, Open'
  PROVE  PoolStep
<1>1. Pool!Start(w)
  <2>1. {v \in Workers : proc'[v] = "none"} = {v \in Workers : proc[v] = "none"} \ {w}
    BY DEF TypeOK, WorkerTypeOK
  <2>2. Live' = Live \cup {w}
    BY DEF Live, TypeOK, WorkerTypeOK
  <2>3. w \in {v \in Workers : proc[v] = "none"}
    OBVIOUS
  <2>4. /\ active \/ tpc = "start" \/ after = "startfail"
        /\ UNCHANGED <<cardinality, active \/ tpc = "start" \/ after = "startfail",
                       stopAnswered>>
    BY DEF Open
  <2>5. Pool!Cardinality(Live) < cardinality
    BY PoolCardinality
  <2> QED
    BY <2>1, <2>2, <2>3, <2>4, <2>5, Zenon DEF Pool!Start
<1> QED
  BY <1>1 DEF PoolStep, Pool!Next

LEMMA PoolExits ==
  ASSUME TypeOK, NEW w \in Workers, proc[w] = "running",
         proc' = [proc EXCEPT ![w] = "exited"],
         UNCHANGED <<cardinality, stopAnswered>>, Open' <=> Open
  PROVE  PoolStep
<1>1. Pool!Exit(w)
  BY DEF Pool!Exit, Open, Live, TypeOK, WorkerTypeOK
<1> QED
  BY <1>1 DEF PoolStep, Pool!Next

LEMMA PoolCloses ==
  ASSUME UNCHANGED <<proc, cardinality, stopAnswered>>, Open, ~Open'
  PROVE  PoolStep
<1>1. Pool!Close
  BY DEF Pool!Close, Open, Live
<1> QED
  BY <1>1 DEF PoolStep, Pool!Next

LEMMA PoolConfirms ==
  ASSUME UNCHANGED <<proc, cardinality>>, ~Open, ~Open', Live = {}, stopAnswered'
  PROVE  PoolStep
<1>1. Pool!Confirm
  BY DEF Pool!Confirm, Open, Live
<1> QED
  BY <1>1 DEF PoolStep, Pool!Next

LEMMA PoolResizes ==
  ASSUME UNCHANGED <<proc, stopAnswered>>, Open, Open', cardinality' \in Targets
  PROVE  PoolStep
<1>1. Pool!Resize(cardinality')
  BY DEF Pool!Resize, Open, Live
<1> QED
  BY <1>1 DEF PoolStep, Pool!Next

\* Every step of the task is a step of its pool, or leaves it alone.
LEMMA StepsOfThePool ==
  ASSUME TypeOK, AliveTracked, StopInv, StartInv, Next
  PROVE  PoolStep
<1> USE DEF TypeOK, WorkerTypeOK, workerVars, taskVars, controlVars, poolVars,
            counterVars, startVars, requestVars, historyVars, StopInv, Open
<1>1. ASSUME NEW w \in Workers, ExitAlone(w) /\ UNCHANGED taskVars PROVE PoolStep
  BY <1>1, PoolExits DEF ExitAlone
<1>2. ASSUME NEW w \in Workers, ExitOnSignal(w) /\ UNCHANGED taskVars PROVE PoolStep
  BY <1>2, PoolExits DEF ExitOnSignal
<1>3. ASSUME NEW w \in Workers, StartupStarts(w) PROVE PoolStep
  <2>1. Cardinality(Live) < cardinality
    BY <1>3, LiveFinite DEF StartupStarts, StartInv
  <2>2. proc[w] = "none" /\ proc' = [proc EXCEPT ![w] = "running"]
    BY <1>3 DEF StartupStarts, StartWorker, Spawn, NextFresh, Fresh
  <2> QED
    BY <1>3, <2>1, <2>2, PoolStarts DEF StartupStarts
<1>4. ASSUME NEW w \in Workers, Restock(w) PROVE PoolStep
  <2>1. Live \subseteq Tracked /\ IsFiniteSet(Tracked)
    BY WorkersAssumption, FS_Subset DEF Tracked, AliveTracked, Live
  <2>2. /\ Cardinality(Live) \in Nat /\ Cardinality(Tracked) \in Nat
        /\ Cardinality(Live) <= Cardinality(Tracked)
    BY <2>1, LiveFinite, FS_Subset, FS_CardinalityType
  <2>3. Cardinality(Live) < cardinality
    BY <1>4, <2>2 DEF Restock, BelowCardinality, NumTracked
  <2>4. active
    BY <1>4 DEF Restock, BelowCardinality
  <2>5. proc[w] = "none" /\ proc' = [proc EXCEPT ![w] = "running"]
    BY <1>4 DEF Restock, StartWorker, Spawn, NextFresh, Fresh
  <2> QED
    BY <1>4, <2>3, <2>4, <2>5, PoolStarts DEF Restock
<1>5. ASSUME NEW w \in Workers, CollectInfo(w) PROVE PoolStep
  BY <1>5, PoolUnchanged DEF CollectInfo, AnswerInfo
<1>6. CASE StartupFails
  BY <1>6, PoolUnchanged DEF StartupFails, StartWorkerFails, StopWorkersByPid
<1>7. CASE StartFailed
  <2>1. CASE Open'
    BY <1>7, <2>1, PoolUnchanged DEF StartFailed, ReplyToStart
  <2>2. CASE ~Open'
    BY <1>7, <2>2, PoolCloses DEF StartFailed, ReplyToStart
  <2> QED
    BY <2>1, <2>2
<1>8. CASE EnterLoop
  <2>1. CASE active
    BY <1>8, <2>1, PoolUnchanged DEF EnterLoop
  <2>2. CASE ~active
    BY <1>8, <2>2, PoolCloses DEF EnterLoop
  <2> QED
    BY <2>1, <2>2
<1>9. CASE LeaveLoop
  BY <1>9, PoolUnchanged DEF LeaveLoop, StopWorkersByPid
<1>10. CASE Terminated
  BY <1>10, PoolUnchanged DEF Terminated, ReplyToStart, StoppersDone
<1>11. CASE CleanWorkerReference
  BY <1>11, PoolUnchanged DEF CleanWorkerReference, Receive, CountExit, ForgetWorker
<1>12. CASE Set
  <2>1. Head(commands) \in Messages /\ Head(commands).type = "set"
    BY <1>12, ReceiveType DEF Set
  <2>2. Head(commands).value \in Targets
    BY <2>1 DEF Messages
  <2> QED
    BY <1>12, <2>2, PoolResizes DEF Set, Receive
<1>13. CASE Stop
  BY <1>13, PoolCloses DEF Stop, Receive, StopWorkersByPid
<1>14. ASSUME NEW t, AskWorkers(t) PROVE PoolStep
  BY <1>14, PoolUnchanged DEF AskWorkers, Receive
<1>15. CASE Replied
  <2>1. CASE after = "stopped"
    BY <1>15, <2>1, PoolConfirms DEF Replied
  <2>2. CASE after # "stopped" /\ (Open' <=> Open)
    BY <1>15, <2>2, PoolUnchanged DEF Replied
  <2>3. CASE after # "stopped" /\ Open /\ ~Open'
    BY <1>15, <2>3, PoolCloses DEF Replied
  <2>4. Open' => Open
    BY <1>15 DEF Replied
  <2> QED
    BY <2>1, <2>2, <2>3, <2>4
<1>16. CASE RestockFails
  BY <1>16, PoolUnchanged DEF RestockFails, BelowCardinality, StartWorkerFails
<1>17. CASE Restored
  BY <1>17, PoolUnchanged DEF Restored
<1>18. CASE AtCardinality
  BY <1>18, PoolUnchanged DEF AtCardinality
<1>19. CASE StopExtraWorkers
  BY <1>19, PoolUnchanged DEF StopExtraWorkers, StopWorkersByPid
<1>20. CASE SendInfo
  BY <1>20, PoolUnchanged DEF SendInfo, TakeInfo
<1>21. CASE DeliverKeepAlive
  BY <1>21, PoolUnchanged DEF DeliverKeepAlive, TakeKeepAlive
<1>22. CASE DropKeepAliveChannel
  BY <1>22, PoolUnchanged DEF DropKeepAliveChannel
<1>23. ASSUME NEW p \in Pids, KeepWorkerAlive(p) PROVE PoolStep
  BY <1>23, PoolUnchanged DEF KeepWorkerAlive
<1>24. CASE UNCHANGED <<proc, active, tpc, after, cardinality, stopAnswered>>
  BY <1>24, PoolUnchanged
<1>25. ASSUME NEW w \in Workers,
              (TakeExit(w) /\ UNCHANGED taskVars) \/
              (Forward(w) /\ UNCHANGED taskVars) \/
              (StallTick(w) /\ UNCHANGED taskVars) \/
              (TakeClosed(w) /\ UNCHANGED taskVars) \/
              (GraceExpires(w) /\ UNCHANGED taskVars) \/
              (Feedback(w) /\ UNCHANGED taskVars) \/
              (Reap(w) /\ UNCHANGED taskVars) \/
              (Elapse(w) /\ UNCHANGED taskVars) \/ SendStop(w) \/
              AnswerStop(w) \/ EmitKeepAlive(w)
      PROVE  PoolStep
  <2>1. UNCHANGED <<proc, active, tpc, after, cardinality, stopAnswered>>
    BY <1>25
       DEF TakeExit, Forward, StallTick, BeginStop, SendSignal, TakeClosed,
           GraceExpires, Feedback, Reap, Elapse, SendStop, AnswerStop, StopTakesExit,
           EmitKeepAlive
  <2> QED
    BY <2>1, <1>24
<1>26. CASE Environment
  BY <1>26, <1>24 DEF Environment, Request, SentToAll, Outage, OutageEnds
<1>27. CASE Maintained \/ Stopped \/ BroadcastTimesOut
  BY <1>27, PoolUnchanged DEF Maintained, Stopped, BroadcastTimesOut
<1>28. ASSUME NEW w \in Workers, AnswerOnClosed(w) PROVE PoolStep
  <2>1. /\ UNCHANGED <<proc, cardinality, stopAnswered>>
        /\ Open' => Open
    BY <1>28 DEF AnswerOnClosed
  <2>2. CASE Open'
    BY <2>1, <2>2, PoolUnchanged
  <2>3. CASE ~Open'
    BY <2>1, <2>3, PoolUnchanged, PoolCloses
  <2> QED
    BY <2>2, <2>3
<1> QED
  BY <1>1, <1>2, <1>3, <1>4, <1>5, <1>6, <1>7, <1>8, <1>9, <1>10, <1>11, <1>12,
     <1>13, <1>14, <1>15, <1>16, <1>17, <1>18, <1>19, <1>20, <1>21, <1>22, <1>23,
     <1>24, <1>25, <1>26, <1>27, <1>28
     DEF Next, TaskStep, TakeCommand, Status, ListWorkers, WorkerStep, LoopStep,
     ProcessStep

\* With pids of their own, the task implements the abstract pool: it never starts
\* a process when enough of them run or after it took a stop command, and
\* confirms the stop only when none is left.
THEOREM PoolImplemented ==
  ASSUME NoPidReuse
  PROVE  Spec => ImplementsPool
<1>1. Init => Pool!Init
  <2>1. Init => Live = {}
    BY DEF Init, WorkerInit, Live
  <2>2. Init => {w \in Workers : proc[w] = "none"} = Workers
    BY DEF Init, WorkerInit
  <2>3. Init => /\ cardinality = InitialCardinality
                /\ (active \/ tpc = "start" \/ after = "startfail") = TRUE
                /\ stopAnswered = FALSE
    BY DEF Init
  <2> QED
    BY <2>1, <2>2, <2>3, Zenon DEF Pool!Init
<1>2. TypeOK /\ AliveTracked /\ StopInv /\ StartInv /\ [Next]_vars
      => [Pool!Next]_(Pool!poolState)
  <2>1. CASE Next
    BY <2>1, StepsOfThePool DEF PoolStep
  <2>2. CASE UNCHANGED vars
    <3>1. UNCHANGED <<proc, cardinality, stopAnswered>> /\ (Open' <=> Open)
      BY <2>2 DEF vars, workerVars, taskVars, controlVars, poolVars, requestVars, historyVars, Open
    <3> QED
      BY <3>1, PoolUnchanged DEF PoolStep, Pool!poolState, Pool!Next
  <2> QED
    BY <2>1, <2>2
<1> QED
  BY <1>1, <1>2, TypeCorrect, NoneForgotten, StopsCovered, StartupCounted, PTL
     DEF Spec, ImplementsPool, Pool!Spec

=============================================================================
