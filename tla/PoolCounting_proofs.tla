------------------------ MODULE PoolCounting_proofs ------------------------
(***************************************************************************)
(* What TaskManager counts, for any number of workers, any targets and any *)
(* of the bounds: each exit is counted once, pid reuse included, and       *)
(* without it a running task is never left with too few workers.           *)
(***************************************************************************)
EXTENDS PoolSafety_proofs

USE NoneAssumption, PidAssumption, CardinalityAssumption, RequestsAssumption

-----------------------------------------------------------------------------
(* Reports on the channel *)

ReportsIn(q) == {i \in 1..Len(q) : q[i].type = "stoppedworker"}

\* Reports can be counted.
LEMMA ReportsFinite ==
  ASSUME NEW q \in Seq(Messages)
  PROVE  IsFiniteSet(ReportsIn(q)) /\ Cardinality(ReportsIn(q)) \in Nat
<1>1. IsFiniteSet(1..Len(q))
  BY FS_Interval
<1> QED
  BY <1>1, FS_Subset, FS_CardinalityType DEF ReportsIn

\* A report put at the end of the channel adds one, another message none.
LEMMA ReportsAppend ==
  ASSUME NEW q \in Seq(Messages), NEW m \in Messages
  PROVE  Cardinality(ReportsIn(Append(q, m))) =
           Cardinality(ReportsIn(q)) + IF m.type = "stoppedworker" THEN 1 ELSE 0
<1> DEFINE n == Len(q) + 1
<1>1. /\ Len(Append(q, m)) = n
      /\ \A i \in 1..Len(q) : Append(q, m)[i] = q[i]
      /\ Append(q, m)[n] = m
  BY AppendElements
<1>2. \A i : i \in 1..n <=> i \in 1..Len(q) \/ i = n
  OBVIOUS
<1>3. n \notin ReportsIn(q)
  BY DEF ReportsIn
<1>4. CASE m.type = "stoppedworker"
  <2>1. ReportsIn(Append(q, m)) = ReportsIn(q) \cup {n}
    BY <1>1, <1>2, <1>4, Zenon DEF ReportsIn
  <2>2. Cardinality(ReportsIn(q) \cup {n}) = Cardinality(ReportsIn(q)) + 1
    BY <1>3, ReportsFinite, FS_AddElement, Zenon
  <2> QED
    BY <1>4, <2>1, <2>2
<1>5. CASE m.type # "stoppedworker"
  <2>1. ReportsIn(Append(q, m)) = ReportsIn(q)
    BY <1>1, <1>2, <1>5, Zenon DEF ReportsIn
  <2> QED
    BY <1>5, <2>1, ReportsFinite
<1> QED
  BY <1>4, <1>5

\* A report taken from the head of the channel is one less, another message none.
LEMMA ReportsTail ==
  ASSUME NEW q \in Seq(Messages), q # << >>
  PROVE  Cardinality(ReportsIn(q)) =
           Cardinality(ReportsIn(Tail(q))) + IF Head(q).type = "stoppedworker" THEN 1 ELSE 0
<1> DEFINE R == ReportsIn(Tail(q))
           S == ReportsIn(q) \ {1}
           f == [i \in R |-> i + 1]
<1>1. /\ Tail(q) \in Seq(Messages) /\ Len(Tail(q)) = Len(q) - 1 /\ Len(q) \in Nat \ {0}
      /\ \A i \in 1..Len(q) - 1 : Tail(q)[i] = q[i + 1]
      /\ Head(q) = q[1]
  OBVIOUS
<1>2. R \subseteq Nat
  BY <1>1 DEF ReportsIn
<1>3. \A i \in R : i + 1 \in S
  BY <1>1 DEF ReportsIn
<1>4. \A j \in S : j - 1 \in R /\ j \in Nat
  BY <1>1 DEF ReportsIn
<1>5. f \in Bijection(R, S)
  <2>1. f \in [R -> S]
    BY <1>3
  <2>2. \A a, b \in R : f[a] = f[b] => a = b
    BY <1>2
  <2>3. \A j \in S : \E i \in R : f[i] = j
    BY <1>4
  <2> QED
    BY <2>1, <2>2, <2>3 DEF Bijection, Injection, Surjection, IsInjective
<1>6. Cardinality(S) = Cardinality(R)
  BY <1>1, <1>5, ReportsFinite, FS_Bijection, Zenon DEF ExistsBijection
<1>7. Cardinality(S) = IF 1 \in ReportsIn(q) THEN Cardinality(ReportsIn(q)) - 1
                                             ELSE Cardinality(ReportsIn(q))
  BY ReportsFinite, FS_RemoveElement, Zenon
<1>8. 1 \in ReportsIn(q) <=> Head(q).type = "stoppedworker"
  BY <1>1 DEF ReportsIn
<1>9. Cardinality(R) \in Nat /\ Cardinality(ReportsIn(q)) \in Nat
  BY <1>1, ReportsFinite, Zenon
<1> QED
  BY <1>6, <1>7, <1>8, <1>9

-----------------------------------------------------------------------------
(* Exits are counted once *)

\* The workers whose exit message was taken.
Told == {w \in Workers : waiter[w] = "done"}

LEMMA ToldFinite ==
  ASSUME TypeOK
  PROVE  /\ IsFiniteSet(Told) /\ Cardinality(Told) \in Nat
         /\ IsFiniteSet(Reporting) /\ Cardinality(Reporting) \in Nat
         /\ Cardinality(ReportsIn(commands)) \in Nat
         /\ nStoppedWorkers \in Nat
<1>1. Told \subseteq Workers /\ Reporting \subseteq Workers
  BY DEF Told, Reporting
<1> QED
  BY <1>1, WorkersAssumption, FS_Subset, FS_CardinalityType, ReportsFinite DEF TypeOK

\* The same statement over the named sets.
Conserved ==
  Cardinality(Told) =
    nStoppedWorkers + Cardinality(ReportsIn(commands)) + Cardinality(Reporting)

LEMMA SameCount ==
  /\ ExitsConserved <=> Conserved
  /\ ExitsConserved' <=> Conserved'
BY DEF ExitsConserved, Conserved, Told, Reports, ReportsIn

\* A worker takes its exit message: it has it in hand.
LEMMA ExitTaken ==
  ASSUME TypeOK, ExitInv, ExitsConserved, NEW w \in Workers,
         waiter[w] = "send", waiter' = [waiter EXCEPT ![w] = "done"],
         \E s \in {"forward", "feedback"} : run' = [run EXCEPT ![w] = s],
         UNCHANGED <<commands, nStoppedWorkers>>
  PROVE  ExitsConserved'
<1>1. w \notin Told /\ w \notin Reporting
  BY DEF ExitInv, Told, Reporting
<1>2. Told' = Told \cup {w}
  BY DEF Told, TypeOK, WorkerTypeOK
<1>3. Reporting' = Reporting \cup {w}
  BY DEF Reporting, TypeOK, WorkerTypeOK
<1>4. /\ Cardinality(Told') = Cardinality(Told) + 1
      /\ Cardinality(Reporting') = Cardinality(Reporting) + 1
  BY <1>1, <1>2, <1>3, ToldFinite, FS_AddElement
<1>5. ReportsIn(commands)' = ReportsIn(commands)
  BY DEF ReportsIn
<1> QED
  BY <1>4, <1>5, SameCount, ToldFinite DEF Conserved

\* The report goes from its hand to the channel.
LEMMA ExitReported ==
  ASSUME TypeOK, ExitsConserved, NEW w \in Workers, NEW m \in Messages,
         run[w] \in {"forward", "feedback"}, m.type = "stoppedworker",
         commands' = Append(commands, m),
         \E s \in {"select", "ended"} : run' = [run EXCEPT ![w] = s],
         UNCHANGED <<waiter, nStoppedWorkers>>
  PROVE  ExitsConserved'
<1>1. w \in Reporting
  BY DEF Reporting
<1>2. Told' = Told
  BY DEF Told
<1>3. Reporting' = Reporting \ {w}
  BY DEF Reporting, TypeOK, WorkerTypeOK
<1>4. Cardinality(Reporting') = Cardinality(Reporting) - 1
  BY <1>1, <1>3, ToldFinite, FS_RemoveElement
<1>5. Cardinality(ReportsIn(commands))' = Cardinality(ReportsIn(commands)) + 1
  BY ReportsAppend DEF TypeOK
<1> QED
  BY <1>2, <1>4, <1>5, SameCount, ToldFinite DEF Conserved

\* The task takes a command, and counts it if it is a report.
LEMMA ExitCounted ==
  ASSUME TypeOK, ExitsConserved, commands # << >>, commands' = Tail(commands),
         nStoppedWorkers' =
           nStoppedWorkers + IF Head(commands).type = "stoppedworker" THEN 1 ELSE 0,
         UNCHANGED <<waiter, run>>
  PROVE  ExitsConserved'
<1>1. Told' = Told /\ Reporting' = Reporting
  BY DEF Told, Reporting
<1>2. Cardinality(ReportsIn(commands)) =
        Cardinality(ReportsIn(commands))'
          + IF Head(commands).type = "stoppedworker" THEN 1 ELSE 0
  BY ReportsTail DEF TypeOK
<1>3. Tail(commands) \in Seq(Messages)
  BY DEF TypeOK
<1>4. Cardinality(ReportsIn(commands))' \in Nat
  BY <1>3, ReportsFinite
<1> QED
  BY <1>1, <1>2, <1>4, SameCount, ToldFinite DEF Conserved

\* The other steps of a worker move it between states without a report in hand.
LEMMA ExitUntouched ==
  ASSUME TypeOK, ExitInv, ExitsConserved,
         \/ UNCHANGED <<run, waiter>>
         \/ \E w \in Workers :
              /\ run[w] \in {"none", "select", "info", "stopping"}
              /\ \E s \in {"select", "info", "stopping", "killing"} : run' = [run EXCEPT ![w] = s]
              /\ \/ UNCHANGED waiter
                 \/ proc[w] = "none" /\ waiter' = [waiter EXCEPT ![w] = "wait"]
         \/ \E w \in Workers :
              /\ UNCHANGED run
              /\ waiter[w] = "wait" /\ waiter' = [waiter EXCEPT ![w] = "send"],
         UNCHANGED <<commands, nStoppedWorkers>>
  PROVE  ExitsConserved'
<1>1. Told' = Told
  BY DEF Told, ExitInv, TypeOK, WorkerTypeOK
<1>2. Reporting' = Reporting
  BY DEF Reporting, ExitInv, TypeOK, WorkerTypeOK
<1>3. ReportsIn(commands)' = ReportsIn(commands)
  BY DEF ReportsIn
<1> QED
  BY <1>1, <1>2, <1>3, SameCount DEF Conserved

\* Taking an exit, reporting it and counting it are the only steps that move one.
LEMMA CountStep ==
  ASSUME TypeOK, ExitInv, ExitsConserved, Next
  PROVE  ExitsConserved'
<1> USE DEF workerVars, taskVars, controlVars, poolVars, counterVars, startVars,
            requestVars, historyVars
<1>1. ASSUME NEW w \in Workers, TakeExit(w) /\ UNCHANGED taskVars PROVE ExitsConserved'
  BY <1>1, ExitTaken DEF TakeExit
<1>2. ASSUME NEW w \in Workers, AnswerStop(w) PROVE ExitsConserved'
  BY <1>2, ExitTaken DEF AnswerStop, StopTakesExit
<1>3. ASSUME NEW w \in Workers, Forward(w) /\ UNCHANGED taskVars PROVE ExitsConserved'
  <2>1. StoppedWorker(w, FALSE) \in Messages /\ StoppedWorker(w, FALSE).type = "stoppedworker"
    BY DEF StoppedWorker, Messages
  <2> QED
    BY <1>3, <2>1, ExitReported, Zenon DEF Forward
<1>4. ASSUME NEW w \in Workers, Feedback(w) /\ UNCHANGED taskVars PROVE ExitsConserved'
  <2>1. /\ StoppedWorker(w, stalled[w]) \in Messages
        /\ StoppedWorker(w, stalled[w]).type = "stoppedworker"
    BY DEF StoppedWorker, Messages, TypeOK, WorkerTypeOK
  <2>2. (IF caller[w] = "closed" THEN "ended" ELSE "select") \in {"select", "ended"}
    OBVIOUS
  <2>3. \E s \in {"select", "ended"} : run' = [run EXCEPT ![w] = s]
    BY <1>4, <2>2, Zenon DEF Feedback
  <2> QED
    BY <1>4, <2>1, <2>3, ExitReported, Zenon DEF Feedback
<1>5. CASE CleanWorkerReference
  <2>1. /\ commands # << >> /\ commands' = Tail(commands)
        /\ Head(commands).type = "stoppedworker"
        /\ nStoppedWorkers' = nStoppedWorkers + 1
        /\ UNCHANGED <<waiter, run>>
    BY <1>5 DEF CleanWorkerReference, Receive, CountExit
  <2> QED
    BY <2>1, ExitCounted
<1>6. ASSUME NEW t \in {"set", "stop", "status", "listworkers"}, Receive(t),
             UNCHANGED <<waiter, run, nStoppedWorkers>>
      PROVE  ExitsConserved'
  <2>1. /\ commands # << >> /\ commands' = Tail(commands)
        /\ Head(commands).type # "stoppedworker"
    BY <1>6 DEF Receive
  <2>2. nStoppedWorkers' =
          nStoppedWorkers + IF Head(commands).type = "stoppedworker" THEN 1 ELSE 0
    BY <1>6, <2>1 DEF TypeOK
  <2> QED
    BY <1>6, <2>1, <2>2, ExitCounted, Zenon
<1>7. CASE Set \/ Stop \/ Status \/ ListWorkers
  BY <1>6, <1>7, Zenon
     DEF Set, Stop, Status, ListWorkers, AskWorkers, StopWorkersByPid
<1>8. CASE Request
  <2>1. PICK c \in ForwardedCommands : commands' = Append(commands, c)
    BY <1>8, Zenon DEF Request
  <2>2. c \in Messages /\ c.type # "stoppedworker"
    BY DEF ForwardedCommands, Command, SetCommand, Messages
  <2>3. UNCHANGED <<waiter, run, nStoppedWorkers>>
    BY <1>8 DEF Request
  <2>4. Cardinality(ReportsIn(commands))' = Cardinality(ReportsIn(commands))
    BY <2>1, <2>2, ReportsAppend, ToldFinite DEF TypeOK
  <2>5. Told' = Told /\ Reporting' = Reporting
    BY <2>3 DEF Told, Reporting
  <2> QED
    BY <2>3, <2>4, <2>5, SameCount DEF Conserved
<1>9. ASSUME NEW w \in Workers, StartupStarts(w) \/ Restock(w) PROVE ExitsConserved'
  <2>1. /\ UNCHANGED <<commands, nStoppedWorkers>> /\ Spawn(w)
    BY <1>9 DEF StartupStarts, Restock, StartWorker
  <2>2. proc[w] = "none" /\ run' = [run EXCEPT ![w] = "select"]
        /\ waiter' = [waiter EXCEPT ![w] = "wait"]
    BY <2>1 DEF Spawn, NextFresh, Fresh
  <2>3. Told' = Told /\ Reporting' = Reporting
    BY <2>2 DEF Told, Reporting, ExitInv, TypeOK, WorkerTypeOK
  <2> QED
    BY <2>1, <2>3, SameCount DEF Conserved, ReportsIn
<1>10. ASSUME NEW w \in Workers, Reap(w) /\ UNCHANGED taskVars PROVE ExitsConserved'
  BY <1>10, ExitUntouched, Zenon DEF Reap
<1>11. ASSUME NEW w \in Workers,
              NEW s \in {"select", "info", "stopping", "killing"},
              run[w] \in {"select", "info", "stopping"}, run' = [run EXCEPT ![w] = s],
              UNCHANGED <<waiter, commands, nStoppedWorkers>>
       PROVE  ExitsConserved'
  <2>1. run[w] \in {"none", "select", "info", "stopping"}
    BY <1>11
  <2> QED
    BY <1>11, <2>1, ExitUntouched, Zenon
<1>12. ASSUME NEW w \in Workers,
              \/ (StallTick(w) \/ TakeClosed(w)) /\ UNCHANGED taskVars
              \/ SendStop(w)
       PROVE  ExitsConserved'
  BY <1>11, <1>12 DEF StallTick, TakeClosed, SendStop, BeginStop
<1>13. ASSUME NEW w \in Workers,
              (GraceExpires(w) /\ UNCHANGED taskVars) \/ CollectInfo(w)
       PROVE  ExitsConserved'
  BY <1>11, <1>13 DEF GraceExpires, CollectInfo, AnswerInfo
<1>14. CASE SendInfo
  <2>1. run[current] = "select" /\ run' = [run EXCEPT ![current] = "info"]
        /\ UNCHANGED <<waiter, commands, nStoppedWorkers>>
    BY <1>14 DEF SendInfo, TakeInfo
  <2>2. CASE current \in Workers
    BY <1>11, <2>1, <2>2
  <2>3. CASE current \notin Workers
    <3>1. UNCHANGED run
      BY <2>1, <2>3 DEF TypeOK, WorkerTypeOK
    <3> QED
      BY <2>1, <3>1, ExitUntouched
  <2> QED
    BY <2>2, <2>3
<1>15. CASE UNCHANGED <<run, waiter, commands, nStoppedWorkers>>
  BY <1>15, ExitUntouched
<1>16. ASSUME NEW w \in Workers,
              \/ (ExitAlone(w) \/ ExitOnSignal(w) \/ Elapse(w)) /\ UNCHANGED taskVars
              \/ EmitKeepAlive(w) \/ AnswerOnClosed(w)
       PROVE  ExitsConserved'
  BY <1>15, <1>16 DEF ExitAlone, ExitOnSignal, Elapse, EmitKeepAlive,
     AnswerOnClosed
<1>17. ASSUME NEW p \in Pids, KeepWorkerAlive(p) PROVE ExitsConserved'
  BY <1>15, <1>17 DEF KeepWorkerAlive
<1>18. CASE StartupFails \/ StartFailed \/ EnterLoop \/ LeaveLoop \/ Terminated
            \/ Maintained \/ Stopped \/ Replied \/ BroadcastTimesOut \/ RestockFails \/ Restored \/ AtCardinality \/ StopExtraWorkers
            \/ DeliverKeepAlive \/ DropKeepAliveChannel
  BY <1>15, <1>18
     DEF StartupFails, StartWorkerFails, StopWorkersByPid, StartFailed, ReplyToStart,
         EnterLoop, LeaveLoop, Terminated, Maintained, Stopped, Replied, BroadcastTimesOut,
         RestockFails, Restored, AtCardinality,
         StopExtraWorkers, DeliverKeepAlive, TakeKeepAlive, DropKeepAliveChannel
<1>19. CASE SentToAll \/ Outage \/ OutageEnds
  BY <1>15, <1>19 DEF SentToAll, Outage, OutageEnds
<1> QED
  BY <1>1, <1>2, <1>3, <1>4, <1>5, <1>7, <1>8, <1>9, <1>10, <1>12, <1>13, <1>14, <1>16,
     <1>17, <1>18, <1>19
     DEF Next, Environment, TaskStep, TakeCommand, WorkerStep, LoopStep, ProcessStep

\* Every exit is counted in the status exactly once, or is on its way to be, pid
\* reuse included.
THEOREM EveryExitCounted == Spec => []ExitsConserved
<1>1. Init => ExitsConserved
  <2> SUFFICES ASSUME Init PROVE Conserved
    BY SameCount
  <2>1. Told = {} /\ Reporting = {} /\ ReportsIn(commands) = {} /\ nStoppedWorkers = 0
    BY DEF Init, WorkerInit, Told, Reporting, ReportsIn
  <2> QED
    BY <2>1, FS_EmptySet DEF Conserved
<1>2. TypeOK /\ ExitInv /\ ExitsConserved /\ [Next]_vars => ExitsConserved'
  <2>1. CASE Next
    BY <2>1, CountStep
  <2>2. CASE UNCHANGED vars
    BY <2>2 DEF vars, workerVars, taskVars, counterVars, ExitsConserved, Reports, Reporting
  <2> QED
    BY <2>1, <2>2
<1> QED
  BY <1>1, <1>2, TypeCorrect, ExitsReaped, PTL DEF Spec

-----------------------------------------------------------------------------
(* A running task is not short of workers *)

\* A running task has as many workers in its map as it started, or as it should
\* have, except while it is starting some and after it gave up.
ShortInv ==
  /\ tpc = "stopwait" /\ after # "maintained" => ~active
  /\ active /\ tpc = "start" => started <= NumTracked
  /\ active /\ tpc \notin {"start", "restore", "maintain", "panic"} /\ ~givenUp =>
       cardinality <= NumTracked

LEMMA TrackedFinite == IsFiniteSet(Tracked) /\ NumTracked \in Nat
BY WorkersAssumption, FS_Subset, FS_CardinalityType DEF Tracked, NumTracked

\* With pids of their own a new worker takes no other's place.
LEMMA TrackedGrows ==
  ASSUME TypeOK, ChannelInv, NoPidReuse, NEW w \in Workers, StartWorker(w)
  PROVE  NumTracked' = NumTracked + 1
<1>1. proc[w] = "none" /\ workerChannels' = [workerChannels EXCEPT ![PidOf[w]] = w]
  BY DEF StartWorker, Spawn, NextFresh, Fresh
<1>2. w \notin Tracked
  BY <1>1 DEF ChannelInv, Tracked
<1>3. Tracked' = Tracked \cup {w}
  BY <1>1 DEF Tracked, NoPidReuse, TypeOK
<1> QED
  BY <1>2, <1>3, TrackedFinite, FS_AddElement DEF NumTracked

\* A step that leaves the workers alone, and neither goes into a stop nor ends the
\* starting of workers.
LEMMA ShortUntouched ==
  ASSUME ShortInv,
         \/ UNCHANGED <<tpc, after>>
         \/ /\ tpc \notin {"start", "restore", "maintain", "panic"}
            /\ tpc' \notin {"start", "stopwait"}
         \/ tpc' = "panic",
         UNCHANGED <<active, workerChannels, cardinality, started, givenUp>>
  PROVE  ShortInv'
<1>1. NumTracked' = NumTracked
  BY DEF NumTracked, Tracked
<1> QED
  BY <1>1 DEF ShortInv

\* The task leaves MaintainWorkerCardinality() with enough workers, or gives up.
LEMMA ShortStep ==
  ASSUME TypeOK, ChannelInv, NoPidReuse, ShortInv, Next
  PROVE  ShortInv'
<1> USE DEF workerVars, taskVars, controlVars, poolVars, counterVars, startVars,
            requestVars, historyVars
<1>1. cardinality \in Nat /\ started \in Nat /\ tpc # "panic"
  BY DEF TypeOK, Next
<1>2. ASSUME NEW w \in Workers,
             \/ (LoopStep(w) \/ ProcessStep(w)) /\ UNCHANGED taskVars
             \/ SendStop(w) \/ AnswerStop(w) \/ EmitKeepAlive(w) \/ AnswerOnClosed(w)
      PROVE  ShortInv'
  BY <1>2, ShortUntouched DEF SendStop, AnswerStop, EmitKeepAlive, AnswerOnClosed
<1>3. CASE Environment
  BY <1>3, ShortUntouched DEF Environment, Request, SentToAll, Outage, OutageEnds
<1>4. ASSUME NEW w \in Workers, StartupStarts(w) PROVE ShortInv'
  BY <1>1, <1>4, TrackedGrows, TrackedFinite DEF StartupStarts, ShortInv
<1>5. ASSUME NEW w \in Workers, Restock(w) PROVE ShortInv'
  BY <1>5 DEF Restock, BelowCardinality, ShortInv
<1>6. CASE CleanWorkerReference
  BY <1>6 DEF CleanWorkerReference, Receive, ShortInv
<1>7. CASE Set
  BY <1>7 DEF Set, Receive, ShortInv
<1>8. CASE Stop
  BY <1>8 DEF Stop, Receive, StopWorkersByPid, ShortInv
<1>9. ASSUME NEW t, AskWorkers(t) PROVE ShortInv'
  BY <1>9, ShortUntouched DEF AskWorkers, Receive
<1>10. CASE StartupFails \/ LeaveLoop
  BY <1>10 DEF StartupFails, LeaveLoop, StartWorkerFails, StopWorkersByPid, ShortInv
<1>11. CASE StartFailed \/ Terminated
  BY <1>11 DEF StartFailed, Terminated, ReplyToStart, ShortInv
<1>12. CASE EnterLoop
  <2>1. NumTracked' = NumTracked
    BY <1>12 DEF EnterLoop, NumTracked, Tracked
  <2> QED
    BY <1>1, <1>12, <2>1, TrackedFinite DEF EnterLoop, ShortInv
<1>13. CASE Restored \/ RestockFails
  BY <1>13 DEF Restored, RestockFails, BelowCardinality, ShortInv
<1>14. CASE AtCardinality \/ StopExtraWorkers
  <2>1. NumTracked' = NumTracked
    BY <1>14 DEF AtCardinality, StopExtraWorkers, NumTracked, Tracked
  <2> QED
    BY <1>1, <1>14, <2>1, TrackedFinite
       DEF AtCardinality, StopExtraWorkers, StopWorkersByPid, ShortInv
<1>15. CASE Maintained \/ Stopped \/ Replied \/ BroadcastTimesOut
  BY <1>15, ShortUntouched DEF Maintained, Stopped, Replied, BroadcastTimesOut
<1>16. CASE SendInfo \/ DeliverKeepAlive \/ DropKeepAliveChannel
  BY <1>16, ShortUntouched DEF SendInfo, DeliverKeepAlive, DropKeepAliveChannel
<1>17. ASSUME NEW w \in Workers, CollectInfo(w) PROVE ShortInv'
  BY <1>17, ShortUntouched DEF CollectInfo
<1>18. ASSUME NEW p \in Pids, KeepWorkerAlive(p) PROVE ShortInv'
  BY <1>18, ShortUntouched DEF KeepWorkerAlive
<1> QED
  BY <1>2, <1>3, <1>4, <1>5, <1>6, <1>7, <1>8, <1>9, <1>10, <1>11, <1>12, <1>13, <1>14,
     <1>15, <1>16, <1>17, <1>18
     DEF Next, TaskStep, TakeCommand, Status, ListWorkers, WorkerStep, LoopStep, ProcessStep

\* With pids of their own: whatever dies, is resized or cannot be started, a running
\* task only comes back to its loop with too few workers in its map after the error
\* of MaintainWorkerCardinality() that its callers ignore.
THEOREM RunningTaskIsFull ==
  ASSUME NoPidReuse
  PROVE  Spec => []NeverShort
<1>1. Init => ShortInv
  <2> SUFFICES ASSUME Init PROVE ShortInv
    OBVIOUS
  <2>1. tpc = "start" /\ started = 0
    BY DEF Init
  <2> QED
    BY <2>1, TrackedFinite DEF ShortInv
<1>2. TypeOK /\ ChannelInv /\ ShortInv /\ [Next]_vars => ShortInv'
  <2>1. CASE Next
    BY <2>1, ShortStep
  <2>2. CASE UNCHANGED vars
    BY <2>2, ShortUntouched DEF vars, taskVars, controlVars, poolVars, startVars, historyVars
  <2> QED
    BY <2>1, <2>2
<1>3. TypeOK /\ ShortInv => NeverShort
  BY TrackedFinite DEF ShortInv, NeverShort, TypeOK
<1> QED
  BY <1>1, <1>2, <1>3, TypeCorrect, ChannelsMapped, PTL DEF Spec

=============================================================================
