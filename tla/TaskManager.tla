---------------------------- MODULE TaskManager ----------------------------
(***************************************************************************)
(* taskmanager/taskmanager.go: one execution of TaskManager.Start(), the   *)
(* goroutine that keeps a pool of workers at the wanted cardinality, with  *)
(* the workers of module Worker, the goroutines of StopWorkersByPid(), the *)
(* commands forwarded by the Runner and the keep-alives of the processes.  *)
(*                                                                         *)
(* A channel operation of this goroutine that meets a worker's loop on an  *)
(* unbuffered channel is one action of both.  A cardinality below zero     *)
(* behaves as zero.                                                        *)
(***************************************************************************)
EXTENDS Worker

CONSTANTS
  None,                \* no worker: a missing key of a map
  InitialCardinality,  \* task.Cardinality when Start() is called
  Targets,             \* cardinalities a set command may ask for
  Requests,            \* the types of command the Runner forwards
  Chatty,              \* the workers that send keep-alives
  MaxRequests,         \* bound: commands forwarded by the Runner
  MaxOutages           \* bound: periods in which exec.Cmd.Start() fails

ASSUME NoneAssumption    == None \notin Workers
ASSUME CardinalityAssumption ==
  InitialCardinality \in Nat /\ Targets \subseteq Nat
ASSUME RequestsAssumption == Requests \subseteq {"status", "listworkers", "set", "stop"}
ASSUME ChattyAssumption   == Chatty \subseteq Workers
ASSUME MaximaAssumption   == MaxRequests \in Nat /\ MaxOutages \in Nat

VARIABLES
  tpc,                \* where the goroutine of Start() is, see TaskStates
  after,              \* what follows StopWorkersByPid(), see Continuations
  current,            \* the worker whose channel the goroutine sends on
  todo,               \* Broadcast(): workers still to be told, then to answer
  active,             \* task.Active
  cardinality,        \* task.Cardinality
  workerChannels,     \* the worker whose CommandsChannel is under each pid
  keepaliveChannels,  \* the worker whose keepAliveChannel is under each pid
  nStoppedWorkers,
  nStalledWorkers,
  stopper,            \* StopWorker(): "none", "send" the stop, "wait" for the reply
  keepalives,         \* pids with a keep-alive on its way to the task
  started,            \* the index i of the loop of Start()
  startReply,         \* the reply channel of the start command: "open", "closed"
  failing,            \* the command cannot be executed at present
  outages,            \* how often that has been so
  sent,               \* commands forwarded so far
  runnerActive,       \* the Runner's own copy of Active
  sending,            \* the Runner is sending the last one to other tasks still
  stopAnswered,       \* history: a stop command was answered
  timedOut,           \* history: a Broadcast() of this task timed out
  givenUp             \* history: MaintainWorkerCardinality() last gave up

controlVars == <<tpc, after, current, todo>>
poolVars    == <<active, cardinality, workerChannels, keepaliveChannels>>
counterVars == <<nStoppedWorkers, nStalledWorkers>>
startVars   == <<started, startReply, failing, outages>>
requestVars == <<sent, runnerActive, sending>>
historyVars == <<stopAnswered, timedOut, givenUp>>
taskVars    == <<controlVars, poolVars, counterVars, stopper, keepalives,
                 startVars, requestVars, historyVars>>
vars        == <<workerVars, commands, taskVars>>

(***************************************************************************)
(* "start"     in the loop of Start()                                      *)
(* "loop"      at the head of the loop of run()                            *)
(* "restore"   in restoreCardinality(), called by cleanWorkerReference()   *)
(* "maintain"  in MaintainWorkerCardinality()                              *)
(* "stopwait"  in StopWorkersByPid(), at wg.Wait()                         *)
(* "bsend"     in Broadcast(), telling the workers one after the other     *)
(* "bcollect"  in Broadcast(), collecting their answers                    *)
(* "reply"     in SafeReply(), the answer to a command                     *)
(* "keepalive" in keepWorkerAlive(), sending to the worker                 *)
(* "ended"     Start() has returned                                        *)
(* "panic"     the goroutine panicked, and the manager with it             *)
(***************************************************************************)
TaskStates == {"start", "loop", "restore", "maintain", "stopwait", "bsend",
               "bcollect", "reply", "keepalive", "ended", "panic"}
Continuations == {"none", "maintained", "stopped", "startfail", "final"}

Command(type)   == [type |-> type]
SetCommand(n)   == [type |-> "set", value |-> n]
ForwardedCommands ==
  {Command(t) : t \in Requests \ {"set"}} \cup
  {SetCommand(n) : n \in IF "set" \in Requests THEN Targets ELSE {}}

Tracked == {w \in Workers : workerChannels[PidOf[w]] = w}
NumTracked == Cardinality(Tracked)

Init ==
  /\ WorkerInit
  /\ tpc = "start" /\ after = "none"
  /\ current = None /\ todo = {}
  /\ active = TRUE /\ cardinality = InitialCardinality
  /\ workerChannels    = [p \in Pids |-> None]
  /\ keepaliveChannels = [p \in Pids |-> None]
  /\ nStoppedWorkers = 0 /\ nStalledWorkers = 0
  /\ stopper = [w \in Workers |-> "none"]
  /\ keepalives = {}
  /\ started = 0 /\ startReply = "open" /\ failing = FALSE /\ outages = 0
  /\ sent = 0 /\ runnerActive = TRUE /\ sending = FALSE
  /\ stopAnswered = FALSE /\ timedOut = FALSE /\ givenUp = FALSE

-----------------------------------------------------------------------------
(* StartWorker() and StopWorkersByPid() *)

StartWorker(w) ==
  /\ ~failing
  /\ Spawn(w)
  /\ workerChannels'    = [workerChannels    EXCEPT ![PidOf[w]] = w]
  /\ keepaliveChannels' = [keepaliveChannels EXCEPT ![PidOf[w]] = w]

StartWorkerFails ==
  /\ failing
  /\ UNCHANGED <<workerVars, commands, workerChannels, keepaliveChannels>>

StopWorkersByPid(S, next) ==
  /\ stopper' = [w \in Workers |-> IF w \in S THEN "send" ELSE stopper[w]]
  /\ tpc' = "stopwait"
  /\ after' = next

\* A goroutine of StopWorkersByPid() meets the worker's loop.
SendStop(w) ==
  /\ stopper[w] = "send"
  /\ BeginStop(w, "stop")
  /\ stopper' = [stopper EXCEPT ![w] = "wait"]
  /\ UNCHANGED <<commands, controlVars, poolVars, counterVars, keepalives,
                 startVars, requestVars, historyVars>>

\* The worker's Stop() answers; the goroutine of StopWorker() reads the answer.
AnswerStop(w) ==
  /\ StopTakesExit(w)
  /\ stopper' = [stopper EXCEPT ![w] = IF caller[w] = "stop" THEN "none" ELSE @]
  /\ UNCHANGED <<controlVars, poolVars, counterVars, keepalives, startVars,
                 requestVars, historyVars>>

\* Mutant: the replies of the workers are not waited for.
StopsSent == \A w \in Workers : stopper[w] # "send"

StoppersDone == \A w \in Workers : stopper[w] = "none"

-----------------------------------------------------------------------------
(* Start() *)

StartupStarts(w) ==
  /\ tpc = "start" /\ started < cardinality
  /\ StartWorker(w)
  /\ started' = started + 1
  /\ UNCHANGED <<commands, controlVars, active, cardinality, counterVars,
                 stopper, keepalives, startReply, failing, outages, requestVars,
                 historyVars>>

StartupFails ==
  /\ tpc = "start" /\ started < cardinality
  /\ StartWorkerFails
  /\ active' = FALSE
  /\ StopWorkersByPid(Tracked, "startfail")
  /\ UNCHANGED <<current, todo, cardinality, counterVars, keepalives,
                 startVars, requestVars, historyVars>>

EnterLoop ==
  /\ tpc = "start" /\ started >= cardinality
  /\ tpc' = "loop"
  /\ UNCHANGED <<workerVars, commands, after, current, todo, poolVars,
                 counterVars, stopper, keepalives, startVars, requestVars, historyVars>>

LeaveLoop ==
  /\ tpc = "loop" /\ ~active
  /\ StopWorkersByPid(Tracked, "final")
  /\ UNCHANGED <<workerVars, commands, current, todo, poolVars,
                 counterVars, keepalives, startVars, requestVars, historyVars>>

\* cmd.Fail() and cmd.Success() both send on the reply channel and close it;
\* a send on a closed channel panics and nothing recovers.
ReplyToStart(next, n) ==
  /\ tpc' = IF startReply = "open" THEN next ELSE "panic"
  /\ startReply' = "closed"
  /\ started' = n
  /\ after' = "none"
  /\ UNCHANGED <<workerVars, commands, current, todo, poolVars,
                 counterVars, stopper, keepalives, failing, outages, requestVars,
                 historyVars>>

StartFailed ==
  /\ tpc = "stopwait" /\ after = "startfail" /\ StoppersDone
  /\ ReplyToStart("start", started + 1)

Terminated ==
  /\ tpc = "stopwait" /\ after = "final" /\ StoppersDone
  /\ ReplyToStart("ended", started)

-----------------------------------------------------------------------------
(* RunCommand() *)

Receive(type) ==
  /\ tpc = "loop" /\ active
  /\ commands # << >>
  /\ Head(commands).type = type
  /\ commands' = Tail(commands)

\* Mutant: the counter goes down.
CountDown(m) ==
  /\ nStoppedWorkers' = nStoppedWorkers - 1
  /\ nStalledWorkers' = nStalledWorkers + IF m.stalled THEN 1 ELSE 0

\* Mutant: a stalled worker is not counted as stopped.
CountEither(m) ==
  IF m.stalled
  THEN nStalledWorkers' = nStalledWorkers + 1 /\ UNCHANGED nStoppedWorkers
  ELSE nStoppedWorkers' = nStoppedWorkers + 1 /\ UNCHANGED nStalledWorkers

\* Mutant: the counters come after the close() that may panic.
CountAfterClose(m) ==
  IF workerChannels[PidOf[m.worker]] = None
  THEN UNCHANGED counterVars
  ELSE /\ nStoppedWorkers' = nStoppedWorkers + 1
       /\ nStalledWorkers' = nStalledWorkers + IF m.stalled THEN 1 ELSE 0

\* cleanWorkerReference() counts the exit first.
CountExit(m) ==
  /\ nStoppedWorkers' = nStoppedWorkers + 1
  /\ nStalledWorkers' = nStalledWorkers + IF m.stalled THEN 1 ELSE 0

\* Mutant: the entry of the closed channel is not deleted.
CloseOnly(pid) ==
  /\ cmdClosed' = [w \in Workers |-> cmdClosed[w] \/ w = workerChannels[pid]]
  /\ UNCHANGED <<workerChannels, keepaliveChannels>>

\* Then it closes the channel and deletes the worker.  The close of a missing
\* channel panics; the deferred function drops the keep-alive channel instead.
ForgetWorker(pid) ==
  \/ /\ workerChannels[pid] # None
     /\ cmdClosed' = [cmdClosed EXCEPT ![workerChannels[pid]] = TRUE]
     /\ workerChannels' = [workerChannels EXCEPT ![pid] = None]
     /\ UNCHANGED keepaliveChannels
  \/ /\ workerChannels[pid] = None
     /\ keepaliveChannels' = [keepaliveChannels EXCEPT ![pid] = None]
     /\ UNCHANGED <<cmdClosed, workerChannels>>

CleanWorkerReference ==
  /\ Receive("stoppedworker")
  /\ CountExit(Head(commands))
  /\ ForgetWorker(PidOf[Head(commands).worker])
  /\ tpc' = "restore"
  /\ UNCHANGED <<proc, signal, waiter, run, caller, stale, stalled, after,
                 current, todo, active, cardinality, stopper, keepalives,
                 startVars, requestVars, historyVars>>

\* Mutant: off by one.
AtOrBelowCardinality ==
  /\ tpc = "maintain" \/ (tpc = "restore" /\ active)
  /\ NumTracked <= cardinality

\* Only restoreCardinality() looks at task.Active.
BelowCardinality ==
  /\ tpc = "maintain" \/ (tpc = "restore" /\ active)
  /\ NumTracked < cardinality

\* restoreCardinality() and MaintainWorkerCardinality() start workers alike.
Restock(w) ==
  /\ BelowCardinality
  /\ StartWorker(w)
  /\ UNCHANGED <<commands, controlVars, active, cardinality, counterVars,
                 stopper, keepalives, startVars, requestVars, historyVars>>

\* Mutant: both give up at an error.
RestockGivesUp ==
  /\ BelowCardinality
  /\ StartWorkerFails
  /\ tpc' = "loop"
  /\ givenUp' = (givenUp \/ tpc = "maintain")
  /\ UNCHANGED <<after, current, todo, active, cardinality, counterVars, stopper,
                 keepalives, startVars, requestVars, stopAnswered, timedOut>>

\* Only MaintainWorkerCardinality() gives up at an error, and its callers ignore
\* that; restoreCardinality() tries again at once.
RestockFails ==
  /\ BelowCardinality
  /\ StartWorkerFails
  /\ tpc' = IF tpc = "restore" THEN "restore" ELSE "loop"
  /\ givenUp' = (givenUp \/ tpc = "maintain")
  /\ UNCHANGED <<after, current, todo, active, cardinality, counterVars, stopper,
                 keepalives, startVars, requestVars, stopAnswered, timedOut>>

Restored ==
  /\ tpc = "restore" /\ (active => NumTracked >= cardinality)
  /\ tpc' = "maintain"
  /\ UNCHANGED <<workerVars, commands, after, current, todo, poolVars,
                 counterVars, stopper, keepalives, startVars, requestVars, historyVars>>

AtCardinality ==
  /\ tpc = "maintain" /\ NumTracked = cardinality
  /\ tpc' = "loop"
  /\ givenUp' = FALSE
  /\ UNCHANGED <<workerVars, commands, after, current, todo, poolVars, counterVars,
                 stopper, keepalives, startVars, requestVars, stopAnswered, timedOut>>

\* The extra workers are the first of an iteration over a map: any of them.
StopExtraWorkers ==
  /\ tpc = "maintain" /\ NumTracked > cardinality
  /\ \E S \in SUBSET Tracked :
       /\ Cardinality(S) = NumTracked - cardinality
       /\ StopWorkersByPid(S, "maintained")
  /\ givenUp' = FALSE
  /\ UNCHANGED <<workerVars, commands, current, todo, poolVars, counterVars,
                 keepalives, startVars, requestVars, stopAnswered, timedOut>>

Set ==
  /\ Receive("set")
  /\ cardinality' = Head(commands).value
  /\ tpc' = "maintain"
  /\ UNCHANGED <<workerVars, after, current, todo, active, workerChannels,
                 keepaliveChannels, counterVars, stopper, keepalives, startVars,
                 requestVars, historyVars>>

Stop ==
  /\ Receive("stop")
  /\ active' = FALSE
  /\ StopWorkersByPid(Tracked, "stopped")
  /\ UNCHANGED <<workerVars, current, todo, cardinality, workerChannels,
                 keepaliveChannels, counterVars, keepalives, startVars,
                 requestVars, historyVars>>

\* MaintainWorkerCardinality() returns.  The reply to a set is part of this step
\* and of those that return from it at once: a set names one task, so the Runner
\* collects its answer already, or has closed the collector.
Maintained ==
  /\ tpc = "stopwait" /\ after = "maintained" /\ StoppersDone
  /\ tpc' = "loop"
  /\ after' = "none"
  /\ UNCHANGED <<workerVars, commands, current, todo, poolVars, counterVars,
                 stopper, keepalives, startVars, requestVars, historyVars>>

\* All the workers have answered: the stop command is replied to.
Stopped ==
  /\ tpc = "stopwait" /\ after = "stopped" /\ StoppersDone
  /\ tpc' = "reply"
  /\ UNCHANGED <<workerVars, commands, after, current, todo, poolVars, counterVars,
                 stopper, keepalives, startVars, requestVars, historyVars>>

\* The Runner only sends its last command still; of an earlier one it collects
\* the answers, or has closed the collector, and SafeReply() recovers.
CollectorReady == sending => \E i \in 1..Len(commands) : commands[i].type # "stoppedworker"

Replied ==
  /\ tpc = "reply" /\ CollectorReady
  /\ tpc' = "loop"
  /\ after' = "none"
  /\ stopAnswered' = (stopAnswered \/ after = "stopped")
  /\ UNCHANGED <<workerVars, commands, current, todo, poolVars, counterVars, stopper,
                 keepalives, startVars, requestVars, timedOut, givenUp>>

-----------------------------------------------------------------------------
(* Status() and ListWorkers(): Broadcast() of an info command *)

AskWorkers(type) ==
  /\ Receive(type)
  /\ IF Tracked = {}
     THEN tpc' = "reply" /\ todo' = {} /\ current' = None
     ELSE /\ tpc' = "bsend"
          /\ todo' = Tracked
          /\ current' \in Tracked
  /\ UNCHANGED <<workerVars, after, poolVars, counterVars, stopper, keepalives,
                 startVars, requestVars, historyVars>>

Status      == AskWorkers("status")
ListWorkers == AskWorkers("listworkers")

\* SafeSend() to one worker, then the next one of the map.
SendInfo ==
  /\ tpc = "bsend"
  /\ TakeInfo(current)
  /\ IF todo = {current}
     THEN tpc' = "bcollect" /\ todo' = Tracked /\ current' = None
     ELSE /\ todo' = todo \ {current}
          /\ current' \in todo \ {current}
          /\ UNCHANGED tpc
  /\ UNCHANGED <<commands, after, poolVars, counterVars, stopper,
                 keepalives, startVars, requestVars, historyVars>>

\* Those told so far, in a broadcast that is not over: its collector is open.
Answering ==
  CASE tpc = "bsend"    -> Tracked \ todo
    [] tpc = "bcollect" -> todo
    [] OTHER            -> {}

\* Mutant: off by one, the broadcast ends before the last answer.
CollectAllButOne(w) ==
  /\ tpc = "bcollect" /\ w \in todo
  /\ AnswerInfo(w)
  /\ todo' = todo \ {w}
  /\ tpc' = IF Cardinality(todo) <= 2 THEN "reply" ELSE "bcollect"
  /\ UNCHANGED <<commands, after, current, poolVars, counterVars, stopper,
                 keepalives, startVars, requestVars, historyVars>>

CollectInfo(w) ==
  /\ tpc = "bcollect" /\ w \in todo
  /\ AnswerInfo(w)
  /\ todo' = todo \ {w}
  /\ tpc' = IF todo = {w} THEN "reply" ELSE "bcollect"
  /\ UNCHANGED <<commands, after, current, poolVars, counterVars, stopper,
                 keepalives, startVars, requestVars, historyVars>>

\* A minute without an answer: the collector is closed, whoever has to answer.
BroadcastTimesOut ==
  /\ tpc = "bcollect"
  /\ tpc' = "reply"
  /\ todo' = {}
  /\ timedOut' = TRUE
  /\ UNCHANGED <<workerVars, commands, after, current, poolVars, counterVars, stopper,
                 keepalives, startVars, requestVars, stopAnswered, givenUp>>

\* Info() has no recover(): a worker that answers on a closed collector ends the
\* manager.
AnswerOnClosed(w) ==
  /\ run[w] = "info" /\ w \notin Answering
  /\ tpc' = "panic"
  /\ UNCHANGED <<workerVars, commands, after, current, todo, poolVars, counterVars,
                 stopper, keepalives, startVars, requestVars, historyVars>>

-----------------------------------------------------------------------------
(* Keep-alives *)

\* A process publishes a keep-alive.  Bound: one on its way for each pid.
EmitKeepAlive(w) ==
  /\ w \in Chatty
  /\ proc[w] = "running"
  /\ PidOf[w] \notin keepalives
  /\ tpc # "ended"
  /\ keepalives' = keepalives \cup {PidOf[w]}
  /\ UNCHANGED <<workerVars, commands, controlVars, poolVars, counterVars,
                 stopper, startVars, requestVars, historyVars>>

\* run() takes a keep-alive off the channel: keepWorkerAlive().
KeepWorkerAlive(pid) ==
  /\ tpc = "loop" /\ active
  /\ pid \in keepalives
  /\ keepalives' = keepalives \ {pid}
  /\ IF keepaliveChannels[pid] = None
     THEN UNCHANGED <<tpc, current>>
     ELSE tpc' = "keepalive" /\ current' = keepaliveChannels[pid]
  /\ UNCHANGED <<workerVars, commands, after, todo, poolVars,
                 counterVars, stopper, startVars, requestVars, historyVars>>

DeliverKeepAlive ==
  /\ tpc = "keepalive"
  /\ TakeKeepAlive(current)
  /\ tpc' = "loop" /\ current' = None
  /\ UNCHANGED <<commands, after, todo, poolVars, counterVars, stopper,
                 keepalives, startVars, requestVars, historyVars>>

\* The send panics on a closed channel; the deferred function removes it.
DropKeepAliveChannel ==
  /\ tpc = "keepalive"
  /\ run[current] = "ended"
  /\ keepaliveChannels' = [keepaliveChannels EXCEPT ![PidOf[current]] = None]
  /\ tpc' = "loop" /\ current' = None
  /\ UNCHANGED <<workerVars, commands, after, todo, active, cardinality,
                 workerChannels, counterVars, stopper, keepalives, startVars,
                 requestVars, historyVars>>

-----------------------------------------------------------------------------
(* The Runner and the operating system *)

\* The Runner forwards a command of a client or of the signal handler.  It waits
\* for the answers for a minute at most before it turns to the next one, so several
\* may be in the channel; after a stop it forwards no more.  A command that names
\* no task goes to the others too, maybe after this one.
Request ==
  /\ runnerActive /\ ~sending
  /\ sent < MaxRequests
  /\ Len(commands) < QueueCap
  /\ \E c \in ForwardedCommands :
       /\ commands' = Append(commands, c)
       /\ runnerActive' = (c.type # "stop")
       /\ sending' \in IF c.type \in {"status", "stop"} THEN BOOLEAN ELSE {FALSE}
  /\ sent' = sent + 1
  /\ UNCHANGED <<workerVars, controlVars, poolVars, counterVars, stopper,
                 keepalives, startVars, historyVars>>

\* It may never come to this: one of the others hangs and its channel is full.
SentToAll ==
  /\ sending
  /\ sending' = FALSE
  /\ UNCHANGED <<workerVars, commands, controlVars, poolVars, counterVars, stopper,
                 keepalives, startVars, sent, runnerActive, historyVars>>

\* Starting a process fails for a while, or for good.
Outage ==
  /\ ~failing
  /\ outages < MaxOutages
  /\ failing' = TRUE
  /\ outages' = outages + 1
  /\ UNCHANGED <<workerVars, commands, controlVars, poolVars, counterVars, stopper,
                 keepalives, started, startReply, requestVars, historyVars>>

OutageEnds ==
  /\ failing
  /\ failing' = FALSE
  /\ UNCHANGED <<workerVars, commands, controlVars, poolVars, counterVars, stopper,
                 keepalives, started, startReply, outages, requestVars, historyVars>>

-----------------------------------------------------------------------------

TakeCommand == CleanWorkerReference \/ Set \/ Stop \/ Status \/ ListWorkers

TaskStep ==
  \/ \E w \in Workers : StartupStarts(w) \/ Restock(w) \/ CollectInfo(w)
  \/ StartupFails \/ StartFailed \/ EnterLoop \/ LeaveLoop \/ Terminated
  \/ TakeCommand \/ Maintained \/ Stopped \/ Replied
  \/ RestockFails \/ Restored \/ AtCardinality \/ StopExtraWorkers
  \/ SendInfo \/ BroadcastTimesOut \/ DeliverKeepAlive \/ DropKeepAliveChannel
  \/ \E p \in Pids : KeepWorkerAlive(p)

\* The steps of run() and Stop() that meet no other goroutine.
LoopStep(w) ==
  /\ \/ TakeExit(w) \/ Forward(w) \/ StallTick(w) \/ TakeClosed(w)
     \/ GraceExpires(w) \/ Feedback(w)
  /\ UNCHANGED taskVars

ProcessStep(w) ==
  /\ ExitAlone(w) \/ ExitOnSignal(w) \/ Reap(w) \/ Elapse(w)
  /\ UNCHANGED taskVars

\* The steps of a process that has to end.
DeathStep(w) ==
  /\ Reap(w) \/ (signal[w] = "kill" /\ ExitOnSignal(w))
  /\ UNCHANGED taskVars

WorkerStep(w) ==
  \/ LoopStep(w) \/ ProcessStep(w) \/ EmitKeepAlive(w)
  \/ SendStop(w) \/ AnswerStop(w) \/ AnswerOnClosed(w)

Environment == Request \/ SentToAll \/ Outage \/ OutageEnds

Next ==
  /\ tpc # "panic"
  /\ TaskStep \/ Environment \/ \E w \in Workers : WorkerStep(w)

(***************************************************************************)
(* Goroutines that can run do run, a process that gets SIGKILL ends, and a *)
(* select picks among its ready cases at random, hence the strong fairness *)
(* of what a loop may take.  Nothing is assumed of clients, of processes   *)
(* that only got SIGTERM, of stalls, of keep-alives, of the end of an      *)
(* outage, and of the Runner, which may never get to collect an answer.    *)
(***************************************************************************)
Fairness ==
  /\ WF_vars(TaskStep)
  /\ SF_vars(TakeCommand)
  /\ \A w \in Workers :
       /\ WF_vars(LoopStep(w) \/ AnswerStop(w) \/ AnswerOnClosed(w))
       /\ SF_vars(TakeExit(w) /\ UNCHANGED taskVars)
       /\ SF_vars(SendStop(w))
       /\ WF_vars(DeathStep(w))

Spec == Init /\ [][Next]_vars /\ Fairness

-----------------------------------------------------------------------------
(* Properties *)

Messages ==
  [type : {"stoppedworker"}, worker : Workers, stalled : BOOLEAN] \cup
  [type : {"set"}, value : Targets] \cup
  [type : {"status", "listworkers", "stop"}]

\* The type of every variable.
TypeOK ==
  /\ WorkerTypeOK
  /\ commands \in Seq(Messages)
  /\ tpc \in TaskStates
  /\ after \in Continuations
  /\ current \in Workers \cup {None}
  /\ todo \subseteq Workers
  /\ active \in BOOLEAN
  /\ cardinality \in Nat
  /\ workerChannels    \in [Pids -> Workers \cup {None}]
  /\ keepaliveChannels \in [Pids -> Workers \cup {None}]
  /\ nStoppedWorkers \in Nat
  /\ nStalledWorkers \in Nat
  /\ stopper \in [Workers -> {"none", "send", "wait"}]
  /\ keepalives \subseteq Pids
  /\ started \in Nat
  /\ startReply \in {"open", "closed"}
  /\ failing \in BOOLEAN
  /\ outages \in Nat
  /\ sent \in Nat
  /\ runnerActive \in BOOLEAN
  /\ sending \in BOOLEAN
  /\ stopAnswered \in BOOLEAN
  /\ timedOut \in BOOLEAN
  /\ givenUp \in BOOLEAN

\* StopWorker() has no recover() (it is commented out): a send to a worker
\* whose CommandsChannel is closed would bring the manager down.  None is ever
\* closed while a stop or an info command is being sent to its worker.
NoSendOnClosedChannel ==
  /\ \A w \in Workers : stopper[w] # "none" => ~cmdClosed[w]
  /\ tpc = "bsend" => \A w \in todo : ~cmdClosed[w]

\* Broadcast() closes its collector when it returns, and Info() sends on it
\* unguarded.  It counts answers, of whoever gives them; unless it times out no
\* worker is still to answer when the collector is closed, then or ever after.
AnsweredBeforeClose ==
  ~timedOut => \A w \in Workers : run[w] = "info" => w \in Answering

\* The workers that took their exit message and have it in hand.
Reporting == {w \in Workers : run[w] \in {"forward", "feedback"}}
Reports   == {i \in 1..Len(commands) : commands[i].type = "stoppedworker"}

\* Every exit a worker was told of is counted in the status exactly once, or on
\* its way to be: the loop, Stop() and the ticker never both report it, and no
\* report is lost, even when pids are reused.
ExitsConserved ==
  Cardinality({w \in Workers : waiter[w] = "done"}) =
    nStoppedWorkers + Cardinality(Reports) + Cardinality(Reporting)

\* A running task is back in its loop with too few workers in its map only after an
\* error that MaintainWorkerCardinality() returned and its callers ignored, and only
\* until the map is full again: whoever handles an exit never leaves it short.
NeverShort ==
  tpc = "loop" /\ active /\ ~givenUp => NumTracked >= cardinality

\* A worker stopped by the stall detection is reported, and counted, as stalled:
\* no keep-alive slips in between the ticker and the second HasStalled().
StallReported ==
  \A w \in Workers : run[w] = "feedback" /\ caller[w] = "stall" => stalled[w]

\* The second Stop(), at the end of Start(), asks the workers that the first one
\* stopped: Start() only returns from a stop command that found no worker.
StoppedNeverReturns == stopAnswered /\ tpc = "ended" => Tracked = {}

\* Stop() signals a pid, also when its own process is long dead.  A process that
\* got a signal its own Stop() is not waiting out has inherited the pid of another
\* one, which was reaped; no other process is ever signalled by mistake.
StraySignals ==
  \A v \in Live :
    signal[v] # "none" /\ run[v] \notin {"stopping", "killing"} =>
      \E w \in Workers \ {v} : PidOf[w] = PidOf[v] /\ waiter[w] \in {"send", "done"}

(* Without reuse of pids: *)

\* No process runs that the task manager has forgotten.
AliveTracked == \A w \in Live : workerChannels[PidOf[w]] = w

\* When the stop command is answered no process of the task is left.
StopAnsweredAllDead == stopAnswered => Live = {}

\* The loop of a worker is only told to end once its process was reported, and
\* then the Stop() that should precede the end waits for ever: no loop ever ends,
\* and no keepAliveChannel is ever closed.
NoLoopEnds == \A w \in Workers : run[w] # "ended"

\* The task implements the abstract pool: it never starts a process when enough
\* of them run or after it took a stop command, and confirms the stop only when
\* all are dead.  The loop of Start() goes on starting workers after a failure,
\* so the pool is still open then.
Pool == INSTANCE WorkerPool WITH
  InitialTarget <- InitialCardinality,
  fresh         <- {w \in Workers : proc[w] = "none"},
  alive         <- Live,
  target        <- cardinality,
  open          <- active \/ tpc = "start" \/ after = "startfail",
  confirmed     <- stopAnswered

ImplementsPool == Pool!Spec

(* Where the task hangs *)

\* Stop() waits for an exit message that was already taken: nobody sends another.
Doomed(w) == run[w] \in {"stopping", "killing"} /\ waiter[w] = "done"

\* The worker's loop is out of its select, until it can send its report.
Blocked(w) == run[w] \in {"forward", "feedback"} /\ Len(commands) >= QueueCap

\* The goroutine of Start() does nothing else until this worker's loop, or its
\* Stop(), has met it.
Awaited(w) ==
  \/ tpc = "stopwait" /\ stopper[w] # "none"
  \/ tpc = "bsend" /\ w \in todo
  \/ tpc = "keepalive" /\ w = current

\* A hang: the goroutine waits for a worker whose loop waits for it, or forever.
Hung == \E w \in Workers : Awaited(w) /\ (Doomed(w) \/ Blocked(w))

\* No later step resolves a hang: neither the other workers, nor the death of
\* the process, nor the grace timer, nor a client; only a panic of the manager.
HungForGood == [][Hung => Hung' \/ tpc' = "panic"]_vars

\* The command cannot be executed, and restoreCardinality() tries for ever.
Spinning == tpc = "restore" /\ BelowCardinality /\ failing

\* The Runner does not get to collect the answer, as it is stuck at another task.
Unheard == tpc = "reply" /\ ~CollectorReady

(* Liveness *)

\* The goroutine of the task always comes back to its select, or returns.
TaskResponsive == []<>(tpc \in {"loop", "ended"})

\* The goroutine of the task comes back to its select, or returns, unless it
\* hangs on a worker, replaces workers during an outage, answers a Runner that is
\* stuck, or the manager panics.
ResponsiveUnlessHung ==
  []<>(tpc \in {"loop", "ended", "panic"} \/ Hung \/ Spinning \/ Unheard)

\* When no more processes die the pool gets to its cardinality and stays there, if
\* the task runs, keeps coming back to its loop and did not give up on a set.
PoolRefilled ==
  []<>(tpc = "loop" /\ active /\ ~givenUp) => <>[](Cardinality(Live) >= cardinality)

\* StopWorkersByPid() returns.
StopReturns == (tpc = "stopwait") ~> (tpc # "stopwait")

\* A worker whose command channel was closed ends its loop and cleans up.
LoopEnds == \A w \in Workers : cmdClosed[w] ~> (run[w] = "ended")

\* Broadcast() returns: it tells the workers, waits for the replies and closes.
BroadcastReturns == (tpc = "bsend") ~> (tpc \notin {"bsend", "bcollect"})

\* When a worker fails at startup the task is stopped altogether.
StartupFailureStopsTask == (after = "startfail") ~> (tpc = "ended")

\* Workers are stopped to reduce their number only when it is above the target.
OnlySurplusStopped ==
  [][tpc = "maintain" /\ tpc' = "stopwait" => Cardinality(Live) > cardinality]_vars

=============================================================================
